----------------------------- MODULE K8sCluster -----------------------------
(***************************************************************************)
(* The K8S scheduler (batch_sim/scheduler/k8s_scheduler.py) and the job    *)
(* process it runs (batch_sim/core/engine.py): requests leave the          *)
(* preprocessing bursts out, so a node can run out of memory; then a job   *)
(* that preprocesses is killed and a copy of it is queued again.           *)
(*                                                                         *)
(* A process <<j, k>> is the k-th copy of job j, 0 the original.  A killed *)
(* process is only marked (is_cancelled); it keeps its slot and its        *)
(* request until its own timer wakes it.  The slots of a node are keyed by *)
(* job_id, which a job and its copies share.                               *)
(*                                                                         *)
(* Nodes are of one instance type and one tier.  Timers are untimed.       *)
(***************************************************************************)
EXTENDS Totals, Lists, FiniteSets, Sequences, SequencesExt

CONSTANTS
  NumJobs,     \* jobs 1..NumJobs arrive in this order
  MaxRetries,  \* max_retries
  Soft, Vcpu,  \* what job j requests
  Ram,         \* Ram[j]: the memory job j uses in each of its phases
  Physical,    \* node.physical_ram_gb
  Spike,       \* tier.spike_max_gb, or the peak of centroid_peak_rams
  NodeVcpu,    \* instance.vcpu
  DrainVcpu,   \* idle_vcpu of the tier's drain rule
  MaxNodes,    \* bound: the nodes 1..MaxNodes are launched in order
  MaxCopies,   \* bound: a job is replayed so often; 2^MaxRetries - 1 is enough
  TierModes    \* subset of BOOLEAN: whether cfg.tiers (and windows) are set

Jobs == 1..NumJobs
Nodes == 1..MaxNodes
Copies == 0..MaxCopies
Procs == Jobs \X Copies
Active == {"download", "preprocess", "workhorse", "upload"}

ASSUME K8sAssumption ==
  /\ NumJobs \in Nat /\ MaxRetries \in Nat /\ MaxNodes \in Nat /\ MaxCopies \in Nat
  /\ Soft \in [Jobs -> Nat] /\ Vcpu \in [Jobs -> Nat]
  /\ Ram \in [Jobs -> [Active -> Nat]]
  /\ {Physical, Spike, NodeVcpu, DrainVcpu} \subseteq Nat
  /\ TierModes \subseteq BOOLEAN

VARIABLES
  tiered,          \* whether cfg.tiers is set
  known,           \* the keys of _job_compatible_tiers
  phase,           \* phase[p]: where process p stands
  host,            \* host[p]: the node p runs on, or 0
  retry,           \* retry[p]: retry_count of p's JobSpec
  cancelled,       \* the processes whose JobSpec is_cancelled
  queue,           \* the queued entries, in the order of the sorted heap
  completed,       \* the jobs with a job_complete record
  terminal,        \* the jobs with a job_terminal record
  slots,           \* slots[n][j]: node n's _slots[j], or NoSlot
  allocated_ram, allocated_vcpu,  \* of node n
  state,           \* state[n]: node.state, "none" before it is launched
  idle_timers,     \* idle_timers[n]: how many _idle_timer processes run
  monitors         \* the nodes whose _drain_monitor runs

jobVars == <<phase, host, retry, cancelled, completed, terminal>>
nodeVars == <<slots, allocated_ram, allocated_vcpu, state, idle_timers, monitors>>
vars == <<tiered, known, queue, jobVars, nodeVars>>

NoSlot == [proc |-> <<0, 0>>, phase |-> "none"]

Init ==
  /\ tiered \in TierModes /\ known = {}
  /\ phase = [p \in Procs |-> "absent"] /\ host = [p \in Procs |-> 0]
  /\ retry = [p \in Procs |-> 0] /\ cancelled = {} /\ queue = <<>>
  /\ completed = {} /\ terminal = {}
  /\ slots = [n \in Nodes |-> [j \in Jobs |-> NoSlot]]
  /\ allocated_ram = [n \in Nodes |-> 0] /\ allocated_vcpu = [n \in Nodes |-> 0]
  /\ state = [n \in Nodes |-> "none"]
  /\ idle_timers = [n \in Nodes |-> 0] /\ monitors = {}

-----------------------------------------------------------------------------
(* compute_k8s_capacity *)
Effective == IF Physical > Spike THEN Physical - Spike ELSE 0

(* The requests of the entries of q at the indices of S.                   *)
Requested(q, S, Amount) ==
  Total([i \in 1..Len(q) |-> IF i \in S THEN Amount[q[i][1]] ELSE 0], Len(q))

(* _k8s_fits: q[i] fits on n beside the entries before it that went there. *)
FitsBehind(q, placed, i, n, ram, vcpu) ==
  LET ahead == {k \in 1..(i-1) : placed[k] = n}
  IN  /\ Effective > 0
      /\ ram[n] + Requested(q, ahead \cup {i}, Soft) <= Effective
      /\ vcpu[n] + Requested(q, ahead \cup {i}, Vcpu) <= NodeVcpu

(* _node_compatible: in tier mode only a job whose tiers are known.        *)
Compatible(j, kn) == tiered => j \in kn

(* Mutant: the fullest node is taken before it is asked whether it fits.   *)
FullestThenFit(q, placed, i, ram, vcpu, st) ==
  LET ready == {n \in Nodes : st[n] = "READY"}
      load(n) == ram[n] + Requested(q, {k \in 1..(i-1) : placed[k] = n}, Soft)
      Better(n, m) == load(n) > load(m) \/ (load(n) = load(m) /\ n <= m)
      fullest == CHOOSE n \in ready : \A m \in ready : Better(n, m)
  IN  IF ready = {} THEN 0 ELSE IF FitsBehind(q, placed, i, fullest, ram, vcpu) THEN fullest ELSE 0

(* _best_fit_node: the fullest READY node that fits, the first launched    *)
(* among equals.                                                           *)
BestFit(q, placed, i, ram, vcpu, st) ==
  LET fit == {n \in Nodes : st[n] = "READY" /\ FitsBehind(q, placed, i, n, ram, vcpu)}
      load(n) == ram[n] + Requested(q, {k \in 1..(i-1) : placed[k] = n}, Soft)
      Better(n, m) == load(n) > load(m) \/ (load(n) = load(m) /\ n <= m)
  IN  IF fit = {} THEN 0 ELSE CHOOSE n \in fit : \A m \in fit : Better(n, m)

(* The entries that leave the queue: those placed, and every other entry   *)
(* of a job that is placed.                                                *)
Leaves(q, placed, i) ==
  \E k \in 1..Len(q) : placed[k] # 0 /\ q[k][1] = q[i][1]

(* Mutant: the job counts as queued until its download is under way.       *)
NewSlotQueued(p) == [proc |-> p, phase |-> "queued"]

(* add_job *)
NewSlot(p) == [proc |-> p, phase |-> "download"]

(* _try_schedule's passes over the sorted queue, when the jobs and nodes   *)
(* stand as given: the jobs it places take their slot and download.        *)
TrySchedule(ph, h, q, sl, ram, vcpu, st, kn) ==
  \E placed \in [1..Len(q) -> {n \in Nodes : st[n] = "READY"} \cup {0}] :
    /\ \A i \in 1..Len(q) :
         placed[i] = IF /\ Compatible(q[i][1], kn)
                        /\ \A k \in 1..(i-1) : q[k][1] = q[i][1] => placed[k] = 0
                     THEN BestFit(q, placed, i, ram, vcpu, st) ELSE 0
    /\ LET On(n) == {i \in 1..Len(q) : placed[i] = n}
           started(n, j) == {i \in On(n) : q[i][1] = j}
           gone == {q[i] : i \in {k \in 1..Len(q) : Leaves(q, placed, k)}}
           at(p) == placed[CHOOSE i \in 1..Len(q) : q[i] = p]
       IN  /\ phase' = [p \in Procs |-> IF p \notin gone THEN ph[p]
                                        ELSE IF at(p) = 0 THEN "dropped" ELSE "download"]
           /\ host' = [p \in Procs |-> IF p \in gone THEN at(p) ELSE h[p]]
           /\ queue' = Keep(q, Procs \ gone)
           /\ slots' = [n \in Nodes |-> [j \in Jobs |->
                          IF started(n, j) = {} THEN sl[n][j]
                          ELSE NewSlot(q[CHOOSE i \in started(n, j) : TRUE])]]
           /\ allocated_ram' = [n \in Nodes |-> ram[n] + Requested(q, On(n), Soft)]
           /\ allocated_vcpu' = [n \in Nodes |-> vcpu[n] + Requested(q, On(n), Vcpu)]
           /\ state' = st
           /\ known' = kn

-----------------------------------------------------------------------------
(* on_job_arrival.  In tier mode a job whose burst no tier hosts is        *)
(* rejected.  A replay entry sorts behind the jobs that arrive within its  *)
(* delay, and before later ones.                                           *)
Arrive(j) ==
  LET p == <<j, 0>>
      kn == IF tiered THEN known \cup {j} ELSE known
  IN  /\ phase[p] = "absent"
      /\ \A k \in 1..(j-1) : phase[<<k, 0>>] # "absent"
      /\ IF tiered /\ Ram[j].preprocess > Soft[j] + Spike
         THEN /\ phase' = [phase EXCEPT ![p] = "rejected"]
              /\ UNCHANGED <<host, queue, slots, allocated_ram, allocated_vcpu, state, known>>
         ELSE \E i \in 1..(Len(queue) + 1) :
                /\ \A k \in i..Len(queue) : queue[k][2] # 0
                /\ TrySchedule([phase EXCEPT ![p] = "queued"], host, InsertAt(queue, i, p),
                               slots, allocated_ram, allocated_vcpu, state, kn)
      /\ UNCHANGED <<tiered, retry, cancelled, completed, terminal, idle_timers, monitors>>

(* Process p moves on to phase ph, and the slot of its job, if there is    *)
(* one, with it (update_phase).                                            *)
Updated(p, ph) ==
  [slots EXCEPT ![host[p]][p[1]] = IF @ = NoSlot THEN @ ELSE [proc |-> @.proc, phase |-> ph]]

MoveTo(p, ph) ==
  /\ phase' = [phase EXCEPT ![p] = ph]
  /\ slots' = Updated(p, ph)
  /\ UNCHANGED <<tiered, known, host, queue, allocated_ram, allocated_vcpu, state,
                 idle_timers, monitors>>

(* Mutant: the request of a process that ends stays allocated.             *)
LessNothing(held, amount) == held

Less(held, amount) == IF held > amount THEN held - amount ELSE 0

Holds(sl, n) == {j \in Jobs : sl[n][j] # NoSlot}

(* Mutant: a node that drains is let go by whichever job ends first.       *)
StateAfterAnyEnd(n, left) ==
  IF Holds(left, n) # {} /\ state[n] # "DRAINING" THEN state
  ELSE [state EXCEPT ![n] = IF @ = "DRAINING" THEN "TERMINATED" ELSE "IDLE"]

(* The nodes' states when a job of n ended and leaves the slots left.      *)
StateAfter(n, left) ==
  IF Holds(left, n) # {} THEN state
  ELSE [state EXCEPT ![n] = IF @ = "DRAINING" THEN "TERMINATED" ELSE "IDLE"]

(* Process p ends: remove_job(job_id), which removes whatever slot its job *)
(* has, then on_job_complete: the request goes back, a node without slots  *)
(* is IDLE, or TERMINATED if it drains, the drain monitor looks again, and *)
(* the queue is scheduled.                                                 *)
Finish(p, ph, q, sl) ==
  LET n == host[p]
      left == [sl EXCEPT ![n][p[1]] = NoSlot]
      st == StateAfter(n, left)
  IN  /\ idle_timers' = [idle_timers EXCEPT ![n] =
                           IF Holds(left, n) = {} /\ st[n] = "IDLE" THEN @ + 1 ELSE @]
      /\ monitors' = IF st[n] \in {"DRAINING", "TERMINATED"} THEN monitors \ {n} ELSE monitors
      /\ TrySchedule([ph EXCEPT ![p] = "ended"], [host EXCEPT ![p] = 0], q, left,
                     [allocated_ram EXCEPT ![n] = Less(@, Soft[p[1]])],
                     [allocated_vcpu EXCEPT ![n] = Less(@, Vcpu[p[1]])],
                     st, known \ {p[1]})
      /\ UNCHANGED tiered

-----------------------------------------------------------------------------
(* instantaneous_ram_gb *)
RamInUse(sl, n) ==
  Total([j \in Jobs |-> IF j \in Holds(sl, n) THEN Ram[j][sl[n][j].phase] ELSE 0], NumJobs)

(* Who may be killed on n: any job in its preprocess phase, or the largest *)
(* if there is none.                                                       *)
Victims(sl, n) ==
  LET phase2 == {j \in Holds(sl, n) : sl[n][j].phase = "preprocess"}
      use(j) == Ram[j][sl[n][j].phase]
      largest == {j \in Holds(sl, n) : \A k \in Holds(sl, n) : use(k) <= use(j)}
  IN  {sl[n][j].proc : j \in IF phase2 # {} THEN phase2 ELSE largest}

(* The next copy of job j (fresh_copy).                                    *)
Copy(j) == <<j, CHOOSE k \in Copies : phase[<<j, k>>] = "absent"
                                      /\ \A i \in 0..(k-1) : phase[<<j, i>>] # "absent">>

(* Mutant: one replay too many.                                            *)
ReplaysOnceMore(count) == count <= MaxRetries + 1

(* A job that has crashed this often is queued again.                      *)
Replays(count) == count <= MaxRetries

(* check_and_handle, when process p starts to preprocess on n: victim v is *)
(* killed.  The copy inherits is_cancelled, which is set if v was killed   *)
(* before.  If v is of p's own job, p ends at once.                        *)
Kill(p, v, sl) ==
  LET count == retry[v] + 1
      c == Copy(v[1])
      ph == IF Replays(count) THEN [phase EXCEPT ![c] = "queued"] ELSE phase
      q == IF Replays(count) THEN Append(queue, c) ELSE queue
  IN  /\ Replays(count) => \E k \in Copies : phase[<<v[1], k>>] = "absent"
      /\ retry' = IF Replays(count) THEN [retry EXCEPT ![v] = count, ![c] = count]
                                    ELSE [retry EXCEPT ![v] = count]
      /\ cancelled' = cancelled \cup {v}
                        \cup (IF v \in cancelled /\ Replays(count) THEN {c} ELSE {})
      /\ terminal' = IF Replays(count) THEN terminal ELSE terminal \cup {v[1]}
      /\ IF v[1] = p[1] THEN Finish(p, ph, q, sl)
         ELSE /\ phase' = [ph EXCEPT ![p] = "preprocess"]
              /\ queue' = q /\ slots' = sl
              /\ UNCHANGED <<tiered, known, host, allocated_ram, allocated_vcpu, state,
                             idle_timers, monitors>>

(* A process that finds itself cancelled, or without a slot, ends.         *)
Evict(p) ==
  Finish(p, phase, queue, slots) /\ UNCHANGED <<retry, cancelled, completed, terminal>>

Proceed(p, ph) == MoveTo(p, ph) /\ UNCHANGED <<retry, cancelled, completed, terminal>>

(* The download ends.                                                      *)
EndDownload(p) ==
  LET n == host[p]
      sl == Updated(p, "preprocess")
  IN  /\ phase[p] = "download"
      /\ \/ p \in cancelled /\ Evict(p)
         \/ p \notin cancelled /\ RamInUse(sl, n) <= Physical /\ Proceed(p, "preprocess")
         \/ /\ p \notin cancelled /\ RamInUse(sl, n) > Physical
            /\ \E v \in Victims(sl, n) : Kill(p, v, sl)
            /\ UNCHANGED completed

(* Preprocessing ends.  The first stage needs the slot.                    *)
EndPreprocess(p) ==
  /\ phase[p] = "preprocess"
  /\ IF p \in cancelled \/ slots[host[p]][p[1]] = NoSlot THEN Evict(p)
                                                        ELSE Proceed(p, "workhorse")

(* The last stage ends.  A process that lost its slot meanwhile notices at *)
(* a change of its CPU share or between two stages, if there is one.       *)
EndWorkhorse(p) ==
  /\ phase[p] = "workhorse"
  /\ \/ (p \in cancelled \/ slots[host[p]][p[1]] = NoSlot) /\ Evict(p)
     \/ p \notin cancelled /\ Proceed(p, "upload")

(* The upload ends.                                                        *)
EndUpload(p) ==
  /\ phase[p] = "upload"
  /\ completed' = IF p \in cancelled THEN completed ELSE completed \cup {p[1]}
  /\ Finish(p, phase, queue, slots)
  /\ UNCHANGED <<retry, cancelled, terminal>>

JobStep(p) == EndDownload(p) \/ EndPreprocess(p) \/ EndWorkhorse(p) \/ EndUpload(p)

-----------------------------------------------------------------------------
Launched == {n \in Nodes : state[n] # "none"}

(* _provision_to_demand, for one instance type: first fit of the queue on  *)
(* the nodes that are READY or LAUNCHING and then on as many new ones as   *)
(* it takes.                                                               *)
Provision ==
  LET usable == {n \in Nodes : state[n] \in {"READY", "LAUNCHING", "none"}}
      fits(placed, i) == {n \in usable : FitsBehind(queue, placed, i, n,
                                                    allocated_ram, allocated_vcpu)}
  IN  \E placed \in [1..Len(queue) -> usable \cup {0}] :
        /\ \A i \in 1..Len(queue) :
             placed[i] = IF fits(placed, i) = {} \/ ~Compatible(queue[i][1], known) THEN 0
                         ELSE CHOOSE n \in fits(placed, i) :
                                \A m \in fits(placed, i) : n <= m
        /\ Range(placed) \cap (Nodes \ Launched) # {}
        /\ state' = [n \in Nodes |-> IF n \in Range(placed) \ Launched
                                     THEN "LAUNCHING" ELSE state[n]]
        /\ UNCHANGED <<tiered, known, queue, jobVars, slots, allocated_ram, allocated_vcpu,
                       idle_timers, monitors>>

(* The rest of _launch_node, after the warm-up.                            *)
NodeReady(n) ==
  /\ state[n] = "LAUNCHING"
  /\ \A m \in 1..(n-1) : state[m] # "LAUNCHING"
  /\ monitors' = IF tiered THEN monitors \cup {n} ELSE monitors
  /\ TrySchedule(phase, host, queue, slots, allocated_ram, allocated_vcpu,
                 [state EXCEPT ![n] = "READY"], known)
  /\ UNCHANGED <<tiered, retry, cancelled, completed, terminal, idle_timers>>

(* _idle_timer *)
IdleFires(n) ==
  /\ idle_timers[n] > 0
  /\ idle_timers' = [idle_timers EXCEPT ![n] = @ - 1]
  /\ state' = [state EXCEPT ![n] = IF @ = "IDLE" /\ Holds(slots, n) = {}
                                   THEN "TERMINATED" ELSE @]
  /\ UNCHANGED <<tiered, known, queue, jobVars, slots, allocated_ram, allocated_vcpu, monitors>>

(* _drain_monitor: enough vCPU was idle for the duration of the rule.      *)
DrainFires(n) ==
  /\ n \in monitors
  /\ NodeVcpu - allocated_vcpu[n] >= DrainVcpu
  /\ monitors' = monitors \ {n}
  /\ state' = [state EXCEPT ![n] = IF @ = "TERMINATED" THEN @ ELSE "DRAINING"]
  /\ UNCHANGED <<tiered, known, queue, jobVars, slots, allocated_ram, allocated_vcpu, idle_timers>>

(* _policy_timer: the next window; the monitors look again.                *)
PolicySwap ==
  /\ tiered
  /\ monitors' = {n \in monitors : state[n] # "TERMINATED"}
  /\ TrySchedule(phase, host, queue, slots, allocated_ram, allocated_vcpu, state, known)
  /\ UNCHANGED <<tiered, retry, cancelled, completed, terminal, idle_timers>>

NodeStep(n) == NodeReady(n) \/ IdleFires(n) \/ DrainFires(n)

Next ==
  \/ Provision \/ PolicySwap
  \/ \E j \in Jobs : Arrive(j)
  \/ \E p \in Procs : JobStep(p)
  \/ \E n \in Nodes : NodeStep(n)

(* simpy fires every timer; drain rules may change with the window.        *)
Fairness ==
  /\ WF_vars(Provision)
  /\ \A p \in Procs : WF_vars(JobStep(p))
  /\ \A n \in Nodes : WF_vars(NodeReady(n)) /\ WF_vars(IdleFires(n))

Spec == Init /\ [][Next]_vars

FairSpec == Spec /\ Fairness

-----------------------------------------------------------------------------
Phases == Active \cup {"absent", "rejected", "queued", "dropped", "ended"}
Slot == [proc : Procs, phase : Active] \cup {NoSlot}

(* The types of the variables; a process has a host exactly while it runs. *)
TypeOK ==
  /\ tiered \in TierModes /\ known \subseteq Jobs
  /\ phase \in [Procs -> Phases] /\ host \in [Procs -> Nodes \cup {0}]
  /\ retry \in [Procs -> Nat] /\ cancelled \subseteq Procs
  /\ queue \in Seq(Procs)
  /\ completed \subseteq Jobs /\ terminal \subseteq Jobs
  /\ slots \in [Nodes -> [Jobs -> Slot]]
  /\ allocated_ram \in [Nodes -> Nat] /\ allocated_vcpu \in [Nodes -> Nat]
  /\ state \in [Nodes -> {"none", "LAUNCHING", "READY", "IDLE", "DRAINING", "TERMINATED"}]
  /\ idle_timers \in [Nodes -> Nat] /\ monitors \subseteq Nodes
  /\ \A p \in Procs : host[p] # 0 <=> phase[p] \in Active

(* A node's books are the requests of the processes on it, the killed ones *)
(* that have not woken yet and those that lost their slot included: each   *)
(* process gives its request back once, however it ends.                   *)
AllocationBalanced ==
  \A n \in Nodes :
    LET requested(Amount) ==
          Total([j \in Jobs |-> Amount[j] * Cardinality({p \in Procs : p[1] = j /\ host[p] = n})],
                NumJobs)
    IN  /\ allocated_ram[n] = requested(Soft)
        /\ allocated_vcpu[n] = requested(Vcpu)

(* A job that waits for the first time waits because no READY node has     *)
(* room.  (A replay may wait although one has: it is queued without a call *)
(* of _try_schedule.)                                                      *)
NoIdleRoom ==
  \A i \in 1..Len(queue) : \A n \in Nodes :
    queue[i][2] = 0 /\ state[n] = "READY" =>
      ~FitsBehind(<<queue[i]>>, <<0>>, 1, n, allocated_ram, allocated_vcpu)

(* "After 3 retries the job is recorded as a terminal failure"             *)
(* (docs/jira/epic_E3_core.md): no copy that runs or waits has crashed     *)
(* more often than that, and a job killed once more is recorded.           *)
RetryLimit ==
  \A p \in Procs :
    /\ retry[p] > MaxRetries => p[1] \in terminal
    /\ p \notin cancelled => retry[p] <= MaxRetries

(* No node is let go, or left to its idle timer, while a job's slot is on  *)
(* it.                                                                     *)
SlotsOnLiveNodes ==
  \A n \in Nodes : Holds(slots, n) # {} => state[n] \in {"READY", "DRAINING"}

(* "All jobs complete or recorded as terminal failures"                    *)
(* (docs/jira/epic_E6_k8s.md:102): a job that was admitted and is neither  *)
(* has a copy that waits, or one that runs and is not killed.              *)
NoJobLost ==
  \A j \in Jobs :
    phase[<<j, 0>>] \notin {"absent", "rejected"} =>
      \/ j \in completed \cup terminal
      \/ \E p \in Procs \ cancelled : p[1] = j /\ phase[p] \in Active \cup {"queued"}

(* "set after copy so replay is not pre-cancelled" (core/engine.py:84): a  *)
(* copy that waits to be replayed is not marked as killed itself.          *)
ReplaysNotCancelled == \A i \in 1..Len(queue) : queue[i] \notin cancelled

(* "All jobs complete or recorded as terminal failures"                    *)
(* (docs/jira/epic_E6_k8s.md:102): some tier may host a job that waits.    *)
WaitingJobHasTiers == \A i \in 1..Len(queue) : Compatible(queue[i][1], known)

(* "Node shuts down exactly when the last job exits, not before"           *)
(* (docs/jira/epic_E16_time_based_scheduling_policy.md:193): a node that   *)
(* drains is terminated in the end.                                        *)
DrainedNodeShutsDown ==
  \A n \in Nodes : state[n] = "DRAINING" ~> state[n] = "TERMINATED"
=============================================================================
