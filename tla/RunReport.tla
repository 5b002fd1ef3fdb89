----------------------------- MODULE RunReport -----------------------------
(***************************************************************************)
(* What a Batch run leaves behind: the event log of the MetricsCollector,  *)
(* and the figures that are computed from it afterwards, by the scorecard  *)
(* (metrics/aggregator.py) and the timeline script                         *)
(* (scripts/generate_node_timelines.py).  Beside the run a sampler         *)
(* (metrics/utilization_sampler.py) notes what holds on the live nodes:    *)
(* the report should say the same.                                         *)
(*                                                                         *)
(* The clock moves between steps.  A run with cool_off_seconds stops at    *)
(* the horizon, whatever runs then; one without goes on for ever, since    *)
(* _scale_out_monitor polls, and no report is made.                        *)
(***************************************************************************)
EXTENDS BatchCluster

CONSTANT Configs   \* what is run: [storage, until, events] records

ASSUME ReportAssumption ==
  Configs \subseteq [storage : StorageModels, until : Nat, events : SUBSET Jobs]

VARIABLES
  until,      \* horizon_seconds + cool_off_seconds in ticks, or 0 (None)
  events,     \* the jobs of the event list
  now,        \* env.now
  ended,      \* whether finalize has run
  job_log,    \* job_log[j][e]: the time of job j's event e, or Never
  node_log,   \* node_log[n][e]: the time of node n's event e, or Never
  job_node,   \* job_node[j]: the node_id of j's JOB_START, or 0
  samples     \* the samples taken, one per tick

logVars == <<until, events, now, ended, job_log, node_log, job_node, samples>>
vars == <<clusterVars, logVars>>

Never == 0 - 1

(* JOB_QUEUED, the four PHASE_TRANSITIONs and JOB_COMPLETE of a job; no    *)
(* job of a Batch run has an event twice.                                  *)
JobEvents == Active \cup {"queued", "done"}
NodeEvents == {"LAUNCHING", "READY", "IDLE", "TERMINATED"}

Init ==
  /\ ClusterInit
  /\ \E c \in Configs : storage = c.storage /\ until = c.until /\ events = c.events
  /\ now = 0 /\ ended = FALSE
  /\ job_log = [j \in Jobs |-> [e \in JobEvents |-> Never]]
  /\ node_log = [n \in Nodes |-> [e \in NodeEvents |-> Never]]
  /\ job_node = [j \in Jobs |-> 0]
  /\ samples = <<>>

-----------------------------------------------------------------------------
(* Every change of a job's phase or a node's state is recorded when it     *)
(* happens; a job that is placed as it arrives has been queued, too.       *)
Record ==
  /\ job_log' = [j \in Jobs |-> [e \in JobEvents |->
       IF phase'[j] # phase[j] /\ (e = phase'[j] \/ (e = "queued" /\ phase[j] = "absent"))
       THEN now ELSE job_log[j][e]]]
  /\ node_log' = [n \in Nodes |-> [e \in NodeEvents |->
       IF state'[n] # state[n] /\ e = state'[n] THEN now ELSE node_log[n][e]]]
  /\ job_node' = [j \in Jobs |-> IF phase'[j] = "download" THEN host'[j] ELSE job_node[j]]

Up == {n \in Nodes : state[n] \in {"READY", "IDLE"}}

(* utilization_sampler: util1 and reserved of the live nodes, and what the *)
(* other figures of the report are about.                                  *)
Sample ==
  [util1    |-> Total([j \in Jobs |-> IF host[j] # 0 THEN Use[j][phase[j]] ELSE 0], NumJobs),
   reserved |-> Total([j \in Jobs |-> IF host[j] # 0 THEN Peak[j] ELSE 0], NumJobs),
   alive    |-> {n \in Nodes : state[n] \notin {"none", "TERMINATED"}},
   idle     |-> {n \in Up : On(host, n) = {}},
   queued   |-> Queued(phase)]

Tick ==
  /\ ~ended /\ now < until
  /\ now' = now + 1
  /\ samples' = Append(samples, Sample)
  /\ UNCHANGED <<clusterVars, until, events, ended, job_log, node_log, job_node>>

(* A step A of the cluster; at the horizon there is none any more.         *)
Run(A) ==
  /\ ~ended /\ (until = 0 \/ now < until)
  /\ A
  /\ Record
  /\ UNCHANGED <<until, events, now, ended, samples>>

(* env.run(until) is over: finalize terminates every node that is left.    *)
Finalize ==
  /\ until > 0 /\ ~ended /\ now = until
  /\ ended' = TRUE
  /\ state' = [n \in Nodes |-> IF state[n] = "none" THEN "none" ELSE "TERMINATED"]
  /\ UNCHANGED <<storage, phase, host, type>>
  /\ Record
  /\ UNCHANGED <<until, events, now, samples>>

Next ==
  \/ Tick \/ Finalize
  \/ Run(Provision)
  \/ \E j \in events : Run(Arrive(j))
  \/ \E j \in Jobs : Run(NextPhase(j)) \/ Run(Complete(j))
  \/ \E n \in Nodes : Run(NodeReady(n)) \/ Run(IdleFires(n))

(* simpy fires every timer and the monitor polls for ever, unless the run  *)
(* is cut short first.                                                     *)
Uncut(A) == until = 0 /\ Run(A)

Fairness ==
  /\ WF_vars(Uncut(Provision))
  /\ \A j \in Jobs : WF_vars(Uncut(NextPhase(j))) /\ WF_vars(Uncut(Complete(j)))
  /\ \A n \in Nodes : WF_vars(Uncut(NodeReady(n))) /\ WF_vars(Uncut(IdleFires(n)))

Spec == Init /\ [][Next]_vars

FairSpec == Spec /\ Fairness

-----------------------------------------------------------------------------
(* Job phases in their order, with the event that closes each.             *)
Closes == [download |-> "preprocess", preprocess |-> "workhorse",
           workhorse |-> "upload", upload |-> "done"]

(* run_and_extract: the phase windows of a job.  One that no later event   *)
(* closes is not kept.                                                     *)
Windows(j) ==
  {ph \in Active : job_log[j][ph] # Never /\ job_log[j][Closes[ph]] # Never}

Start(j, ph) == job_log[j][ph]

(* Mutant: the end of the last phase is not seen.                          *)
CloseIgnoresComplete(j, ph) == IF ph = "upload" THEN job_log[j][ph] ELSE job_log[j][Closes[ph]]

Close(j, ph) == job_log[j][Closes[ph]]

(* start_t and end_t of a job's bar, which begins with its JOB_START.      *)
Bar(j, t) == \E ph \in Windows(j) : Start(j, "download") <= t /\ t < Close(j, ph)

(* node_term_time, when the log goes on for ever synthesised: the time of  *)
(* the last event.                                                         *)
LastEvent ==
  LET times == {job_log[j][e] : j \in Jobs, e \in JobEvents}
               \cup {node_log[n][e] : n \in Nodes, e \in NodeEvents}
  IN  CHOOSE t \in times : \A u \in times : u <= t

TermTime(n) == IF node_log[n]["TERMINATED"] # Never THEN node_log[n]["TERMINATED"] ELSE LastEvent

DrawnNodes(t) ==
  {n \in Nodes : node_log[n]["LAUNCHING"] # Never
                 /\ node_log[n]["LAUNCHING"] <= t /\ t < TermTime(n)}

(* _build_usage_series: used_ram and soft_reserved_ram at t.               *)
UsedRam(t) ==
  LET drawn(j) == {ph \in Windows(j) : Start(j, ph) <= t /\ t < Close(j, ph)}
  IN  Total([j \in Jobs |-> IF job_node[j] \in DrawnNodes(t) /\ drawn(j) # {}
                            THEN Use[j][CHOOSE ph \in drawn(j) : TRUE] ELSE 0], NumJobs)

SoftReserved(t) ==
  Total([j \in Jobs |-> IF job_node[j] \in DrawnNodes(t) /\ Bar(j, t) THEN Peak[j] ELSE 0],
        NumJobs)

(* compute_idle_decomposition: the time before a node's first job, and     *)
(* idle_duration_s, which is 0 for a node that has never been IDLE.        *)
PreFirstJob(n) ==
  LET starts == {Start(j, "download") : j \in {k \in Jobs : job_node[k] = n}}
      first == CHOOSE t \in starts : \A u \in starts : t <= u
  IN  IF starts = {} \/ first < node_log[n]["READY"] THEN 0 ELSE first - node_log[n]["READY"]

IdleDuration(n) ==
  IF node_log[n]["IDLE"] = Never THEN 0 ELSE node_log[n]["TERMINATED"] - node_log[n]["IDLE"]

TotalIdle ==
  Total([n \in Nodes |-> IF node_log[n]["READY"] = Never THEN 0
                         ELSE PreFirstJob(n) + IdleDuration(n)], MaxNodes)

(* The accruers' billed time, and queue_wait_s of the completed jobs.      *)
BilledTime ==
  Total([n \in Nodes |-> IF node_log[n]["LAUNCHING"] = Never THEN 0
                         ELSE node_log[n]["TERMINATED"] - node_log[n]["LAUNCHING"]], MaxNodes)

QueueWait(j) == Start(j, "download") - job_log[j]["queued"]

-----------------------------------------------------------------------------
(* The types of all variables.                                             *)
TypeOK ==
  /\ ClusterTypeOK
  /\ until \in Nat /\ events \subseteq Jobs /\ now \in 0..until /\ ended \in BOOLEAN
  /\ job_log \in [Jobs -> [JobEvents -> -1..now]]
  /\ node_log \in [Nodes -> [NodeEvents -> -1..now]]
  /\ job_node \in [Jobs -> Nodes \cup {0}]
  /\ Len(samples) = now

AllDone == \A j \in Jobs : phase[j] \in {"absent", "done"}

SampleSum(Figure(_)) == Total([i \in 1..Len(samples) |-> Figure(samples[i])], Len(samples))

(* The figures the report computes from the log of a run that was not cut  *)
(* short are those of the nodes while they were live: the memory in use    *)
(* and reserved at every instant (_build_usage_series), the nodes drawn,   *)
(* the time billed, the time jobs waited.  Of a run that was cut short it  *)
(* shows no more than there was.                                           *)
ReportMatchesRun ==
  ended =>
    /\ \A t \in 0..(until-1) :
         /\ UsedRam(t) <= samples[t+1].util1 /\ SoftReserved(t) <= samples[t+1].reserved
         /\ AllDone => UsedRam(t) = samples[t+1].util1
                       /\ SoftReserved(t) = samples[t+1].reserved
         /\ DrawnNodes(t) = samples[t+1].alive
    /\ BilledTime = SampleSum(LAMBDA s : Cardinality(s.alive))
    /\ AllDone => Total([j \in Jobs |-> IF phase[j] = "done" THEN QueueWait(j) ELSE 0], NumJobs)
                    = SampleSum(LAMBDA s : Cardinality(s.queued))

(* total_idle_s is the time that the nodes were up without a job, though   *)
(* the decomposition has between_jobs_s at 0 (aggregator.py:96): no node   *)
(* that has emptied gets another job.  Nodes that have had no job at all   *)
(* are left out of it.                                                     *)
IdleTimeTrue ==
  LET used == {job_node[j] : j \in Jobs}
  IN  ended => TotalIdle = SampleSum(LAMBDA s : Cardinality(s.idle \cap used))

(* Every job that is queued is run to its end, when some instance type     *)
(* fits each job, whatever waits for volumes meanwhile.                    *)
EveryJobDone == \A j \in Jobs : until = 0 /\ phase[j] = "queued" ~> phase[j] = "done"

(* The cluster of a run keeps its contract until the run ends; then the    *)
(* nodes go, whatever is on them (finalize).                               *)
ContractUntilEnd == Contract!Init /\ [][~ended' => Contract!Next]_(Contract!vars)
=============================================================================
