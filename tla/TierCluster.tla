---------------------------- MODULE TierCluster ----------------------------
(***************************************************************************)
(* Tiers and time windows (cfg.tiers, cfg.time_window_policy) in the K8S   *)
(* and the K8S+ scheduler: a job names the tiers it may run on, a tier     *)
(* fixes the instance type and the reservation for bursts, and a window of *)
(* the day says which tiers are provisioned for, how many nodes each may   *)
(* have, how fast they are launched and when an idle one drains.           *)
(*                                                                         *)
(* Time is in ticks.  What a job does on its node is K8sCluster's and      *)
(* PlusNode's business; here it runs until it ends, and nothing is killed. *)
(* A window lists its tiers in the order they are declared in.             *)
(***************************************************************************)
EXTENDS NodeJobs, Packing, Lists, Sequences, SequencesExt, FiniteSetsExt

CONSTANTS
  Soft, Vcpu, Burst,   \* of each job; Burst is preprocess_peak - soft_limit
  TierDefs,            \* cfg.tiers: [spike, ram, vcpu], with its instance's
  Overhead,            \* os_overhead_gb
  Workloads,           \* what the jobs name: [declared, default, overrides,
                       \* limited]
  Policies,            \* time_window_policy, <<>> for none
  Day,                 \* ticks in 86400 s
  MaxNow,              \* bound: the ticks that pass
  MaxNodes             \* bound: the nodes 1..MaxNodes are launched in order

Tiers == 1..Len(TierDefs)
Nodes == 1..MaxNodes
Never == -1

(* What the schemas of core/schemas.py let through, without the RAM bands  *)
(* of the legacy format.  Two rules with the same threshold are left out.  *)
DrainRule == [idle_vcpu : Nat, duration : Nat \ {0}]

TierProfile == [spike : Nat, ram : Nat, vcpu : Nat]

QueuePolicy(q) ==
  /\ q.max_nodes \in Nat \ {0} /\ q.gap \in Nat
  /\ q.rules \subseteq DrainRule /\ IsFiniteSet(q.rules)
  /\ \A r, s \in q.rules : r # s /\ r.idle_vcpu <= s.idle_vcpu => s.duration < r.duration

TimeWindowPolicy(w) ==
  /\ w.start \in Nat /\ w.end \in Nat /\ w.start < w.end
  /\ w.queues # <<>> /\ \A t \in DOMAIN w.queues : QueuePolicy(w.queues[t])

(* A day: windows without a gap from 0 to Day, of tiers that are declared. *)
ValidDay(p) ==
  /\ p \in Seq(Range(p))
  /\ \A i \in 1..Len(p) : TimeWindowPolicy(p[i]) /\ DOMAIN p[i].queues \subseteq Tiers
  /\ p # <<>> => p[1].start = 0 /\ p[Len(p)].end = Day
  /\ \A i \in 1..(Len(p) - 1) : p[i].end = p[i+1].start

(* An override names its tiers for all bins at once or bin by bin; here it *)
(* has those of the job's bin.  They may be tiers that are not declared.   *)
Override == [start : Nat, end : Nat, by_bin : BOOLEAN, tiers : Seq(Nat)]

(* A job is limited when its bin declares both hard limits.                *)
Workload(w) ==
  /\ w.declared \in [Jobs -> Seq(Nat)] /\ w.default \in [Jobs -> Seq(Nat)]
  /\ w.overrides \in [Jobs -> Seq(Override)]
  /\ w.limited \in [Jobs -> BOOLEAN]

ASSUME TierAssumption ==
  /\ Soft \in [Jobs -> Nat] /\ Vcpu \in [Jobs -> Nat] /\ Burst \in [Jobs -> Int]
  /\ TierDefs \in Seq(TierProfile)
  /\ \A w \in Workloads : Workload(w)
  /\ \A p \in Policies : ValidDay(p)
  /\ Day \in Nat \ {0} /\ Overhead \in Nat /\ MaxNow \in Nat /\ MaxNodes \in Nat

VARIABLES
  plus,        \* whether the scheduler is K8SPlusScheduler
  load,        \* the workload
  windows,     \* cfg.time_window_policy, by start: [start, end, queues]
  now,         \* env.now
  idx,         \* _active_window_idx (K8S)
  swap_at,     \* when _policy_timer wakes (K8S), or Never
  tiers,       \* _job_compatible_tiers, <<>> for no entry
  phase,       \* "absent", "queued", "running", "done" or "rejected"
  host,        \* host[j]: the node job j runs on, or 0
  state,       \* state[n]: node.state, but for DRAINING
  draining,    \* _draining (K8S+), the nodes in state DRAINING (K8S)
  tier,        \* _node_tier_name, 0 for no entry
  last_spawn,  \* _last_spawn_t, or Never
  clock,       \* clock[n]: what times the draining of n
  idle_from    \* history: since when n had that many vCPUs idle, or Never

configVars == <<plus, load, windows>>
windowVars == <<idx, swap_at>>
jobVars == <<tiers, phase, host>>
nodeVars == <<state, draining, tier, last_spawn>>
vars == <<configVars, now, windowVars, jobVars, nodeVars, clock, idle_from>>

-----------------------------------------------------------------------------
(* validate_tier_physical_limits and validate_config_pair: the tiers that  *)
(* leave no room to schedule in, and the jobs that name an unknown tier.   *)
NoZone == {t \in Tiers : TierDefs[t].spike >= TierDefs[t].ram - Overhead}

Named(j, w) ==
  Range(w.declared[j]) \cup Range(w.default[j])
    \cup UNION {Range(o.tiers) : o \in Range(w.overrides[j])}

PreflightPasses(w) == NoZone = {} /\ \A j \in Jobs : Named(j, w) \subseteq Tiers

(* The warning of validate_config_pair: no tier the job's bin lists can    *)
(* host its burst, which is known when both limits are declared.  The      *)
(* overrides are not looked at.                                            *)
PreflightWarns(j, w) ==
  /\ w.limited[j] /\ w.declared[j] # <<>>
  /\ \A t \in Range(w.declared[j]) : TierDefs[t].spike < Burst[j]

-----------------------------------------------------------------------------
(* _find_window_idx: the window of a time of day, the last if none covers  *)
(* it.                                                                     *)
WindowAt(time) ==
  LET tod == time % Day
      covers == {i \in 1..Len(windows) : windows[i].start <= tod /\ tod < windows[i].end}
  IN  IF covers = {} THEN Len(windows) ELSE Min(covers)

(* A day without windows has every tier active, with the defaults of       *)
(* QueuePolicy.                                                            *)
Default == [max_nodes |-> MaxNodes + 1, gap |-> 1, rules |-> {}]

(* The active policies, by tier: K8S goes by the index its timer keeps,    *)
(* K8S+ by the time of day.                                                *)
Queues ==
  IF windows = <<>> THEN [t \in Tiers |-> Default]
  ELSE windows[IF plus THEN WindowAt(now) ELSE idx].queues

(* The drain rules of n's tier; none when the tier is dormant.             *)
Rules(queues, n) ==
  IF tier[n] \in DOMAIN queues THEN queues[tier[n]].rules ELSE {}

-----------------------------------------------------------------------------
(* The tiers that can host j's burst.                                      *)
Hosting(j) == {t \in Tiers : TierDefs[t].spike >= Burst[j]}

(* _resolve_compatible_tiers: the override of the hour, what the job       *)
(* carries, what its centroid says, or every tier that can host its burst. *)
(* An override without tiers counts when it is given bin by bin.           *)
Resolved(j) ==
  LET Covers(o) == /\ o.start <= now % Day /\ now % Day < o.end
                   /\ o.by_bin \/ o.tiers # <<>>
      overrides == Keep(load.overrides[j], {o \in Range(load.overrides[j]) : Covers(o)})
  IN  CASE overrides # <<>> -> Head(overrides).tiers
        [] overrides = <<>> /\ load.declared[j] # <<>> -> load.declared[j]
        [] overrides = <<>> /\ load.declared[j] = <<>> /\ load.default[j] # <<>> -> load.default[j]
        [] OTHER -> Keep([t \in Tiers |-> t], Hosting(j))

(* _viable_tiers *)
Viable(j, names) == Keep(names, Hosting(j))

(* compute_k8s_capacity *)
Effective(t) ==
  LET left == TierDefs[t].ram - Overhead - TierDefs[t].spike IN IF left > 0 THEN left ELSE 0

On(h, n) == {j \in Jobs : h[j] = n}
LoadOf(h, n, Amount) == Asked(On(h, n), Amount, NumJobs)
IdleVcpu(h, n) == TierDefs[tier[n]].vcpu - LoadOf(h, n, Vcpu)

(* _k8s_fits *)
FitsOn(h, n, j) ==
  /\ Effective(tier[n]) > 0
  /\ LoadOf(h, n, Soft) + Soft[j] <= Effective(tier[n])
  /\ Vcpu[j] <= IdleVcpu(h, n)

(* Mutant: the tier of the node is not asked for.                          *)
OpenToAll(st, dr, names) == {n \in Nodes : st[n] = "READY" /\ n \notin dr}

(* The nodes that take jobs of these tiers: _node_compatible.              *)
OpenTo(st, dr, names) == {n \in Nodes : st[n] = "READY" /\ n \notin dr /\ tier[n] \in Range(names)}

(* _best_fit_node: the fullest candidate, the first launched among equals. *)
BestFit(candidates, h, j) ==
  LET fit == {n \in candidates : FitsOn(h, n, j)}
      Better(n, m) == \/ LoadOf(h, n, Soft) > LoadOf(h, m, Soft)
                      \/ LoadOf(h, n, Soft) = LoadOf(h, m, Soft) /\ n <= m
  IN  IF fit = {} THEN 0 ELSE CHOOSE n \in fit : \A m \in fit : Better(n, m)

Queued(ph) == {j \in Jobs : ph[j] = "queued"}

-----------------------------------------------------------------------------
Thresholds == {r.idle_vcpu : r \in UNION {UNION {q[t].rules : t \in DOMAIN q} :
                 q \in {w.queues : w \in UNION {Range(p) : p \in Policies}}}}

NoClock == [wake |-> Never, accrued |-> [th \in Thresholds |-> 0],
            since |-> [th \in Thresholds |-> Never]]

(* _drain_monitor, woken: it waits from now for the rule with the highest  *)
(* threshold that applies (_best_drain_rule).                              *)
MonitorClock(c, rules, idle) ==
  LET applicable == {r \in rules : idle >= r.idle_vcpu}
      best == CHOOSE r \in applicable : \A s \in applicable : s.idle_vcpu <= r.idle_vcpu
  IN  [c EXCEPT !.wake = IF applicable = {} THEN Never ELSE now + best.duration]

(* Mutant: a threshold that is not met keeps what has accrued.             *)
AccruedKept(c, missed) ==
  [th \in Thresholds |->
     IF c.since[th] # Never THEN c.accrued[th] + now - c.since[th] ELSE c.accrued[th]]

(* _drain_accrued: the time each threshold has been met adds up, and       *)
(* starts from nothing once it is missed.                                  *)
Accrued(c, missed) ==
  [th \in Thresholds |->
     IF th \in missed THEN 0
     ELSE IF c.since[th] # Never THEN c.accrued[th] + now - c.since[th] ELSE c.accrued[th]]

(* _update_drain_state: the timer waits for what is least left.  A tier    *)
(* without rules keeps its clock, timer and all.                           *)
PlusClock(c, rules, idle) ==
  LET met == {r \in rules : idle >= r.idle_vcpu}
      accrued == Accrued(c, {r.idle_vcpu : r \in rules \ met})
      left == {r.duration - accrued[r.idle_vcpu] : r \in met}
  IN  IF rules = {} THEN c
      ELSE [wake |-> IF met = {} THEN Never ELSE now + Max({0, Min(left)}),
            accrued |-> accrued,
            since |-> [th \in Thresholds |->
                         IF th \in {r.idle_vcpu : r \in met} THEN now ELSE Never]]

(* Mutant: the tiers are only ever added.                                  *)
TierKept(gone) == tier

(* _node_tier_name, when the nodes of gone are terminated.                 *)
TierWithout(gone) == [n \in Nodes |-> IF n \in gone THEN 0 ELSE tier[n]]

Up(st, n) == st[n] \in {"READY", "IDLE"}

(* The nodes of updated, which now host h, have their drain recomputed.    *)
DrainClocks(updated, h, st, dr, queues) ==
  LET Recomputed(n) ==
        IF plus THEN PlusClock(clock[n], Rules(queues, n), IdleVcpu(h, n))
        ELSE MonitorClock(clock[n], Rules(queues, n), IdleVcpu(h, n))
  IN  clock' = [n \in Nodes |->
                  IF windows = <<>> \/ ~Up(st, n) THEN NoClock
                  ELSE IF n \in updated /\ (plus \/ n \notin dr) THEN Recomputed(n)
                  ELSE clock[n]]

History(h, st) ==
  idle_from' = [n \in Nodes |-> [th \in Thresholds |->
                  IF Up(st, n) /\ windows # <<>> THEN
                    IF IdleVcpu(h, n) < th THEN Never
                    ELSE IF idle_from[n][th] = Never THEN now ELSE idle_from[n][th]
                  ELSE Never]]

(* _try_schedule, when the jobs stand at ph with tiers tr and run on h,    *)
(* and the nodes of touched have changed already.                          *)
TrySchedule(ph, tr, h, st, dr, touched, queues) ==
  LET Pick(g, j) == BestFit(OpenTo(st, dr, tr[j]), g, j)
  IN  \E placed \in [Queued(ph) -> {n \in Nodes : st[n] = "READY"} \cup {0}] :
        /\ GreedyPass(Queued(ph), h, placed, Pick)
        /\ host' = [j \in Jobs |-> IF j \in Queued(ph) THEN placed[j] ELSE h[j]]
        /\ phase' = [j \in Jobs |-> IF j \in Queued(ph) /\ placed[j] # 0
                                    THEN "running" ELSE ph[j]]
        /\ DrainClocks(touched \cup Range(placed), host', st, dr, queues)
        /\ History(host', st)
        /\ tiers' = tr /\ state' = st /\ draining' = dr

(* How long _policy_timer waits in window i.                               *)
UntilEnd(i) ==
  LET tod == now % Day
  IN  IF windows[i].end > tod THEN windows[i].end - tod ELSE Day - tod + windows[i].end

(* _setup, which the first arrival calls.                                  *)
Setup ==
  IF ~plus /\ windows # <<>> /\ \A j \in Jobs : phase[j] = "absent"
  THEN idx' = WindowAt(now) /\ swap_at' = now + UntilEnd(WindowAt(now))
  ELSE UNCHANGED windowVars

(* on_job_arrival: the job is queued for the tiers it names that can host  *)
(* its burst, or rejected.                                                 *)
Arrive(j) ==
  LET viable == Viable(j, Resolved(j))
  IN  /\ phase[j] = "absent"
      /\ \A k \in 1..(j-1) : phase[k] # "absent"
      /\ Setup
      /\ IF viable = <<>>
         THEN /\ phase' = [phase EXCEPT ![j] = "rejected"]
              /\ UNCHANGED <<tiers, host, state, draining, clock, idle_from>>
         ELSE TrySchedule([phase EXCEPT ![j] = "queued"], [tiers EXCEPT ![j] = viable],
                          host, state, draining, {}, Queues)
      /\ UNCHANGED <<configVars, now, tier, last_spawn>>

(* The job ends: on_job_complete.                                          *)
Complete(j) ==
  LET n == host[j]
      h == [host EXCEPT ![j] = 0]
      last == On(h, n) = {}
      st == IF ~last THEN state
            ELSE [state EXCEPT ![n] = IF n \in draining THEN "TERMINATED" ELSE "IDLE"]
      gone == IF last /\ n \in draining THEN {n} ELSE {}
  IN  /\ phase[j] = "running"
      /\ TrySchedule([phase EXCEPT ![j] = "done"], [tiers EXCEPT ![j] = <<>>], h, st,
                     draining \ gone, {n}, Queues)
      /\ tier' = TierWithout(gone)
      /\ UNCHANGED <<configVars, now, windowVars, last_spawn>>

-----------------------------------------------------------------------------
(* The nodes whose free room counts when the queue is provisioned for.     *)
Virtual == {n \in Nodes : state[n] \in {"READY", "LAUNCHING"} /\ n \notin draining}

(* The jobs that wait for an active tier; the others accumulate.           *)
Pending == {j \in Queued(phase) : Range(tiers[j]) \cap DOMAIN Queues # {}}

(* The pending jobs that no node has room for: first fit, by the job's     *)
(* tiers and then by age of the node.                                      *)
Overflow ==
  LET Rank(n, j) == CHOOSE i \in DOMAIN tiers[j] : tiers[j][i] = tier[n]
      Before(n, m, j) == Rank(n, j) < Rank(m, j) \/ (Rank(n, j) = Rank(m, j) /\ n <= m)
      Pick(g, j) ==
        LET fit == {n \in Virtual : /\ tier[n] \in Range(tiers[j]) \cap DOMAIN Queues
                                    /\ FitsOn(g, n, j)}
        IN  IF fit = {} THEN 0 ELSE CHOOSE n \in fit : \A m \in fit : Before(n, m, j)
      filled == CHOOSE placed \in [Pending -> Virtual \cup {0}] :
                  GreedyPass(Pending, host, placed, Pick)
  IN  {j \in Pending : filled[j] = 0}

(* current_nodes: those that are not terminated.                           *)
CountOf(t) == Cardinality({n \in Nodes : tier[n] = t /\ state[n] # "TERMINATED"})

(* spawn_eligible: the tier has not launched for 60 / spawn_rate_per_min.  *)
SpawnEligible(t) ==
  last_spawn[t] = Never \/ now - last_spawn[t] >= Queues[t].gap

(* The jobs of this list that one new node of tier t takes.                *)
Packs(t, jobs) ==
  OneNode({j \in jobs : t \in Range(tiers[j])}, Effective(t), TierDefs[t].vcpu,
          Soft, Vcpu, NumJobs)

(* best_tier, when nodes of these types have been launched in this pass:   *)
(* the tier that packs most of the jobs, of these the one that most could  *)
(* go to, of these the one that reserves least; 0: none may launch.        *)
BestTier(jobs, types) ==
  LET launched(t) == Cardinality({i \in DOMAIN types : types[i] = t})
      open == {t \in DOMAIN Queues : /\ SpawnEligible(t) \/ launched(t) > 0
                                     /\ CountOf(t) + launched(t) < Queues[t].max_nodes
                                     /\ Packs(t, jobs) # {}}
      packed(t) == Cardinality(Packs(t, jobs))
      eligible(t) == Cardinality({j \in jobs : t \in Range(tiers[j])})
      Better(t, u) ==
        \/ packed(t) > packed(u)
        \/ packed(t) = packed(u) /\ eligible(t) > eligible(u)
        \/ /\ packed(t) = packed(u) /\ eligible(t) = eligible(u)
           /\ \/ TierDefs[t].spike < TierDefs[u].spike
              \/ TierDefs[t].spike = TierDefs[u].spike /\ t <= u
  IN  IF open = {} THEN 0 ELSE CHOOSE t \in open : \A u \in open : Better(t, u)

(* One round of the pass: a node of the best tier, and the jobs it leaves. *)
LaunchOne(p) ==
  LET best == BestTier(p.left, p.types)
  IN  IF best = 0 THEN p
      ELSE [left |-> p.left \ Packs(best, p.left), types |-> Append(p.types, best)]

(* The tiers of the nodes to launch: a round that launches serves a job.   *)
Launches ==
  LET pass[k \in 0..NumJobs] ==
        IF k = 0 THEN [left |-> Overflow, types |-> <<>>] ELSE LaunchOne(pass[k-1])
  IN  pass[NumJobs].types

Launched == {n \in Nodes : state[n] # "none"}

(* _provision_to_demand_joint, when _scale_out_monitor finds that a job    *)
(* has waited long enough.                                                 *)
Provision ==
  LET types == Launches
      from == Cardinality(Launched)
      new == (from+1)..(from+Len(types))
  IN  /\ types # <<>>
      /\ from + Len(types) <= MaxNodes
      /\ state' = [n \in Nodes |-> IF n \in new THEN "LAUNCHING" ELSE state[n]]
      /\ tier' = [n \in Nodes |-> IF n \in new THEN types[n - from] ELSE tier[n]]
      /\ last_spawn' = [t \in Tiers |-> IF t \in Range(types) THEN now ELSE last_spawn[t]]
      /\ UNCHANGED <<configVars, now, windowVars, jobVars, draining, clock, idle_from>>

(* The rest of _launch_node, after the warm-up.                            *)
NodeReady(n) ==
  /\ state[n] = "LAUNCHING"
  /\ \A m \in 1..(n-1) : state[m] # "LAUNCHING"
  /\ TrySchedule(phase, tiers, host, [state EXCEPT ![n] = "READY"], draining, {n}, Queues)
  /\ UNCHANGED <<configVars, now, windowVars, tier, last_spawn>>

-----------------------------------------------------------------------------
(* What times the draining of n runs out: an empty node is terminated by   *)
(* K8S+ (_drain_timer_proc), and drains like any other in K8S              *)
(* (_drain_monitor).                                                       *)
DrainFires(n) ==
  LET gone == IF plus /\ On(host, n) = {} THEN {n} ELSE {}
      wakes == [clock EXCEPT ![n] = IF n \in gone THEN NoClock ELSE [@ EXCEPT !.wake = Never]]
  IN  /\ clock[n].wake = now
      /\ state' = [m \in Nodes |-> IF m \in gone THEN "TERMINATED" ELSE state[m]]
      /\ tier' = TierWithout(gone)
      /\ draining' = IF gone = {} THEN draining \cup {n} ELSE draining \ gone
      /\ clock' = wakes
      /\ History(host, state')
      /\ UNCHANGED <<configVars, now, windowVars, jobVars, last_spawn>>

(* _idle_timer (K8S), and _idle_timer_fallback (K8S+, when there are no    *)
(* windows), which run from the time the node is IDLE.                     *)
IdleFires(n) ==
  /\ ~plus \/ windows = <<>>
  /\ state[n] = "IDLE" /\ On(host, n) = {} /\ n \notin draining
  /\ state' = [state EXCEPT ![n] = "TERMINATED"]
  /\ tier' = TierWithout({n})
  /\ clock' = [clock EXCEPT ![n] = NoClock]
  /\ History(host, state')
  /\ UNCHANGED <<configVars, now, windowVars, jobVars, draining, last_spawn>>

(* Mutant: the last window of the day stays active.                        *)
NextWindow(i) == IF i < Len(windows) THEN i + 1 ELSE i

(* The window after window i.                                              *)
WindowAfter(i) == (i % Len(windows)) + 1

(* _policy_timer at a boundary: the next window is active, and what times  *)
(* the draining starts over on every node.                                 *)
PolicySwap ==
  LET new == WindowAfter(idx)
  IN  /\ swap_at = now
      /\ idx' = new
      /\ swap_at' = now + UntilEnd(new)
      /\ TrySchedule(phase, tiers, host, state, draining, Nodes, windows[new].queues)
      /\ UNCHANGED <<configVars, now, tier, last_spawn>>

(* A tick passes when no timer is due.                                     *)
Tick ==
  /\ now < MaxNow
  /\ swap_at # now
  /\ \A n \in Nodes : clock[n].wake # now
  /\ now' = now + 1
  /\ UNCHANGED <<configVars, windowVars, jobVars, nodeVars, clock, idle_from>>

Init ==
  /\ plus \in BOOLEAN /\ windows \in Policies
  /\ load \in {w \in Workloads : PreflightPasses(w)}
  /\ now = 0 /\ idx = 1 /\ swap_at = Never
  /\ tiers = [j \in Jobs |-> <<>>]
  /\ phase = [j \in Jobs |-> "absent"] /\ host = [j \in Jobs |-> 0]
  /\ state = [n \in Nodes |-> "none"] /\ draining = {} /\ tier = [n \in Nodes |-> 0]
  /\ last_spawn = [t \in Tiers |-> Never]
  /\ clock = [n \in Nodes |-> NoClock]
  /\ idle_from = [n \in Nodes |-> [th \in Thresholds |-> Never]]

Next ==
  \/ \E j \in Jobs : Arrive(j) \/ Complete(j)
  \/ Provision
  \/ \E n \in Nodes : NodeReady(n) \/ DrainFires(n) \/ IdleFires(n)
  \/ PolicySwap
  \/ Tick

Spec == Init /\ [][Next]_vars

-----------------------------------------------------------------------------
(* The types of the variables; a node has a tier from its launch to its    *)
(* end, whichever timer or completion ends it, and no timer is left in the *)
(* past.                                                                   *)
TypeOK ==
  /\ now \in 0..MaxNow /\ idx \in 1..Max({1, Len(windows)})
  /\ tiers \in [Jobs -> Seq(Tiers)]
  /\ phase \in [Jobs -> {"absent", "queued", "running", "done", "rejected"}]
  /\ host \in [Jobs -> Nodes \cup {0}]
  /\ state \in [Nodes -> {"none", "LAUNCHING", "READY", "IDLE", "TERMINATED"}]
  /\ tier \in [Nodes -> Tiers \cup {0}] /\ draining \subseteq Nodes
  /\ last_spawn \in [Tiers -> {Never} \cup 0..MaxNow]
  /\ \A n \in Nodes : tier[n] = 0 <=> state[n] \in {"none", "TERMINATED"}
  /\ \A n \in Nodes : clock[n].wake = Never \/ clock[n].wake >= now
  /\ swap_at = Never \/ swap_at >= now

(* A running job is on a node of a tier that was viable for it when it     *)
(* arrived, and whatever the windows, the nodes and the queue went through *)
(* since, the requests on its node leave room for its burst (BSIM-106,     *)
(* BSIM-108).  A job is only rejected when the preflight warned of it, or   *)
(* could not have: an override of its tiers exists, it names no tier       *)
(* itself, or its bin does not declare both limits.                        *)
BurstsHaveRoom ==
  /\ \A j \in Jobs : phase[j] = "running" =>
       /\ tier[host[j]] \in Range(tiers[j])
       /\ LoadOf(host, host[j], Soft) + Burst[j] <= TierDefs[tier[host[j]]].ram - Overhead
  /\ \A j \in Jobs : phase[j] = "rejected" =>
       \/ PreflightWarns(j, load)
       \/ load.overrides[j] # <<>> \/ load.declared[j] = <<>> \/ ~load.limited[j]

(* The policies of the hour; a K8S scheduler whose timer is yet to wake at *)
(* a boundary goes by those of the hour before.                            *)
InForce ==
  IF windows = <<>> THEN {[t \in Tiers |-> Default]}
  ELSE {windows[WindowAt(now)].queues} \cup
       (IF ~plus /\ now > 0 THEN {windows[WindowAt(now - 1)].queues} ELSE {})

(* Nodes are launched for tiers that are active at that time of day only,  *)
(* and not beyond the tier's max_nodes, however its nodes stand.  Of the   *)
(* spawn rate this has what the code keeps to: it parts the passes that    *)
(* launch for a tier, "evaluated once per pass" (k8s_scheduler.py:533).    *)
(* It does not part the nodes of one pass, which launches as many of a     *)
(* tier as its backlog asks for, although core/schemas.py:578 calls the    *)
(* rate "Maximum node launches per minute for this queue".                 *)
LaunchesWithinPolicy ==
  [][\A t \in Tiers :
       (\E n \in Nodes : state[n] = "none" /\ state'[n] = "LAUNCHING" /\ tier'[n] = t) =>
         \E queues \in InForce :
           /\ t \in DOMAIN queues
           /\ Cardinality({n \in Nodes : tier'[n] = t}) <= queues[t].max_nodes
           /\ last_spawn[t] = Never \/ now >= last_spawn[t] + queues[t].gap]_vars

(* The tier has the same rules all day.                                    *)
Steady(t) ==
  \A v, w \in Range(windows) :
    t \in DOMAIN v.queues /\ t \in DOMAIN w.queues /\ v.queues[t].rules = w.queues[t].rules

(* "node enters DRAINING when idle_vcpu has continuously exceeded this     *)
(* threshold for duration_s seconds" (core/schemas.py:490): no node drains *)
(* or goes that had not as many vCPUs idle for as long as a rule of its    *)
(* tier asks, however its clock was stopped and started; of the tiers      *)
(* whose rules change with the window this is only true in K8S.            *)
DrainedNodesWereIdle ==
  [][\A n \in Nodes :
       (clock[n].wake = now /\ clock'[n].wake = Never
          /\ (n \in draining' \ draining \/ (Up(state, n) /\ state'[n] = "TERMINATED"))) =>
         \/ plus /\ ~Steady(tier[n])
         \/ \E r \in Rules(Queues, n) :
              /\ idle_from[n][r.idle_vcpu] # Never
              /\ now - idle_from[n][r.idle_vcpu] >= r.duration]_vars

-----------------------------------------------------------------------------
(* What a node of each tier has room for.                                  *)
Rooms == [t \in Tiers |-> {S \in SUBSET Jobs :
  /\ Effective(t) > 0 /\ Asked(S, Soft, NumJobs) <= Effective(t)
  /\ Asked(S, Vcpu, NumJobs) <= TierDefs[t].vcpu}]

NodeState == [n \in Nodes |-> IF n \in draining THEN "DRAINING" ELSE state[n]]

Contract == INSTANCE ClusterContract
  WITH Fits <- Rooms, status <- phase, node <- NodeState, kind <- tier,
       may <- [j \in Jobs |-> Range(tiers[j])]

(* Both schedulers keep the contract of ClusterContract, tiers and windows *)
(* included: each job runs once, on a node of a tier it may run on with    *)
(* room for it, and no job is passed over for one that has waited less and *)
(* may run there, too.                                                     *)
KeepsContract == Contract!Spec
=============================================================================
