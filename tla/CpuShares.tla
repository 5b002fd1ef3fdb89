----------------------------- MODULE CpuShares -----------------------------
(***************************************************************************)
(* How one node shares its CPU between its jobs                            *)
(* (batch_sim/scheduler/cpu_boost_solver.py, cpu_boost_integration.py) and *)
(* how a job in its stages follows its share (the stage loops of           *)
(* core/engine.py and k8s_plus_scheduler.py).                              *)
(*                                                                         *)
(* The solver runs when a job starts and at each of its phase changes, not *)
(* when a job leaves.  It writes every slot's share and fires the event    *)
(* the slot's stage loop sleeps on; the loop goes on later, in an event of *)
(* its own.  Time is left out: a stage may end at any step.                *)
(*                                                                         *)
(* Shares are counted in parts of a vCPU, Unit parts each, and efficiency, *)
(* 1 - io_wait, in parts of Full.                                          *)
(***************************************************************************)
EXTENDS NodeJobs, Sequences, SequencesExt

CONSTANTS
  Physical,     \* node.physical_vcpu
  Unit, Full,   \* the scales
  Soft, Hard,   \* soft_cpu, hard_cpu
  Declared,     \* workhorse_declared_vcpu
  Efficiency,   \* 1 - the mean io_wait of the parallel stages
  StageCaps     \* effective_threads of each stage, in parts of a vCPU

ASSUME CpuAssumption ==
  /\ Physical \in Nat /\ Unit \in Nat \ {0} /\ Full \in Nat \ {0}
  /\ {Soft, Hard, Declared} \subseteq [Jobs -> Nat \ {0}]
  /\ \A j \in Jobs : Soft[j] <= Hard[j] /\ Full % Soft[j] = 0
  /\ Efficiency \in [Jobs -> 0..Full]
  /\ StageCaps \in [Jobs -> Seq(Nat)] /\ \A j \in Jobs : StageCaps[j] # <<>>

VARIABLES
  solver,   \* "k8s": run_cpu_boost_k8s, "batch": run_cpu_boost_batch
  phase,    \* phase[j]: "waiting", "download", "preprocess", "workhorse", ...
  stage,    \* stage[j]: the stage of j's loop, or 0
  slots,    \* the jobs of node._slots, in the order of the dict
  share,    \* share[j]: slot.effective_vcpu
  rate,     \* rate[j]: current_vcpu, at which the sleep of j was reckoned
  woken     \* the jobs whose cpu_change_event has fired while they sleep

cpuVars == <<solver, phase, stage, slots, share, rate, woken>>

CpuInit ==
  /\ solver \in {"k8s", "batch"}
  /\ phase = [j \in Jobs |-> "waiting"] /\ stage = [j \in Jobs |-> 0] /\ slots = <<>>
  /\ share = [j \in Jobs |-> 0] /\ rate = [j \in Jobs |-> 0] /\ woken = {}

-----------------------------------------------------------------------------
Least(a, b) == IF a <= b THEN a ELSE b
Pos(a) == IF a > 0 THEN a ELSE 0

SumOver(S, f) == Total([j \in Jobs |-> IF j \in S THEN f[j] ELSE 0], NumJobs)

(* 1 - _get_stage_io_wait: one of soft_cpu threads outside the workhorse.  *)
Eff(ph, j) == IF ph[j] = "workhorse" THEN Efficiency[j] ELSE Full \div Soft[j]

(* _get_stage_threads *)
StageThreads(ph, j) == Unit * (IF ph[j] = "workhorse" THEN Declared[j] ELSE 1)

(* What alloc gives job j to work with: boost_alloc * (1 - io_wait).       *)
Effective(alloc, ph, j) == (alloc[j] * Eff(ph, j)) \div Full

(* The most solve_cpu_boost may grant j beyond its soft_cpu.               *)
Headroom(ph, j) ==
  Least(Unit * (Hard[j] - Soft[j]),
        Least(Pos(StageThreads(ph, j) - Unit * Soft[j]), Unit * Pos(Physical - Soft[j])))

(* What solve_cpu_boost has to grant: what is not reserved, and what the   *)
(* jobs return while they wait for I/O.                                    *)
Surplus(ph, sl) ==
  LET on == Range(sl)
      reserved == Unit * SumOver(on, Soft)
      returned == SumOver(on, [j \in Jobs |-> (Unit * Soft[j] * (Full - Eff(ph, j))) \div Full])
  IN  Pos(Unit * Physical - reserved) + returned

(* Mutant: jobs that wait for I/O most are served first.                   *)
ServedBeforeByWait(ph, sl, i, k) ==
  \/ Eff(ph, sl[i]) < Eff(ph, sl[k])
  \/ Eff(ph, sl[i]) = Eff(ph, sl[k]) /\ i < k

(* The order of the auction: sorted by io_wait, which is stable.           *)
ServedBefore(ph, sl, i, k) ==
  \/ Eff(ph, sl[i]) > Eff(ph, sl[k])
  \/ Eff(ph, sl[i]) = Eff(ph, sl[k]) /\ i < k

(* Mutant: what is left to grant is not reduced by all that is granted.    *)
GreedyDoubleSurplus(ph, sl) ==
  [j \in Jobs |->
     IF j \notin Range(sl) THEN 0
     ELSE LET i == CHOOSE i \in DOMAIN sl : sl[i] = j
              earlier == {sl[k] : k \in {k \in DOMAIN sl : ServedBefore(ph, sl, k, i)}}
              taken == SumOver(earlier, [k \in Jobs |-> Headroom(ph, k)])
          IN  Unit * Soft[j] + Least(Headroom(ph, j), Pos(2 * Surplus(ph, sl) - taken))]

(* solve_cpu_boost: each job gets its soft_cpu and, in the order of the    *)
(* auction, what it can use of the surplus the jobs before it left.        *)
Greedy(ph, sl) ==
  [j \in Jobs |->
     IF j \notin Range(sl) THEN 0
     ELSE LET i == CHOOSE i \in DOMAIN sl : sl[i] = j
              earlier == {sl[k] : k \in {k \in DOMAIN sl : ServedBefore(ph, sl, k, i)}}
              taken == SumOver(earlier, [k \in Jobs |-> Headroom(ph, k)])
          IN  Unit * Soft[j] + Least(Headroom(ph, j), Pos(Surplus(ph, sl) - taken))]

(* Mutant: a round's increment replaces what the job had.                  *)
RoundOverwrites(r, ph) ==
  LET shares == SumOver(r.unsaturated, Soft)
      want == [j \in Jobs |-> (r.remaining * Soft[j]) \div shares]
      full == {j \in r.unsaturated : want[j] >= StageThreads(ph, j)}
      after == [j \in Jobs |-> IF j \in full THEN StageThreads(ph, j)
                               ELSE IF j \in r.unsaturated THEN want[j] ELSE r.alloc[j]]
  IN  IF r.unsaturated = {} \/ r.remaining = 0 THEN r
      ELSE [alloc |-> after,
            remaining |-> r.remaining - (SumOver(Jobs, after) - SumOver(Jobs, r.alloc)),
            unsaturated |-> IF full = {} THEN {} ELSE r.unsaturated \ full]

(* One round of _distribute_proportional_cfs: what remains is divided by   *)
(* soft_cpu among the jobs below their ceiling; the rounds end with one in *)
(* which no job reaches it.                                                *)
Round(r, ph) ==
  LET shares == SumOver(r.unsaturated, Soft)
      want == [j \in Jobs |-> r.alloc[j] + (r.remaining * Soft[j]) \div shares]
      full == {j \in r.unsaturated : want[j] >= StageThreads(ph, j)}
      after == [j \in Jobs |-> IF j \in full THEN StageThreads(ph, j)
                               ELSE IF j \in r.unsaturated THEN want[j] ELSE r.alloc[j]]
  IN  IF r.unsaturated = {} \/ r.remaining = 0 THEN r
      ELSE [alloc |-> after,
            remaining |-> r.remaining - (SumOver(Jobs, after) - SumOver(Jobs, r.alloc)),
            unsaturated |-> IF full = {} THEN {} ELSE r.unsaturated \ full]

(* _distribute_proportional_cfs: each round but the last fills a job.      *)
Proportional(ph, sl) ==
  LET rounds[k \in 0..(NumJobs + 1)] ==
        IF k = 0 THEN [alloc |-> [j \in Jobs |-> 0], remaining |-> Unit * Physical,
                       unsaturated |-> Range(sl)]
        ELSE Round(rounds[k-1], ph)
  IN  rounds[NumJobs + 1].alloc

Alloc(ph, sl) == IF solver = "k8s" THEN Greedy(ph, sl) ELSE Proportional(ph, sl)

(* The jobs of sl that sleep in a stage, in the state before the step.     *)
Sleeping(sl) == {j \in Range(sl) : phase[j] = "workhorse"}

(* Mutant: the loops that sleep are not woken.                             *)
BoostWakesNobody(ph, sl, mover) ==
  LET alloc == Alloc(ph, sl)
  IN  /\ share' = [j \in Jobs |-> IF j \in Range(sl) THEN Effective(alloc, ph, j) ELSE 0]
      /\ woken' = woken \ {mover}

(* Mutant: the solver runs before update_phase.                            *)
BoostBeforeUpdate(ph, sl, mover) ==
  LET alloc == Alloc(phase, sl)
  IN  /\ share' = [j \in Jobs |-> IF j \in Range(sl) THEN Effective(alloc, phase, j) ELSE 0]
      /\ woken' = (woken \cup Sleeping(sl)) \ {mover}

(* run_cpu_boost_k8s and run_cpu_boost_batch, when job mover changes its   *)
(* phase: the share of every slot is written and every other loop that     *)
(* sleeps is woken.                                                        *)
Boost(ph, sl, mover) ==
  LET alloc == Alloc(ph, sl)
  IN  /\ share' = [j \in Jobs |-> IF j \in Range(sl) THEN Effective(alloc, ph, j) ELSE 0]
      /\ woken' = (woken \cup Sleeping(sl)) \ {mover}

(* The rate at which j works in stage k, with a share s.                   *)
RateOf(j, k, s) == Least(s, StageCaps[j][k])

-----------------------------------------------------------------------------
(* The job process starts: add_job, then the solver.                       *)
JobEnters(j) ==
  /\ phase[j] = "waiting"
  /\ phase' = [phase EXCEPT ![j] = "download"]
  /\ slots' = Append(slots, j)
  /\ Boost(phase', slots', j)
  /\ UNCHANGED <<solver, stage, rate>>

(* The download ends.                                                      *)
StartPreprocess(j) ==
  /\ phase[j] = "download"
  /\ phase' = [phase EXCEPT ![j] = "preprocess"]
  /\ Boost(phase', slots, j)
  /\ UNCHANGED <<solver, stage, slots, rate>>

(* Preprocessing, or a stage, ends and stage k begins: the solver, then    *)
(* the loop sleeps for as long as the stage takes at the rate it reads.    *)
StartStage(j) ==
  LET k == stage[j] + 1
  IN  /\ phase[j] \in {"preprocess", "workhorse"} /\ k <= Len(StageCaps[j])
      /\ phase' = [phase EXCEPT ![j] = "workhorse"]
      /\ stage' = [stage EXCEPT ![j] = k]
      /\ Boost(phase', slots, j)
      /\ rate' = [rate EXCEPT ![j] = RateOf(j, k, share'[j])]
      /\ UNCHANGED <<solver, slots>>

(* A loop that was woken goes on: it takes off what it has done and sleeps *)
(* again, at the rate it reads now.                                        *)
Resume(j) ==
  /\ j \in woken
  /\ rate' = [rate EXCEPT ![j] = RateOf(j, stage[j], share[j])]
  /\ woken' = woken \ {j}
  /\ UNCHANGED <<solver, phase, stage, slots, share>>

(* The last stage ends.                                                    *)
StartUpload(j) ==
  /\ phase[j] = "workhorse" /\ stage[j] = Len(StageCaps[j])
  /\ phase' = [phase EXCEPT ![j] = "upload"]
  /\ stage' = [stage EXCEPT ![j] = 0]
  /\ Boost(phase', slots, j)
  /\ rate' = [rate EXCEPT ![j] = 0]
  /\ UNCHANGED <<solver, slots>>

(* Mutant: remove_job is forgotten.                                        *)
JobLeavesKeepsSlot(j) ==
  /\ phase[j] = "upload"
  /\ phase' = [phase EXCEPT ![j] = "done"]
  /\ UNCHANGED <<solver, stage, slots, share, rate, woken>>

(* The upload ends: remove_job; the other shares stay as they are.         *)
JobLeaves(j) ==
  /\ phase[j] = "upload"
  /\ phase' = [phase EXCEPT ![j] = "done"]
  /\ slots' = RemoveAt(slots, CHOOSE i \in DOMAIN slots : slots[i] = j)
  /\ share' = [share EXCEPT ![j] = 0]
  /\ UNCHANGED <<solver, stage, rate, woken>>

PhaseStep(j) == StartPreprocess(j) \/ StartStage(j) \/ StartUpload(j) \/ Resume(j)

-----------------------------------------------------------------------------
OnNode == Range(slots)
Phases == {"waiting", "download", "preprocess", "workhorse", "upload", "done"}

(* The types of the CPU variables; a job has a slot from its download to   *)
(* the end of its upload, and a stage while it is in its workhorse phase.  *)
CpuTypeOK ==
  /\ solver \in {"k8s", "batch"}
  /\ phase \in [Jobs -> Phases] /\ stage \in [Jobs -> Nat] /\ slots \in Seq(Jobs)
  /\ share \in [Jobs -> Nat] /\ rate \in [Jobs -> Nat] /\ woken \subseteq Jobs
  /\ OnNode = {j \in Jobs : phase[j] \notin {"waiting", "done"}}
  /\ Len(slots) = Cardinality(OnNode)
  /\ \A j \in Jobs : IF phase[j] = "workhorse" THEN stage[j] \in 1..Len(StageCaps[j])
                                               ELSE stage[j] = 0

(* The jobs of a node never work on more vCPUs than it has, although the   *)
(* solver grants what it has not reserved and, a second time, what the     *)
(* jobs return of their reservations while they wait for I/O.              *)
SharesFitNode == SumOver(OnNode, share) <= Unit * Physical

(* "Between events, boost allocations are constant"                        *)
(* (cpu_boost_solver.py:62): a loop that sleeps and has not been woken     *)
(* works at the rate its present share gives it, whoever changed it.       *)
NoStaleRate ==
  \A j \in OnNode : phase[j] = "workhorse" /\ j \notin woken =>
    rate[j] = RateOf(j, stage[j], share[j])

(* The solver is not run when a job leaves (cpu_boost_solver.py:57-60 says *)
(* it is): until the next phase change the jobs that stay lack the cycles  *)
(* it had, and none has more than the solver would give it now.            *)
NoShareTooHigh ==
  \A j \in OnNode : share[j] <= Effective(Alloc(phase, slots), phase, j)

(* Batch (cpu_boost_integration.py:157-165): of two jobs on a node none    *)
(* has more cycles per share (soft_cpu) than another that is below its     *)
(* thread count; and a cycle is left over only when all have theirs.       *)
ProportionalFair ==
  solver = "batch" =>
    LET alloc == Proportional(phase, slots)
        threads == SumOver(OnNode, [j \in Jobs |-> StageThreads(phase, j)])
    IN  /\ \A i, j \in OnNode :
             alloc[j] < StageThreads(phase, j) => alloc[i] * Soft[j] <= alloc[j] * Soft[i]
        /\ SumOver(OnNode, alloc) = Least(Unit * Physical, threads)

(* K8S (cpu_boost_solver.py:8-18): no job is granted surplus while one     *)
(* with less io_wait could still use some; and surplus is left over only   *)
(* when every job is at its ceiling.                                       *)
AuctionInOrder ==
  solver = "k8s" =>
    LET alloc == Greedy(phase, slots)
        granted == [j \in Jobs |-> alloc[j] - Unit * Soft[j]]
        usable == SumOver(OnNode, [j \in Jobs |-> Headroom(phase, j)])
    IN  /\ \A i, j \in OnNode :
             granted[i] > 0 /\ Eff(phase, j) > Eff(phase, i) => granted[j] = Headroom(phase, j)
        /\ SumOver(OnNode, granted) = Least(Surplus(phase, slots), usable)
=============================================================================
