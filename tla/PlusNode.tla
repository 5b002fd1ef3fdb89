------------------------------ MODULE PlusNode ------------------------------
(***************************************************************************)
(* One node of the K8S+ scheduler (batch_sim/scheduler/                    *)
(* k8s_plus_scheduler.py) and the jobs of its tier: admission, placement   *)
(* by requested memory and vCPU, the download-slot throttle, and the job   *)
(* process run_job_process_plus, whose preprocess phase is gated by the    *)
(* node's burst pool (BurstPool).                                          *)
(*                                                                         *)
(* Jobs are numbered in the order they arrive, which is the order of the   *)
(* queue.  A phase ends when its timer fires; timers fire in any order.    *)
(***************************************************************************)
EXTENDS BurstPool

CONSTANTS
  NodeRam,       \* instance.ram_gb
  OsOverhead,    \* os_overhead_gb
  NodeVcpu,      \* instance.vcpu
  SlotChoices,   \* the values cfg.download_slots may have; 0: no throttle
  Soft,          \* soft_limit_ram_gb: what job j requests
  Peak,          \* preprocess_peak_ram_gb
  DownloadRam,   \* download_ram_gb
  WorkhorseRam,  \* workhorse_ram_gb
  UploadRam,     \* upload_ram_gb
  Vcpu           \* soft_cpu, or workhorse_declared_vcpu

(* Bursts are what preprocessing needs on top of the request.              *)
ASSUME NodeAssumption ==
  /\ NodeRam \in Nat /\ OsOverhead \in Nat /\ OsOverhead <= NodeRam
  /\ NodeVcpu \in Nat /\ SlotChoices \subseteq Nat
  /\ {Soft, Peak, DownloadRam, WorkhorseRam, UploadRam, Vcpu} \subseteq [Jobs -> Nat]
  /\ \A j \in Jobs : Burst[j] = IF Peak[j] > Soft[j] THEN Peak[j] - Soft[j] ELSE 0

VARIABLES
  state,           \* node.state
  phase,           \* phase[j]: where job j's process stands
  slot_ram,        \* phase_peak_ram_gb of j's slot in _slots, 0 without one
  allocated_ram,   \* node.allocated_ram_gb
  allocated_vcpu,  \* node.allocated_vcpu
  download_slots,  \* cfg.download_slots, the capacity of a simpy.Resource
  users,           \* the jobs that hold one of its slots
  dl_queue         \* the jobs that wait for one

nodeVars == <<state, phase, slot_ram, allocated_ram, allocated_vcpu,
              download_slots, users, dl_queue>>
vars == <<poolVars, nodeVars>>

(* "slot": at the yield of the download request; "burst": in acquire.      *)
Phases == {"absent", "rejected", "queued", "slot", "download", "burst",
           "preprocess", "workhorse", "upload", "done"}

InSlots == {"download", "burst", "preprocess", "workhorse", "upload"}
OnNode == InSlots \cup {"slot"}

PhysicalRam == NodeRam - OsOverhead

(* Mutant: requests may use the reservation.                               *)
EffectiveIsPhysical == PhysicalRam

(* compute_k8s_capacity: what is left for requests.                        *)
Effective == IF PhysicalRam > Reservation THEN PhysicalRam - Reservation ELSE 0

Init ==
  /\ PoolInit /\ fixed
  /\ state = "LAUNCHING"
  /\ phase = [j \in Jobs |-> "absent"]
  /\ slot_ram = [j \in Jobs |-> 0]
  /\ allocated_ram = 0 /\ allocated_vcpu = 0
  /\ download_slots \in SlotChoices /\ users = {} /\ dl_queue = <<>>

-----------------------------------------------------------------------------
(* What the members of P ask for, and what those before job j ask for.     *)
Of(P, Amount) == [k \in Jobs |-> IF k \in P THEN Amount[k] ELSE 0]
Before(P, j, Amount) == Partial(Of(P, Amount), NumJobs)[j-1]

(* Mutant: the job's own request is left out of the comparison.            *)
FitsBeforeItself(ram, vcpu, j) ==
  Effective > 0 /\ ram <= Effective /\ vcpu + Vcpu[j] <= NodeVcpu

(* _k8s_fits, for a node with this much allocated.                         *)
FitsNode(ram, vcpu, j) ==
  /\ Effective > 0
  /\ ram + Soft[j] <= Effective
  /\ vcpu + Vcpu[j] <= NodeVcpu

(* _try_schedule: its passes over the sorted queue place P.  A placement   *)
(* only takes room away, so a job once passed over stays so, and the       *)
(* passes amount to one.  Only a READY node takes jobs.                    *)
Places(queue, P, ram, vcpu, st) ==
  \A j \in queue : j \in P <=>
    /\ st = "READY"
    /\ FitsNode(ram + Before(P, j, Soft), vcpu + Before(P, j, Vcpu), j)

(* simpy.Resource: requests are granted first come first served.           *)
Granted(held, queue) ==
  LET free == download_slots - Cardinality(held)
  IN  SubSeq(queue, 1, IF free < Len(queue) THEN free ELSE Len(queue))

GrantSlots(held, queue) ==
  LET granted == Granted(held, queue)
  IN  /\ users' = held \cup ToSet(granted)
      /\ dl_queue' = SubSeq(queue, Len(granted) + 1, Len(queue))

(* The requests of the jobs of P, in the order they are placed.            *)
Joined(queue, P) ==
  LET joined[i \in 0..NumJobs] ==
        IF i = 0 THEN queue
        ELSE IF i \in P THEN Append(joined[i-1], i) ELSE joined[i-1]
  IN  joined[NumJobs]

(* _try_schedule with this state of the jobs, the node and its slots: the  *)
(* jobs it places are allocated, and their processes run to their first    *)
(* yield, at a download slot or else in the download phase.                *)
TrySchedule(ph, sram, ram, vcpu, st) ==
  \E P \in SUBSET {j \in Jobs : ph[j] = "queued"} :
    /\ Places({j \in Jobs : ph[j] = "queued"}, P, ram, vcpu, st)
    /\ allocated_ram' = ram + Total(Of(P, Soft), NumJobs)
    /\ allocated_vcpu' = vcpu + Total(Of(P, Vcpu), NumJobs)
    /\ at' = [j \in Jobs |-> IF j \in P THEN "placed" ELSE at[j]]
    /\ IF download_slots = 0
       THEN /\ phase' = [j \in Jobs |-> IF j \in P THEN "download" ELSE ph[j]]
            /\ slot_ram' = [j \in Jobs |-> IF j \in P THEN DownloadRam[j] ELSE sram[j]]
            /\ UNCHANGED <<users, dl_queue>>
       ELSE /\ phase' = [j \in Jobs |-> IF j \in P THEN "slot" ELSE ph[j]]
            /\ slot_ram' = sram
            /\ GrantSlots(users, Joined(dl_queue, P))

(* What scheduling leaves alone.                                           *)
rest == <<fixed, headroom, in_use, waiters, download_slots>>

(* The node's warm-up ends (_launch_node): it is READY and takes jobs.     *)
NodeReady ==
  /\ state = "LAUNCHING"
  /\ state' = "READY"
  /\ TrySchedule(phase, slot_ram, allocated_ram, allocated_vcpu, "READY")
  /\ UNCHANGED rest

(* on_job_arrival: no tier hosts a burst above the reservation; the job is *)
(* rejected.  Any other one is queued, and the queue is scheduled.         *)
Arrive(j) ==
  /\ phase[j] = "absent"
  /\ \A k \in 1..(j-1) : phase[k] # "absent"
  /\ IF Burst[j] > Reservation
     THEN /\ phase' = [phase EXCEPT ![j] = "rejected"]
          /\ UNCHANGED <<slot_ram, allocated_ram, allocated_vcpu, users, dl_queue, at>>
     ELSE TrySchedule([phase EXCEPT ![j] = "queued"],
                      slot_ram, allocated_ram, allocated_vcpu, state)
  /\ UNCHANGED <<state, rest>>

(* Job j's process moves on to phase ph, its slot using ram.               *)
MoveTo(j, ph, ram) ==
  /\ phase' = [phase EXCEPT ![j] = ph]
  /\ slot_ram' = [slot_ram EXCEPT ![j] = ram]
  /\ UNCHANGED <<state, allocated_ram, allocated_vcpu, download_slots>>

(* The granted request is processed: the download starts (add_job).        *)
StartDownload(j) ==
  /\ phase[j] = "slot" /\ j \in users
  /\ MoveTo(j, "download", DownloadRam[j])
  /\ UNCHANGED <<users, dl_queue, poolVars>>

(* Mutant: the download slot goes back when the download ends.             *)
EndDownloadFreesSlot(j) ==
  /\ phase[j] = "download"
  /\ Acquire(j)
  /\ IF Fits(in_use, j) THEN MoveTo(j, "preprocess", Peak[j])
                        ELSE MoveTo(j, "burst", slot_ram[j])
  /\ GrantSlots(users \ {j}, dl_queue)

(* The download ends: the job asks the pool for its burst, and starts to   *)
(* preprocess if it gets it at once.                                       *)
EndDownload(j) ==
  /\ phase[j] = "download"
  /\ Acquire(j)
  /\ IF Fits(in_use, j) THEN MoveTo(j, "preprocess", Peak[j])
                        ELSE MoveTo(j, "burst", slot_ram[j])
  /\ UNCHANGED <<users, dl_queue>>

(* A job that waited for its burst starts to preprocess.                   *)
StartPreprocess(j) ==
  /\ phase[j] = "burst"
  /\ Resume(j)
  /\ MoveTo(j, "preprocess", Peak[j])
  /\ UNCHANGED <<users, dl_queue>>

(* Mutant: the burst is released, the download slot is not.                *)
EndPreprocessKeepsSlot(j) ==
  /\ phase[j] = "preprocess"
  /\ Release(j)
  /\ MoveTo(j, "workhorse", WorkhorseRam[j])
  /\ UNCHANGED <<users, dl_queue>>

(* Mutant: the end of the burst is taken off the request.                  *)
EndPreprocessReturnsRequest(j) ==
  /\ phase[j] = "preprocess"
  /\ Release(j)
  /\ GrantSlots(users \ {j}, dl_queue)
  /\ phase' = [phase EXCEPT ![j] = "workhorse"]
  /\ slot_ram' = [slot_ram EXCEPT ![j] = WorkhorseRam[j]]
  /\ allocated_ram' = allocated_ram - Burst[j]
  /\ UNCHANGED <<state, allocated_vcpu, download_slots>>

(* Preprocessing ends: the burst and the download slot go back.            *)
EndPreprocess(j) ==
  /\ phase[j] = "preprocess"
  /\ Release(j)
  /\ GrantSlots(users \ {j}, dl_queue)
  /\ MoveTo(j, "workhorse", WorkhorseRam[j])

(* The last workhorse stage has had its CPU seconds.                       *)
EndWorkhorse(j) ==
  /\ phase[j] = "workhorse"
  /\ MoveTo(j, "upload", UploadRam[j])
  /\ UNCHANGED <<users, dl_queue, poolVars>>

(* Mutant: a completed job's request is not given back.                    *)
LessNothing(held, amount) == held

Less(held, amount) == IF held > amount THEN held - amount ELSE 0

(* The upload ends: remove_job, then on_job_complete gives the request     *)
(* back; the node is IDLE if its slots are empty, and the queue is         *)
(* scheduled.                                                              *)
EndUpload(j) ==
  LET st == IF \E k \in Jobs \ {j} : phase[k] \in InSlots THEN state ELSE "IDLE"
  IN  /\ phase[j] = "upload"
      /\ state' = st
      /\ TrySchedule([phase EXCEPT ![j] = "done"], [slot_ram EXCEPT ![j] = 0],
                     Less(allocated_ram, Soft[j]), Less(allocated_vcpu, Vcpu[j]), st)
      /\ UNCHANGED rest

JobStep(j) ==
  \/ StartDownload(j) \/ EndDownload(j) \/ StartPreprocess(j)
  \/ EndPreprocess(j) \/ EndWorkhorse(j) \/ EndUpload(j)

Next == NodeReady \/ \E j \in Jobs : Arrive(j) \/ JobStep(j)

(* simpy processes every event that is due: a phase's timer fires, a       *)
(* granted or woken process runs, the node's warm-up ends.                 *)
Fairness == WF_vars(NodeReady) /\ \A j \in Jobs : WF_vars(JobStep(j))

Spec == Init /\ [][Next]_vars

FairSpec == Spec /\ Fairness

-----------------------------------------------------------------------------
(* The types of the variables; the books never turn negative.              *)
TypeOK ==
  /\ PoolTypeOK
  /\ state \in {"LAUNCHING", "READY", "IDLE"}
  /\ phase \in [Jobs -> Phases]
  /\ slot_ram \in [Jobs -> Nat]
  /\ allocated_ram \in Nat /\ allocated_vcpu \in Nat
  /\ download_slots \in SlotChoices
  /\ users \subseteq Jobs
  /\ dl_queue \in Seq(Jobs)

(* No job uses more memory than it requested outside its preprocess phase. *)
(* The sampler draws workhorse_ram_gb, and fixes download_ram_gb and       *)
(* upload_ram_gb at 0.5, without relating them to the request.             *)
WithinRequests ==
  \A j \in Jobs : /\ DownloadRam[j] <= Soft[j]
                  /\ WorkhorseRam[j] <= Soft[j]
                  /\ UploadRam[j] <= Soft[j]

(* "No crash possible" (k8s_plus_scheduler.py:62): the memory in use on    *)
(* the node never exceeds what it has, although the requests leave the     *)
(* bursts out.                                                             *)
NoOverload == Total(slot_ram, NumJobs) <= PhysicalRam

Placed == {j \in Jobs : phase[j] \in OnNode}

(* The node's books agree with the jobs it hosts, through rejected and     *)
(* batched placements and completions in any order.                        *)
AllocationBalanced ==
  /\ allocated_ram = Total(Of(Placed, Soft), NumJobs)
  /\ allocated_vcpu = Total(Of(Placed, Vcpu), NumJobs)

(* A download slot is held from the grant to the end of preprocessing      *)
(* (BSIM-125), by the jobs with downloaded data on the node and no other,  *)
(* and a job waits for one only when they are all taken.                   *)
DownloadThrottle ==
  download_slots > 0 =>
    LET waiting == ToSet(dl_queue)
    IN  /\ users = {j \in Jobs : phase[j] \in {"slot", "download", "burst", "preprocess"}}
                     \ waiting
        /\ \A j \in waiting : phase[j] = "slot"
        /\ Cardinality(users) <= download_slots
        /\ dl_queue # <<>> => Cardinality(users) = download_slots

(* Every job placed on the node runs to its end: neither the download      *)
(* slots, held while a job waits for the pool, nor the pool lock up.       *)
PlacedJobCompletes == \A j \in Jobs : (phase[j] \in OnNode) ~> (phase[j] = "done")

(* Where each job stands, as the contract of NodeContract sees it.         *)
Life == [j \in Jobs |-> CASE at[j] = "outside" -> "away"
                          [] at[j] \in {"placed", "waiting"} -> "resident"
                          [] at[j] \in {"woken", "holding"} -> "boosting"
                          [] at[j] = "returned" /\ phase[j] # "done" -> "steady"
                          [] OTHER -> "gone"]

Contract == INSTANCE NodeContract
              WITH Schedulable <- Effective, Spike <- Reservation, life <- Life

(* The node keeps the contract: requests and boosts stay within their      *)
(* budgets, and a job is placed, boosts and leaves once                    *)
(* (docs/jira/epic_E20_multi_tier_boost_provisioning.md:461-464).          *)
ContractSpec == Contract!Spec
=============================================================================
