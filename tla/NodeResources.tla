--------------------------- MODULE NodeResources ---------------------------
(***************************************************************************)
(* What one node hands out besides memory: its vCPUs and its volumes.  A   *)
(* scheduler places a job when its soft_cpu and its workspace fit          *)
(* (_batch_fits, _k8s_fits), and takes both back when the job has ended.   *)
(***************************************************************************)
EXTENDS StoragePools, CpuShares

vars == <<storageVars, cpuVars>>

(* Batch has one pool per node, K8S and K8S+ have generations, and each    *)
(* may have dedicated volumes.                                             *)
Init ==
  /\ StorageInit /\ CpuInit
  /\ <<solver, model>> \notin {<<"batch", "generational">>, <<"k8s", "pool">>}

(* node.allocated_vcpu + vcpu <= the vCPUs of the node                     *)
CpuFits(j) == SumOver(mounted, Soft) + Soft[j] <= Physical

(* Jobs go to a READY node.  One that has emptied is IDLE and takes none.  *)
Ready == mounted # {} \/ \A j \in Jobs : phase[j] = "waiting"

(* _place_job and the start of the job's process, which with download      *)
(* slots may come later than its workspace.                                *)
Place(j) == Ready /\ CpuFits(j) /\ JobStart(j) /\ JobEnters(j)

(* The end of the job's process and on_job_complete.                       *)
Complete(j) == JobExit(j) /\ JobLeaves(j)

Proceed(j) == ~ended /\ PhaseStep(j) /\ UNCHANGED storageVars

End == CloseStorage /\ UNCHANGED cpuVars

Next == End \/ \E j \in Jobs : Place(j) \/ Proceed(j) \/ Complete(j)

Spec == Init /\ [][Next]_vars

-----------------------------------------------------------------------------
(* The types of all variables; a job has its volume while it has its slot. *)
TypeOK == StorageTypeOK /\ CpuTypeOK /\ mounted = OnNode
=============================================================================
