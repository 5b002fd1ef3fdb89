---------------------------- MODULE StorageModel ----------------------------
(***************************************************************************)
(* The arithmetic of a node's EBS volumes                                  *)
(* (batch_sim/scheduler/storage_pool.py), for the pool models that keep    *)
(* volumes of one size and compare what is committed with a part of their  *)
(* capacity.                                                               *)
(***************************************************************************)
EXTENDS Integers

CONSTANTS
  VolumeGb,        \* volume_size_gb
  InitialVolumes,  \* initial_volume_count
  MaxVolumes,      \* instance.max_ebs_volumes
  TriggerPct       \* expansion_trigger_pct, in percent

ASSUME StorageAssumption ==
  /\ VolumeGb \in Nat \ {0} /\ InitialVolumes \in Nat \ {0} /\ MaxVolumes \in Nat
  /\ TriggerPct \in 0..100

(* What is committed does not cross the trigger of so many volumes.        *)
Within(committed, volumes) == 100 * committed <= TriggerPct * volumes * VolumeGb

(* NodeStoragePool.has_room_for: the trigger of all the volumes the node   *)
(* can attach.                                                             *)
PoolHasRoom(committed, workspace) == Within(committed + workspace, MaxVolumes)

(* _maybe_expand: volumes are attached one by one until the trigger is not *)
(* crossed any more or none can be attached.                               *)
Expanded(volumes, committed) ==
  CHOOSE v \in {volumes} \cup (volumes..MaxVolumes) :
    /\ Within(committed, v) \/ v >= MaxVolumes
    /\ \A u \in volumes..(v-1) : ~Within(committed, u)
=============================================================================
