---------------------------- MODULE StoragePools ----------------------------
(***************************************************************************)
(* The storage of one node (batch_sim/scheduler/storage_pool.py), in the   *)
(* three models make_storage_pool chooses from: the pool that grows for as *)
(* long as the node lives (Batch), the pool in generations (K8S, K8S+),    *)
(* and a volume per job (any scheduler).                                   *)
(*                                                                         *)
(* The actions are the calls the schedulers make: _place_job calls         *)
(* job_start for a job that has_room_for admitted, on_job_complete calls   *)
(* job_exit, and the end of the node or of the run calls close.  Time is   *)
(* left out: a volume, or a generation, is billed from its opening until   *)
(* it is closed.                                                           *)
(***************************************************************************)
EXTENDS NodeJobs, StorageModel, Sequences

CONSTANT Workspace   \* workspace_gb of each job: its preprocess_peak_ram_gb

Models == {"pool", "generational", "dedicated"}

ASSUME PoolsAssumption == Workspace \in [Jobs -> Nat]

VARIABLES
  model,       \* the pool class of the node
  mounted,     \* the jobs between job_start and job_exit
  volumes,     \* pool: attached_volumes
  committed,   \* pool: pool_committed_gb
  exhausted,   \* pool: whether storage_exhausted was ever reported
  gens,        \* generational: _generations, in the order they were opened
  job_gen,     \* generational: _job_gen[j], an index of gens, or 0
  active,      \* dedicated: the jobs with a volume
  ended        \* whether close was called

storageVars == <<model, mounted, volumes, committed, exhausted, gens, job_gen, active, ended>>

NewGen == [committed |-> 0, active_jobs |-> 0, closed |-> FALSE]

(* make_storage_pool, and __post_init__ of the class it chooses.           *)
StorageInit ==
  /\ model \in Models /\ mounted = {} /\ ended = FALSE
  /\ volumes = InitialVolumes /\ committed = 0 /\ exhausted = FALSE
  /\ gens = <<NewGen>> /\ job_gen = [j \in Jobs |-> 0]
  /\ active = {}

-----------------------------------------------------------------------------
Current == gens[Len(gens)]

OpenGens == {i \in DOMAIN gens : ~gens[i].closed}

(* GenerationalStoragePool.has_room_for, when the current generation's     *)
(* trigger would be crossed: another one may be opened, whatever w is.     *)
MayOpen(w) == Cardinality(OpenGens) < MaxVolumes \div InitialVolumes

(* has_room_for *)
HasRoomFor(w) ==
  \/ model = "pool" /\ PoolHasRoom(committed, w)
  \/ /\ model = "generational"
     /\ Within(Current.committed + w, InitialVolumes) \/ MayOpen(w)
  \/ model = "dedicated" /\ Cardinality(active) < MaxVolumes

(* Mutant: the pool is expanded before the workspace is committed.         *)
PoolStartExpandsFirst(j) ==
  /\ committed' = committed + Workspace[j]
  /\ volumes' = Expanded(volumes, committed)
  /\ exhausted' = (exhausted \/ ~Within(committed, volumes'))

(* NodeStoragePool.job_start *)
PoolStart(j) ==
  /\ committed' = committed + Workspace[j]
  /\ volumes' = Expanded(volumes, committed')
  /\ exhausted' = (exhausted \/ ~Within(committed', volumes'))

(* Mutant: the job is noted down for the generation that was current.      *)
GenStartNotesOld(j) ==
  LET opened == IF Within(Current.committed + Workspace[j], InitialVolumes)
                THEN gens ELSE Append(gens, NewGen)
      g == Len(opened)
  IN  /\ gens' = [opened EXCEPT ![g] =
                    [committed |-> @.committed + Workspace[j],
                     active_jobs |-> @.active_jobs + 1,
                     closed |-> @.closed]]
      /\ job_gen' = [job_gen EXCEPT ![j] = Len(gens)]

(* GenerationalStoragePool.job_start: the current generation is the last   *)
(* one opened, released or not.                                            *)
GenStart(j) ==
  LET opened == IF Within(Current.committed + Workspace[j], InitialVolumes)
                THEN gens ELSE Append(gens, NewGen)
      g == Len(opened)
  IN  /\ gens' = [opened EXCEPT ![g] =
                    [committed |-> @.committed + Workspace[j],
                     active_jobs |-> @.active_jobs + 1,
                     closed |-> @.closed]]
      /\ job_gen' = [job_gen EXCEPT ![j] = g]

(* The storage part of _place_job, for a job that the node fits.           *)
JobStart(j) ==
  /\ ~ended /\ j \notin mounted
  /\ HasRoomFor(Workspace[j])
  /\ mounted' = mounted \cup {j}
  /\ \/ model = "pool" /\ PoolStart(j) /\ UNCHANGED <<gens, job_gen, active>>
     \/ /\ model = "generational" /\ GenStart(j)
        /\ UNCHANGED <<committed, volumes, exhausted, active>>
     \/ /\ model = "dedicated" /\ active' = active \cup {j}
        /\ UNCHANGED <<committed, volumes, exhausted, gens, job_gen>>
  /\ UNCHANGED <<model, ended>>

(* max(0.0, ...) *)
Minus(gb, workspace) == IF gb > workspace THEN gb - workspace ELSE 0

(* GenerationalStoragePool.job_exit: the last job of a generation releases *)
(* it.                                                                     *)
GenExit(j) ==
  LET g == job_gen[j]
  IN  /\ job_gen' = [job_gen EXCEPT ![j] = 0]
      /\ gens' = [gens EXCEPT ![g] =
                    [committed |-> Minus(@.committed, Workspace[j]),
                     active_jobs |-> @.active_jobs - 1,
                     closed |-> @.closed \/ @.active_jobs = 1]]

(* The storage part of on_job_complete.                                    *)
JobExit(j) ==
  /\ ~ended /\ j \in mounted
  /\ mounted' = mounted \ {j}
  /\ \/ /\ model = "pool" /\ committed' = Minus(committed, Workspace[j])
        /\ UNCHANGED <<gens, job_gen, active>>
     \/ model = "generational" /\ GenExit(j) /\ UNCHANGED <<committed, active>>
     \/ /\ model = "dedicated" /\ active' = active \ {j}
        /\ UNCHANGED <<committed, gens, job_gen>>
  /\ UNCHANGED <<model, volumes, exhausted, ended>>

(* close, when the node is terminated or the run is over.                  *)
CloseStorage ==
  /\ ~ended
  /\ ended' = TRUE
  /\ gens' = [i \in DOMAIN gens |-> [gens[i] EXCEPT !.closed = TRUE]]
  /\ active' = {}
  /\ UNCHANGED <<model, mounted, volumes, committed, exhausted, job_gen>>

-----------------------------------------------------------------------------
WorkspaceOf(S) == Total([j \in Jobs |-> IF j \in S THEN Workspace[j] ELSE 0], NumJobs)

Gen == [committed : Nat, active_jobs : Nat, closed : BOOLEAN]

(* The types of the storage variables.                                     *)
StorageTypeOK ==
  /\ model \in Models /\ mounted \subseteq Jobs /\ ended \in BOOLEAN
  /\ volumes \in Nat /\ committed \in Nat /\ exhausted \in BOOLEAN
  /\ gens \in Seq(Gen) /\ gens # <<>>
  /\ job_gen \in [Jobs -> 0..Len(gens)]
  /\ active \subseteq Jobs

(* has_room_for admits a job only where "a job is never placed somewhere   *)
(* it would only immediately trigger STORAGE_EXHAUSTED"                    *)
(* (storage_pool.py:35-39).  Whatever order jobs come and go in, a pool    *)
(* never runs out and has grown enough for what is committed; and no model *)
(* needs more volumes than the instance attaches, a generation's counting  *)
(* for as long as it is billed.                                            *)
StorageWithinLimits ==
  /\ ~exhausted
  /\ model = "pool" => /\ Within(committed, volumes)
                       /\ volumes > InitialVolumes => volumes <= MaxVolumes
  /\ model = "generational" /\ InitialVolumes <= MaxVolumes =>
       Cardinality(OpenGens) * InitialVolumes <= MaxVolumes
  /\ model = "dedicated" => Cardinality(active) <= MaxVolumes

(* Each job's workspace is on the books once and in one place, from        *)
(* job_start to job_exit: of the pool, of its own generation, or of its    *)
(* own volume.                                                             *)
WorkspacesOnBooks ==
  /\ model = "pool" => committed = WorkspaceOf(mounted)
  /\ model = "generational" => \A i \in DOMAIN gens :
       LET here == {j \in mounted : job_gen[j] = i}
       IN  /\ gens[i].committed = WorkspaceOf(here)
           /\ gens[i].active_jobs = Cardinality(here)
  /\ model = "dedicated" /\ ~ended => active = mounted

=============================================================================
