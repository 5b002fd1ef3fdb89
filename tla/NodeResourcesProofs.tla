------------------------ MODULE NodeResourcesProofs ------------------------
(***************************************************************************)
(* Proofs about NodeResources, for any jobs and any node: the types of the *)
(* variables; that a node's volumes have room for what is committed to     *)
(* them and its books of them are right; that no stage goes on at a rate   *)
(* that is out of date; that the shares fit the node under either solver;  *)
(* and that the auction of K8S serves the jobs in its order, leaves over   *)
(* only what no job can use, and never takes back from the jobs that stay. *)
(***************************************************************************)
EXTENDS NodeResources, PackingProofs, FunctionTheorems

(* Every mounted job of the generational pool has its generation.          *)
JobsHaveGen == model = "generational" => \A j \in mounted : job_gen[j] # 0

StorageInv == StorageTypeOK /\ JobsHaveGen /\ StorageWithinLimits /\ WorkspacesOnBooks

-----------------------------------------------------------------------------
(* WorkspaceOf is a sum over jobs.                                         *)
LEMMA WorkspaceIsAsked ==
  \A S : WorkspaceOf(S) = Asked(S, Workspace, NumJobs)
BY DEF WorkspaceOf, Asked, Jobs

(* The books when a job comes.                                             *)
LEMMA WorkspaceAdd ==
  ASSUME NEW S, NEW j \in Jobs, j \notin S
  PROVE  /\ WorkspaceOf(S) \in Nat
         /\ WorkspaceOf(S \cup {j}) = WorkspaceOf(S) + Workspace[j]
<1>1. NumJobs \in Nat /\ Workspace \in [1..NumJobs -> Nat] /\ j \in 1..NumJobs
  BY NumJobsAssumption, PoolsAssumption DEF Jobs
<1>. QED  BY <1>1, WorkspaceIsAsked, SumAdd, SumType

(* The books when a job goes.                                              *)
LEMMA WorkspaceMinus ==
  ASSUME NEW S, NEW j \in Jobs, j \in S
  PROVE  /\ WorkspaceOf(S \ {j}) \in Nat
         /\ Minus(WorkspaceOf(S), Workspace[j]) = WorkspaceOf(S \ {j})
<1>1. (S \ {j}) \cup {j} = S
  OBVIOUS
<1>2. WorkspaceOf(S \ {j}) \in Nat /\ WorkspaceOf(S) = WorkspaceOf(S \ {j}) + Workspace[j]
  BY <1>1, WorkspaceAdd
<1>3. Workspace[j] \in Nat
  BY PoolsAssumption
<1>. QED  BY <1>2, <1>3 DEF Minus

(* No jobs commit nothing.                                                 *)
LEMMA WorkspaceEmpty == WorkspaceOf({}) = 0
<1>1. NumJobs \in Nat /\ Workspace \in [1..NumJobs -> Nat]
  BY NumJobsAssumption, PoolsAssumption DEF Jobs
<1>. QED  BY <1>1, WorkspaceIsAsked, SumEmpty

-----------------------------------------------------------------------------
(* The trigger is crossed later with less committed or more volumes.       *)
LEMMA WithinMonotone ==
  ASSUME NEW c \in Int, NEW d \in Int, NEW u \in Int, NEW v \in Int, d <= c, u <= v,
         Within(c, u)
  PROVE  Within(d, v)
<1>1. TriggerPct \in Nat /\ VolumeGb \in Nat
  BY StorageAssumption
<1>2. u * TriggerPct <= v * TriggerPct /\ u * TriggerPct \in Int /\ v * TriggerPct \in Int
  BY <1>1, TimesMonotone
<1>3. (u * TriggerPct) * VolumeGb <= (v * TriggerPct) * VolumeGb
  BY <1>1, <1>2, TimesMonotone
<1>4. TriggerPct * u * VolumeGb = (u * TriggerPct) * VolumeGb
      /\ TriggerPct * v * VolumeGb = (v * TriggerPct) * VolumeGb
  BY <1>1
<1>5. TriggerPct * u * VolumeGb \in Int /\ TriggerPct * v * VolumeGb \in Int
  BY <1>1
<1>6. 100 * c <= TriggerPct * u * VolumeGb
  BY DEF Within
<1> DEFINE U == TriggerPct * u * VolumeGb
           V == TriggerPct * v * VolumeGb
<1>7. U <= V /\ U \in Int /\ V \in Int /\ 100 * c <= U
  BY <1>3, <1>4, <1>5, <1>6
<1> HIDE DEF U, V
<1>8. 100 * d <= V
  BY <1>7
<1>. QED  BY <1>8 DEF Within, V

(* _maybe_expand: what has_room_for admitted fits the volumes it attaches. *)
LEMMA ExpandedFits ==
  ASSUME NEW volumes0 \in Nat, NEW c \in Nat, Within(c, MaxVolumes)
  PROVE  LET v == Expanded(volumes0, c)
         IN  /\ v \in Nat /\ Within(c, v)
             /\ v = volumes0 \/ v <= MaxVolumes
<1> DEFINE Cand == {volumes0} \cup (volumes0..MaxVolumes)
           Good(v) == /\ Within(c, v) \/ v >= MaxVolumes
                      /\ \A u \in volumes0..(v-1) : ~Within(c, u)
           T == {v \in Cand : Within(c, v)}
<1>1. MaxVolumes \in Nat
  BY StorageAssumption
<1>2. Cand \in SUBSET Nat /\ \A v \in Cand : v = volumes0 \/ (volumes0 <= v /\ v <= MaxVolumes)
  BY <1>1
<1>3. T # {}
  <2>1. CASE volumes0 <= MaxVolumes
    <3>1. MaxVolumes \in Cand
      BY <1>1, <2>1
    <3>. QED  BY <3>1
  <2>2. CASE ~(volumes0 <= MaxVolumes)
    <3>1. Within(c, volumes0)
      BY <1>1, <2>2, WithinMonotone
    <3>. QED  BY <3>1
  <2>. QED  BY <2>1, <2>2
<1>4. PICK v \in T : \A y \in T : v <= y
  <2>1. T \in SUBSET Nat
    BY <1>2
  <2> HIDE DEF T
  <2>. QED  BY <1>3, <2>1, LeastNat
<1>5. v \in Cand /\ Good(v)
  <2>1. v \in Cand /\ v \in Nat /\ Within(c, v)
    BY <1>2, <1>4
  <2>2. ASSUME NEW u \in volumes0..(v-1), Within(c, u) PROVE FALSE
    <3>1. u \in Cand
      BY <1>1, <1>2, <2>1, <2>2
    <3>2. v <= u
      BY <1>4, <2>2, <3>1
    <3>. QED  BY <2>1, <2>2, <3>2
  <2>. QED  BY <2>1, <2>2
<1> DEFINE w == CHOOSE x \in Cand : Good(x)
<1>6. w \in Cand /\ Good(w)
  <2> HIDE DEF Cand, Good
  <2>. QED  BY <1>5
<1>7. Expanded(volumes0, c) = w
  BY DEF Expanded
<1> HIDE DEF w, Cand
<1>8. w \in Nat /\ (w = volumes0 \/ w <= MaxVolumes)
  BY <1>2, <1>6
<1>9. Within(c, w)
  <2>1. w >= MaxVolumes => Within(c, w)
    BY <1>1, <1>8, WithinMonotone
  <2>. QED  BY <1>6, <2>1
<1>. QED  BY <1>7, <1>8, <1>9

(* What is left of so many volumes by whole generations.                   *)
LEMMA DivTimes ==
  ASSUME NEW a \in Nat, NEW b \in Nat \ {0}, NEW c \in Nat, c < a \div b
  PROVE  (c + 1) * b <= a
<1>1. a \div b \in Int /\ b * (a \div b) <= a
  BY SMT
<1>2. (c + 1) * b <= (a \div b) * b
  BY <1>1, TimesMonotone
<1>. QED  BY <1>1, <1>2

-----------------------------------------------------------------------------
(* Opening a generation, and releasing one.                                *)
LEMMA OpenGensFinite ==
  ASSUME gens \in Seq(Gen)
  PROVE  IsFiniteSet(OpenGens) /\ Cardinality(OpenGens) \in Nat
<1>1. IsFiniteSet(1..Len(gens))
  BY FS_Interval
<1>2. OpenGens \subseteq 1..Len(gens)
  BY DEF OpenGens
<1>3. IsFiniteSet(OpenGens)
  BY <1>1, <1>2, FS_Subset
<1>. QED  BY <1>3, FS_CardinalityType

(* Fewer open generations need fewer volumes.                              *)
LEMMA FewerGens ==
  ASSUME gens \in Seq(Gen), OpenGens' \subseteq OpenGens,
         Cardinality(OpenGens) * InitialVolumes <= MaxVolumes
  PROVE  Cardinality(OpenGens') * InitialVolumes <= MaxVolumes
<1>1. Cardinality(OpenGens') \in Nat /\ Cardinality(OpenGens) \in Nat
      /\ Cardinality(OpenGens') <= Cardinality(OpenGens)
  <2> DEFINE S == OpenGens
             T == OpenGens'
  <2>1. IsFiniteSet(S) /\ T \subseteq S
    BY OpenGensFinite
  <2> HIDE DEF S, T
  <2>2. Cardinality(T) \in Nat /\ Cardinality(S) \in Nat /\ Cardinality(T) <= Cardinality(S)
    BY <2>1, FS_Subset, FS_CardinalityType
  <2>. QED  BY <2>2 DEF S, T
<1> DEFINE n == Cardinality(OpenGens)
           m == Cardinality(OpenGens')
<1>2. n \in Nat /\ m \in Nat /\ m <= n /\ n * InitialVolumes <= MaxVolumes
  BY <1>1
<1> HIDE DEF n, m
<1>3. m * InitialVolumes <= n * InitialVolumes
  BY <1>2, StorageAssumption, TimesMonotone
<1>4. m * InitialVolumes \in Int /\ n * InitialVolumes \in Int /\ MaxVolumes \in Int
  BY <1>2, StorageAssumption
<1>5. m * InitialVolumes <= MaxVolumes
  BY <1>2, <1>3, <1>4
<1>. QED  BY <1>5 DEF m

(* A job comes to a pool that has room for it.                             *)
LEMMA PoolStartStep ==
  ASSUME StorageInv, NEW j \in Jobs, JobStart(j), model = "pool"
  PROVE  StorageInv'
<1>1. /\ ~ended /\ j \notin mounted /\ mounted' = mounted \cup {j}
      /\ PoolHasRoom(committed, Workspace[j])
      /\ committed' = committed + Workspace[j]
      /\ volumes' = Expanded(volumes, committed')
      /\ exhausted' = (exhausted \/ ~Within(committed', volumes'))
      /\ UNCHANGED <<gens, job_gen, active, model, ended>>
  BY DEF JobStart, HasRoomFor, PoolStart
<1>2. volumes \in Nat /\ committed \in Nat /\ Workspace[j] \in Nat /\ committed' \in Nat
  BY <1>1, PoolsAssumption DEF StorageInv, StorageTypeOK
<1>3. volumes' \in Nat /\ Within(committed', volumes')
      /\ (volumes' = volumes \/ volumes' <= MaxVolumes)
  <2>1. Within(committed', MaxVolumes)
    BY <1>1 DEF PoolHasRoom
  <2>. QED  BY <1>1, <1>2, <2>1, ExpandedFits
<1>4. ~exhausted /\ ~exhausted'
  BY <1>1, <1>3 DEF StorageInv, StorageWithinLimits
<1>5. StorageTypeOK'
  BY <1>1, <1>2, <1>3, <1>4 DEF StorageInv, StorageTypeOK
<1>6. StorageWithinLimits'
  BY <1>1, <1>3, <1>4 DEF StorageInv, StorageWithinLimits
<1>7. WorkspacesOnBooks'
  <2>1. WorkspaceOf(mounted') = WorkspaceOf(mounted) + Workspace[j]
    BY <1>1, WorkspaceAdd
  <2>2. committed = WorkspaceOf(mounted)
    BY DEF StorageInv, WorkspacesOnBooks
  <2>3. committed' = WorkspaceOf(mounted')
    BY <1>1, <2>1, <2>2
  <2>. QED  BY <1>1, <2>3 DEF WorkspacesOnBooks, WorkspaceOf
<1>8. JobsHaveGen'
  BY <1>1 DEF JobsHaveGen
<1>. QED  BY <1>5, <1>6, <1>7, <1>8 DEF StorageInv

(* A job comes to a node with a volume per job.                            *)
LEMMA DedicatedStartStep ==
  ASSUME StorageInv, NEW j \in Jobs, JobStart(j), model = "dedicated"
  PROVE  StorageInv'
<1>1. /\ ~ended /\ j \notin mounted /\ mounted' = mounted \cup {j}
      /\ active' = active \cup {j} /\ Cardinality(active) < MaxVolumes
      /\ UNCHANGED <<committed, volumes, exhausted, gens, job_gen, model, ended>>
  BY DEF JobStart, HasRoomFor
<1>2. active = mounted
  BY <1>1 DEF StorageInv, WorkspacesOnBooks
<1>3. Cardinality(active') <= MaxVolumes
  <2>1. IsFiniteSet(Jobs)
    BY NumJobsAssumption, FS_Interval DEF Jobs
  <2>2. IsFiniteSet(active)
    BY <2>1, FS_Subset DEF StorageInv, StorageTypeOK
  <2>3. Cardinality(active') = Cardinality(active) + 1 /\ Cardinality(active) \in Nat
    BY <1>1, <1>2, <2>2, FS_AddElement, FS_CardinalityType
  <2>. QED  BY <1>1, <2>3, StorageAssumption
<1>4. StorageTypeOK' /\ JobsHaveGen'
  BY <1>1 DEF StorageInv, StorageTypeOK, JobsHaveGen
<1>5. StorageWithinLimits' /\ WorkspacesOnBooks'
  BY <1>1, <1>2, <1>3 DEF StorageInv, StorageWithinLimits, WorkspacesOnBooks
<1>. QED  BY <1>4, <1>5 DEF StorageInv

-----------------------------------------------------------------------------
(* The jobs of generation i.                                               *)
Here(m, jg, i) == {k \in m : jg[k] = i}

(* A job comes to a pool in generations that has room for it: to the       *)
(* current generation, or to a new one.                                    *)
LEMMA GenStartStep ==
  ASSUME StorageInv, NEW j \in Jobs, JobStart(j), model = "generational"
  PROVE  StorageInv'
<1> DEFINE fits == Within(Current.committed + Workspace[j], InitialVolumes)
           O == IF fits THEN gens ELSE Append(gens, NewGen)
           g == Len(O)
<1>1. /\ ~ended /\ j \notin mounted /\ mounted' = mounted \cup {j}
      /\ fits \/ MayOpen(Workspace[j])
      /\ gens' = [O EXCEPT ![g] = [committed |-> @.committed + Workspace[j],
                                   active_jobs |-> @.active_jobs + 1,
                                   closed |-> @.closed]]
      /\ job_gen' = [job_gen EXCEPT ![j] = g]
      /\ UNCHANGED <<committed, volumes, exhausted, active, model, ended>>
  BY DEF JobStart, HasRoomFor, GenStart
<1>2. /\ gens \in Seq(Gen) /\ Len(gens) \in Nat /\ Len(gens) >= 1
      /\ job_gen \in [Jobs -> 0..Len(gens)] /\ mounted \subseteq Jobs
  BY DEF StorageInv, StorageTypeOK
<1>3. /\ O \in Seq(Gen) /\ g \in Nat /\ g >= Len(gens) /\ g >= 1
      /\ \A i \in 1..Len(gens) : O[i] = gens[i]
      /\ fits => g = Len(gens)
      /\ ~fits => g = Len(gens) + 1 /\ O[g] = NewGen
  <2>1. NewGen \in Gen
    BY DEF NewGen, Gen
  <2> HIDE DEF fits
  <2>2. CASE fits
    BY <1>2, <2>2
  <2>3. CASE ~fits
    BY <1>2, <2>1, <2>3
  <2>. QED  BY <2>2, <2>3
<1> HIDE DEF O, g, fits
<1>4. \A i \in 1..g : O[i] \in Gen
  BY <1>3 DEF g
<1>5. /\ DOMAIN gens' = 1..g /\ Len(gens') = g
      /\ \A i \in 1..g : i # g => gens'[i] = O[i]
      /\ gens'[g].committed = O[g].committed + Workspace[j]
      /\ gens'[g].active_jobs = O[g].active_jobs + 1
      /\ gens'[g].closed = O[g].closed
      /\ gens'[g] \in Gen /\ gens' \in Seq(Gen)
  <2>1. O[g] \in Gen /\ g \in 1..g
    BY <1>3, <1>4
  <2>2. Workspace[j] \in Nat
    BY PoolsAssumption
  <2> DEFINE r == [committed |-> O[g].committed + Workspace[j],
                   active_jobs |-> O[g].active_jobs + 1,
                   closed |-> O[g].closed]
  <2>3. r \in Gen /\ r.committed = O[g].committed + Workspace[j]
        /\ r.active_jobs = O[g].active_jobs + 1 /\ r.closed = O[g].closed
    BY <2>1, <2>2 DEF Gen
  <2>4. gens' = [O EXCEPT ![g] = r]
    BY <1>1, <1>3, <2>1 DEF Gen
  <2> HIDE DEF r
  <2>5. gens' \in Seq(Gen) /\ Len(gens') = g /\ DOMAIN gens' = 1..g
    BY <1>3, <2>1, <2>3, <2>4 DEF g
  <2>6. gens'[g] = r /\ \A i \in 1..g : i # g => gens'[i] = O[i]
    BY <1>3, <2>1, <2>4 DEF g
  <2>. QED  BY <2>3, <2>5, <2>6
<1>6. \A i \in 1..g : /\ O[i].committed = WorkspaceOf(Here(mounted, job_gen, i))
                      /\ O[i].active_jobs = Cardinality(Here(mounted, job_gen, i))
  <2> TAKE i \in 1..g
  <2>1. CASE i \in 1..Len(gens)
    <3>1. WorkspacesOnBooks /\ model = "generational" /\ i \in DOMAIN gens /\ O[i] = gens[i]
      BY <1>2, <1>3, <2>1 DEF StorageInv
    <3>2. {k \in mounted : job_gen[k] = i} = Here(mounted, job_gen, i)
      BY DEF Here
    <3>. QED  BY <3>1, <3>2 DEF WorkspacesOnBooks
  <2>2. CASE i \notin 1..Len(gens)
    <3>1. O[i] = NewGen /\ i > Len(gens)
      BY <1>2, <1>3, <2>2
    <3>2. Here(mounted, job_gen, i) = {}
      <4>1. \A k \in mounted : job_gen[k] \in 0..Len(gens)
        BY <1>2
      <4>. QED  BY <1>2, <3>1, <4>1 DEF Here
    <3>. QED  BY <3>1, <3>2, WorkspaceEmpty, FS_EmptySet DEF NewGen
  <2>. QED  BY <2>1, <2>2
<1>7. /\ Here(mounted', job_gen', g) = Here(mounted, job_gen, g) \cup {j}
      /\ j \notin Here(mounted, job_gen, g)
      /\ \A i \in 1..g : i # g => Here(mounted', job_gen', i) = Here(mounted, job_gen, i)
  BY <1>1, <1>2 DEF Here
<1>8. WorkspacesOnBooks'
  <2>1. /\ WorkspaceOf(Here(mounted', job_gen', g)) = WorkspaceOf(Here(mounted, job_gen, g)) + Workspace[j]
        /\ Cardinality(Here(mounted', job_gen', g)) = Cardinality(Here(mounted, job_gen, g)) + 1
    <3>1. IsFiniteSet(Here(mounted, job_gen, g))
      <4>1. IsFiniteSet(Jobs)
        BY NumJobsAssumption, FS_Interval DEF Jobs
      <4>2. Here(mounted, job_gen, g) \subseteq Jobs
        BY <1>2 DEF Here
      <4>. QED  BY <4>1, <4>2, FS_Subset
    <3>. QED  BY <1>7, <3>1, WorkspaceAdd, FS_AddElement
  <2>2. \A i \in 1..g : /\ gens'[i].committed = WorkspaceOf(Here(mounted', job_gen', i))
                        /\ gens'[i].active_jobs = Cardinality(Here(mounted', job_gen', i))
    <3> TAKE i \in 1..g
    <3>1. CASE i = g
      BY <1>5, <1>6, <2>1, <3>1
    <3>2. CASE i # g
      BY <1>5, <1>6, <1>7, <3>2
    <3>. QED  BY <3>1, <3>2
  <2>. QED  BY <1>1, <1>5, <2>2 DEF WorkspacesOnBooks, WorkspaceOf, Here
<1>9. StorageWithinLimits'
  <2>1. ASSUME InitialVolumes <= MaxVolumes
        PROVE  Cardinality(OpenGens') * InitialVolumes <= MaxVolumes
    <3>1. Cardinality(OpenGens) * InitialVolumes <= MaxVolumes
      BY <2>1 DEF StorageInv, StorageWithinLimits
    <3>2. OpenGens' = {i \in 1..g : ~O[i].closed}
      <4>1. \A i \in 1..g : gens'[i].closed = O[i].closed
        BY <1>5
      <4>. QED  BY <1>5, <4>1 DEF OpenGens
    <3>3. OpenGens = {i \in 1..Len(gens) : ~O[i].closed}
      BY <1>2, <1>3 DEF OpenGens
    <3>4. CASE fits
      <4>1. OpenGens' \subseteq OpenGens
        BY <1>3, <3>2, <3>3, <3>4
      <4>. QED  BY <1>2, <3>1, <4>1, FewerGens
    <3>5. CASE ~fits
      <4>1. OpenGens' = OpenGens \cup {g} /\ g \notin OpenGens
        <5>1. \A i \in 1..g : i \in 1..Len(gens) \/ i = g
          BY <1>2, <1>3, <3>5
        <5>2. g \notin 1..Len(gens) /\ g \in 1..g /\ 1..Len(gens) \subseteq 1..g
          BY <1>2, <1>3, <3>5
        <5>3. O[g].closed = FALSE
          BY <1>3, <3>5 DEF NewGen
        <5>. QED  BY <3>2, <3>3, <5>1, <5>2, <5>3
      <4>2. Cardinality(OpenGens') = Cardinality(OpenGens) + 1 /\ Cardinality(OpenGens) \in Nat
        BY <1>2, <4>1, OpenGensFinite, FS_AddElement
      <4>3. Cardinality(OpenGens) < MaxVolumes \div InitialVolumes
        BY <1>1, <3>5 DEF MayOpen
      <4> DEFINE c == Cardinality(OpenGens)
      <4>4. c \in Nat /\ c < MaxVolumes \div InitialVolumes
        BY <4>2, <4>3
      <4> HIDE DEF c
      <4>5. (c + 1) * InitialVolumes <= MaxVolumes
        BY <4>4, StorageAssumption, DivTimes
      <4>. QED  BY <4>2, <4>5 DEF c
    <3>. QED  BY <3>4, <3>5
  <2>. QED  BY <1>1, <2>1 DEF StorageInv, StorageWithinLimits
<1>10. StorageTypeOK' /\ JobsHaveGen'
  <2>1. job_gen' \in [Jobs -> 0..Len(gens')] /\ \A k \in Jobs : k # j => job_gen'[k] = job_gen[k]
    BY <1>1, <1>2, <1>3, <1>5
  <2>2. job_gen'[j] # 0
    BY <1>1, <1>2, <1>3
  <2>3. gens' # <<>>
    BY <1>3, <1>5
  <2>4. StorageTypeOK'
    BY <1>1, <1>5, <2>1, <2>3 DEF StorageInv, StorageTypeOK
  <2>5. JobsHaveGen'
    BY <1>1, <1>2, <2>1, <2>2 DEF StorageInv, JobsHaveGen
  <2>. QED  BY <2>4, <2>5
<1>. QED  BY <1>8, <1>9, <1>10 DEF StorageInv

-----------------------------------------------------------------------------
(* A job leaves a pool that grows.                                         *)
LEMMA PoolExitStep ==
  ASSUME StorageInv, NEW j \in Jobs, JobExit(j), model = "pool"
  PROVE  StorageInv'
<1>1. /\ j \in mounted /\ mounted' = mounted \ {j} /\ committed' = Minus(committed, Workspace[j])
      /\ UNCHANGED <<gens, job_gen, active, model, volumes, exhausted, ended>>
  BY DEF JobExit
<1>2. committed = WorkspaceOf(mounted) /\ committed \in Nat /\ volumes \in Nat
      /\ Workspace[j] \in Nat
  BY PoolsAssumption DEF StorageInv, WorkspacesOnBooks, StorageTypeOK
<1>3. committed' = WorkspaceOf(mounted')
  BY <1>1, <1>2, WorkspaceMinus
<1>4. committed' \in Nat /\ committed' <= committed
  BY <1>1, <1>2 DEF Minus
<1>5. StorageTypeOK' /\ JobsHaveGen'
  BY <1>1, <1>4 DEF StorageInv, StorageTypeOK, JobsHaveGen
<1>6. StorageWithinLimits'
  <2>1. Within(committed, volumes)
    BY DEF StorageInv, StorageWithinLimits
  <2>2. Within(committed', volumes)
    BY <1>2, <1>4, <2>1, WithinMonotone
  <2>. QED  BY <1>1, <2>2 DEF StorageInv, StorageWithinLimits
<1>7. WorkspacesOnBooks'
  BY <1>1, <1>3 DEF WorkspacesOnBooks, WorkspaceOf
<1>. QED  BY <1>5, <1>6, <1>7 DEF StorageInv

(* A job leaves its generation, which it may be the last of.               *)
LEMMA GenExitStep ==
  ASSUME StorageInv, NEW j \in Jobs, JobExit(j), model = "generational"
  PROVE  StorageInv'
<1> DEFINE g == job_gen[j]
           r == [committed |-> Minus(gens[g].committed, Workspace[j]),
                 active_jobs |-> gens[g].active_jobs - 1,
                 closed |-> gens[g].closed \/ gens[g].active_jobs = 1]
<1>1. /\ j \in mounted /\ mounted' = mounted \ {j}
      /\ job_gen' = [job_gen EXCEPT ![j] = 0]
      /\ gens' = [gens EXCEPT ![g] = r]
      /\ UNCHANGED <<committed, active, model, volumes, exhausted, ended>>
  BY DEF JobExit, GenExit
<1>2. /\ gens \in Seq(Gen) /\ Len(gens) \in Nat
      /\ job_gen \in [Jobs -> 0..Len(gens)] /\ mounted \subseteq Jobs
  BY DEF StorageInv, StorageTypeOK
<1>3. g \in 1..Len(gens)
  <2>1. g # 0
    BY <1>1 DEF StorageInv, JobsHaveGen
  <2>. QED  BY <1>2, <2>1
<1>4. \A i \in 1..Len(gens) : /\ gens[i].committed = WorkspaceOf(Here(mounted, job_gen, i))
                              /\ gens[i].active_jobs = Cardinality(Here(mounted, job_gen, i))
  BY <1>2 DEF StorageInv, WorkspacesOnBooks, Here
<1>5. /\ Here(mounted', job_gen', g) = Here(mounted, job_gen, g) \ {j}
      /\ j \in Here(mounted, job_gen, g)
      /\ \A i \in 1..Len(gens) : i # g => Here(mounted', job_gen', i) = Here(mounted, job_gen, i)
  BY <1>1, <1>2, <1>3 DEF Here
<1>6. /\ r.committed = WorkspaceOf(Here(mounted', job_gen', g))
      /\ r.active_jobs = Cardinality(Here(mounted', job_gen', g))
      /\ r.committed \in Nat /\ r.active_jobs \in Nat
  <2> DEFINE H == Here(mounted, job_gen, g)
  <2>1. IsFiniteSet(H) /\ j \in H /\ Here(mounted', job_gen', g) = H \ {j}
    <3>1. IsFiniteSet(Jobs)
      BY NumJobsAssumption, FS_Interval DEF Jobs
    <3>2. H \subseteq Jobs
      BY <1>2 DEF Here
    <3>. QED  BY <1>5, <3>1, <3>2, FS_Subset
  <2>2. gens[g].committed = WorkspaceOf(H) /\ gens[g].active_jobs = Cardinality(H)
    BY <1>3, <1>4
  <2> HIDE DEF H
  <2>3. Cardinality(H \ {j}) = Cardinality(H) - 1 /\ Cardinality(H \ {j}) \in Nat
    <3>1. IsFiniteSet(H \ {j})
      BY <2>1, FS_Subset
    <3>. QED  BY <2>1, <3>1, FS_RemoveElement, FS_CardinalityType
  <2>4. /\ WorkspaceOf(H \ {j}) \in Nat
        /\ Minus(WorkspaceOf(H), Workspace[j]) = WorkspaceOf(H \ {j})
    BY <2>1, WorkspaceMinus
  <2>. QED  BY <2>1, <2>2, <2>3, <2>4
<1>7. r \in Gen /\ (gens[g].closed => r.closed)
  <2>1. gens[g] \in Gen
    BY <1>2, <1>3
  <2>2. r.closed \in BOOLEAN
    BY <2>1 DEF Gen
  <2>. QED  BY <1>6, <2>2 DEF Gen
<1> HIDE DEF r
<1>8. /\ gens' \in Seq(Gen) /\ Len(gens') = Len(gens) /\ DOMAIN gens' = 1..Len(gens)
      /\ gens'[g] = r /\ \A i \in 1..Len(gens) : i # g => gens'[i] = gens[i]
  BY <1>1, <1>2, <1>3, <1>7
<1> HIDE DEF g
<1>9. WorkspacesOnBooks'
  <2>1. \A i \in 1..Len(gens) :
          /\ gens'[i].committed = WorkspaceOf(Here(mounted', job_gen', i))
          /\ gens'[i].active_jobs = Cardinality(Here(mounted', job_gen', i))
    <3> TAKE i \in 1..Len(gens)
    <3>1. CASE i = g
      BY <1>6, <1>8, <3>1
    <3>2. CASE i # g
      BY <1>4, <1>5, <1>8, <3>2
    <3>. QED  BY <3>1, <3>2
  <2>. QED  BY <1>1, <1>8, <2>1 DEF WorkspacesOnBooks, WorkspaceOf, Here
<1>10. StorageWithinLimits'
  <2>1. OpenGens' \subseteq OpenGens
    <3>1. \A i \in 1..Len(gens) : gens[i].closed => gens'[i].closed
      BY <1>3, <1>7, <1>8
    <3>. QED  BY <1>2, <1>8, <3>1 DEF OpenGens
  <2>. QED  BY <1>1, <1>2, <2>1, FewerGens DEF StorageInv, StorageWithinLimits
<1>11. StorageTypeOK'
  <2>1. job_gen' \in [Jobs -> 0..Len(gens')]
    BY <1>1, <1>2, <1>8
  <2>2. gens' # <<>>
    BY <1>2, <1>3, <1>8
  <2>. QED  BY <1>1, <1>8, <2>1, <2>2 DEF StorageInv, StorageTypeOK
<1>12. JobsHaveGen'
  BY <1>1, <1>2 DEF StorageInv, JobsHaveGen
<1>. QED  BY <1>9, <1>10, <1>11, <1>12 DEF StorageInv

(* A job takes its volume with it.                                         *)
LEMMA DedicatedExitStep ==
  ASSUME StorageInv, NEW j \in Jobs, JobExit(j), model = "dedicated"
  PROVE  StorageInv'
<1>1. /\ j \in mounted /\ mounted' = mounted \ {j} /\ active' = active \ {j} /\ ~ended
      /\ UNCHANGED <<committed, gens, job_gen, model, volumes, exhausted, ended>>
  BY DEF JobExit
<1>2. Cardinality(active') <= MaxVolumes
  <2>1. IsFiniteSet(Jobs)
    BY NumJobsAssumption, FS_Interval DEF Jobs
  <2>2. IsFiniteSet(active) /\ active' \subseteq active
    BY <1>1, <2>1, FS_Subset DEF StorageInv, StorageTypeOK
  <2>3. /\ Cardinality(active') <= Cardinality(active)
        /\ Cardinality(active') \in Nat /\ Cardinality(active) \in Nat
    BY <2>2, FS_Subset, FS_CardinalityType
  <2>4. Cardinality(active) <= MaxVolumes
    BY DEF StorageInv, StorageWithinLimits
  <2>. QED  BY <2>3, <2>4, StorageAssumption
<1>3. StorageTypeOK' /\ JobsHaveGen'
  BY <1>1 DEF StorageInv, StorageTypeOK, JobsHaveGen
<1>4. StorageWithinLimits' /\ WorkspacesOnBooks'
  BY <1>1, <1>2 DEF StorageInv, StorageWithinLimits, WorkspacesOnBooks
<1>. QED  BY <1>3, <1>4 DEF StorageInv

(* The end of the node.                                                    *)
LEMMA CloseStep ==
  ASSUME StorageInv, CloseStorage
  PROVE  StorageInv'
<1>1. /\ ended' = TRUE /\ active' = {}
      /\ gens' = [i \in DOMAIN gens |-> [gens[i] EXCEPT !.closed = TRUE]]
      /\ UNCHANGED <<model, mounted, volumes, committed, exhausted, job_gen>>
  BY DEF CloseStorage
<1>2. gens \in Seq(Gen) /\ Len(gens) \in Nat /\ Len(gens) >= 1 /\ DOMAIN gens = 1..Len(gens)
  BY DEF StorageInv, StorageTypeOK
<1>3. \A i \in 1..Len(gens) : /\ gens'[i] \in Gen /\ gens'[i].closed
                              /\ gens'[i].committed = gens[i].committed
                              /\ gens'[i].active_jobs = gens[i].active_jobs
  <2> TAKE i \in 1..Len(gens)
  <2>1. gens[i] \in Gen /\ gens'[i] = [gens[i] EXCEPT !.closed = TRUE]
    BY <1>1, <1>2
  <2>. QED  BY <2>1 DEF Gen
<1>4. gens' \in Seq(Gen) /\ Len(gens') = Len(gens) /\ DOMAIN gens' = 1..Len(gens) /\ gens' # <<>>
  <2>1. gens' = [i \in 1..Len(gens) |-> gens'[i]]
    BY <1>1, <1>2
  <2>. QED  BY <1>2, <1>3, <2>1
<1>5. OpenGens' = {} /\ Cardinality({}) = 0
  BY <1>3, <1>4, FS_EmptySet DEF OpenGens
<1>6. StorageTypeOK' /\ JobsHaveGen'
  BY <1>1, <1>4 DEF StorageInv, StorageTypeOK, JobsHaveGen
<1>7. StorageWithinLimits'
  <2>1. 0 * InitialVolumes = 0 /\ 0 <= MaxVolumes
    BY StorageAssumption
  <2>. QED  BY <1>1, <1>5, <2>1 DEF StorageInv, StorageWithinLimits
<1>8. WorkspacesOnBooks'
  <2>1. WorkspacesOnBooks /\ model' = model /\ mounted' = mounted /\ committed' = committed
        /\ job_gen' = job_gen
    BY <1>1 DEF StorageInv
  <2>2. model = "pool" => committed' = WorkspaceOf(mounted')
    BY <2>1 DEF WorkspacesOnBooks
  <2>3. ASSUME model = "generational", NEW i \in 1..Len(gens)
        PROVE  /\ gens'[i].committed = WorkspaceOf({k \in mounted' : job_gen'[k] = i})
               /\ gens'[i].active_jobs = Cardinality({k \in mounted' : job_gen'[k] = i})
    BY <1>2, <1>3, <2>1, <2>3 DEF WorkspacesOnBooks
  <2>. QED  BY <1>1, <1>4, <2>1, <2>2, <2>3 DEF WorkspacesOnBooks
<1>. QED  BY <1>6, <1>7, <1>8 DEF StorageInv

-----------------------------------------------------------------------------
(* The solvers.  SumOver is a sum over jobs.                               *)
LEMMA SumOverIsAsked ==
  \A S, f : SumOver(S, f) = Asked(S, f, NumJobs)
BY DEF SumOver, Asked, Jobs

(* What the jobs ask of the CPU, and what the node has of it, are numbers. *)
LEMMA CpuConstants ==
  /\ NumJobs \in Nat /\ Jobs = 1..NumJobs
  /\ Physical \in Nat /\ Unit \in Nat \ {0} /\ Full \in Nat \ {0}
  /\ Soft \in [Jobs -> Nat \ {0}] /\ Hard \in [Jobs -> Nat \ {0}]
  /\ Declared \in [Jobs -> Nat \ {0}] /\ Soft \in [1..NumJobs -> Nat]
  /\ \A j \in Jobs : Soft[j] <= Hard[j]
BY NumJobsAssumption, CpuAssumption DEF Jobs

(* One more job.                                                           *)
LEMMA SumOverAdd ==
  ASSUME NEW A \in [1..NumJobs -> Nat], NEW V, NEW z \in 1..NumJobs, z \notin V
  PROVE  SumOver(V \cup {z}, A) = SumOver(V, A) + A[z]
<1>0. NumJobs \in Nat
  BY NumJobsAssumption
<1>1. Asked(V \cup {z}, A, NumJobs) = Asked(V, A, NumJobs) + A[z]
  BY <1>0, SumAdd
<1>. QED  BY <1>1, SumOverIsAsked

(* Sums of jobs, term by term.                                             *)
LEMMA SumOverType ==
  ASSUME NEW S, NEW A \in [1..NumJobs -> Nat]
  PROVE  SumOver(S, A) \in Nat
<1>1. NumJobs \in Nat
  BY NumJobsAssumption
<1>2. Asked(S, A, NumJobs) \in Nat
  BY <1>1, SumType
<1>. QED  BY <1>2, SumOverIsAsked

LEMMA SumOverPlus ==
  ASSUME NEW S, NEW A \in [1..NumJobs -> Nat], NEW B \in [1..NumJobs -> Nat],
         NEW C \in [1..NumJobs -> Nat],
         \A k \in 1..NumJobs : k \in S => C[k] = A[k] + B[k]
  PROVE  SumOver(S, C) = SumOver(S, A) + SumOver(S, B)
<1>1. NumJobs \in Nat
  BY NumJobsAssumption
<1>2. Asked(S, C, NumJobs) = Asked(S, A, NumJobs) + Asked(S, B, NumJobs)
  BY <1>1, SumPlus
<1>. QED  BY <1>2, SumOverIsAsked

LEMMA SumOverTimes ==
  ASSUME NEW S, NEW A \in [1..NumJobs -> Nat], NEW c \in Nat,
         NEW B \in [1..NumJobs -> Nat],
         \A k \in 1..NumJobs : k \in S => B[k] = c * A[k]
  PROVE  SumOver(S, B) = c * SumOver(S, A)
<1>1. NumJobs \in Nat
  BY NumJobsAssumption
<1>2. Asked(S, B, NumJobs) = c * Asked(S, A, NumJobs)
  BY <1>1, SumTimes
<1>. QED  BY <1>2, SumOverIsAsked

LEMMA SumOverBelow ==
  ASSUME NEW S, NEW A \in [1..NumJobs -> Nat], NEW B \in [1..NumJobs -> Nat],
         \A k \in 1..NumJobs : k \in S => A[k] <= B[k]
  PROVE  SumOver(S, A) <= SumOver(S, B)
<1>1. NumJobs \in Nat
  BY NumJobsAssumption
<1>2. Asked(S, A, NumJobs) <= Asked(S, B, NumJobs)
  BY <1>1, SumBelow
<1>. QED  BY <1>2, SumOverIsAsked

LEMMA SumOverMonotone ==
  ASSUME NEW S, NEW T, S \subseteq T, NEW A \in [1..NumJobs -> Nat]
  PROVE  SumOver(S, A) <= SumOver(T, A)
<1>1. NumJobs \in Nat
  BY NumJobsAssumption
<1>2. Asked(S, A, NumJobs) <= Asked(T, A, NumJobs)
  BY <1>1, SumMonotone
<1>. QED  BY <1>2, SumOverIsAsked

(* The efficiency of a job is a part of Full.                              *)
LEMMA EffType ==
  ASSUME NEW ph, NEW j \in Jobs
  PROVE  Eff(ph, j) \in Nat /\ Eff(ph, j) <= Full
<1>1. Full \div Soft[j] \in Nat /\ Full \div Soft[j] <= Full
  <2>1. Soft[j] \in Nat \ {0} /\ Full \in Nat
    BY CpuConstants
  <2>2. Full \div Soft[j] \in Nat
    BY <2>1, DivBounds
  <2>3. Full <= Full * Soft[j]
    <3>1. 1 * Full <= Soft[j] * Full
      BY <2>1, TimesMonotone
    <3>. QED  BY <2>1, <3>1
  <2>. QED  BY <2>1, <2>2, <2>3, DivAtMost
<1>2. Efficiency[j] \in Nat /\ Efficiency[j] <= Full
  BY CpuAssumption
<1>. QED  BY <1>1, <1>2 DEF Eff

HeadroomOf(ph) == [k \in Jobs |-> Headroom(ph, k)]
ReturnOf(ph) == [j \in Jobs |-> (Unit * Soft[j] * (Full - Eff(ph, j))) \div Full]
SoftParts == [j \in Jobs |-> Unit * Soft[j]]

(* The terms of the auction are naturals.                                  *)
LEMMA AuctionTypes ==
  ASSUME NEW ph
  PROVE  /\ HeadroomOf(ph) \in [1..NumJobs -> Nat]
         /\ ReturnOf(ph) \in [1..NumJobs -> Nat]
         /\ SoftParts \in [1..NumJobs -> Nat]
         /\ \A sl : Surplus(ph, sl) \in Nat
         /\ \A j \in Jobs : StageThreads(ph, j) \in Nat
<1>1. ASSUME NEW j \in Jobs
      PROVE  /\ StageThreads(ph, j) \in Nat
             /\ Unit * Soft[j] \in Nat
             /\ Unit * (Hard[j] - Soft[j]) \in Nat
             /\ Unit * Pos(Physical - Soft[j]) \in Nat
  <2>1. /\ Soft[j] \in Nat /\ Hard[j] \in Nat /\ Declared[j] \in Nat /\ Soft[j] <= Hard[j]
        /\ Unit \in Nat /\ Physical \in Nat
    BY CpuConstants
  <2>2. Hard[j] - Soft[j] \in Nat /\ Pos(Physical - Soft[j]) \in Nat
    BY <2>1 DEF Pos
  <2>3. (IF ph[j] = "workhorse" THEN Declared[j] ELSE 1) \in Nat
    BY <2>1
  <2>4. \A x \in Nat : Unit * x \in Nat
    BY <2>1
  <2>. QED  BY <2>1, <2>2, <2>3, <2>4 DEF StageThreads
<1>2. ASSUME NEW j \in Jobs PROVE Headroom(ph, j) \in Nat
  BY <1>1 DEF Headroom, Least, Pos
<1>3. ASSUME NEW j \in Jobs
      PROVE  (Unit * Soft[j] * (Full - Eff(ph, j))) \div Full \in Nat
  <2>1. Full - Eff(ph, j) \in Nat
    BY EffType, CpuConstants
  <2>2. Unit * Soft[j] * (Full - Eff(ph, j)) \in Nat
    BY <1>1, <2>1
  <2>. QED  BY <2>2, CpuConstants, DivBounds
<1>4. /\ HeadroomOf(ph) \in [1..NumJobs -> Nat]
      /\ ReturnOf(ph) \in [1..NumJobs -> Nat]
      /\ SoftParts \in [1..NumJobs -> Nat]
  BY <1>1, <1>2, <1>3, CpuConstants DEF HeadroomOf, ReturnOf, SoftParts
<1>5. ASSUME NEW sl PROVE Surplus(ph, sl) \in Nat
  <2>1. SumOver(Range(sl), Soft) \in Nat /\ SumOver(Range(sl), ReturnOf(ph)) \in Nat
    BY <1>4, CpuConstants, SumOverIsAsked, SumType
  <2>2. Pos(Unit * Physical - Unit * SumOver(Range(sl), Soft)) \in Nat
    BY <2>1, CpuConstants DEF Pos
  <2>. QED  BY <2>1, <2>2 DEF Surplus, ReturnOf
<1>. QED  BY <1>1, <1>4, <1>5

Slotted(sl) == /\ sl \in Seq(Jobs)
               /\ \A i, k \in 1..Len(sl) : sl[i] = sl[k] => i = k

PlaceIn(sl, j) == CHOOSE i \in DOMAIN sl : sl[i] = j

(* The jobs that the auction serves before job j.                          *)
Earlier(ph, sl, j) == {sl[k] : k \in {k \in DOMAIN sl : ServedBefore(ph, sl, k, PlaceIn(sl, j))}}

(* What the auction grants.                                                *)
GrantOf(ph, sl) ==
  [j \in Jobs |-> Least(Headroom(ph, j),
                        Pos(Surplus(ph, sl) - SumOver(Earlier(ph, sl, j), HeadroomOf(ph))))]

LEMMA GreedyGrants ==
  ASSUME NEW ph, NEW sl
  PROVE  Greedy(ph, sl) = [j \in Jobs |-> IF j \notin Range(sl) THEN 0
                                          ELSE Unit * Soft[j] + GrantOf(ph, sl)[j]]
BY DEF Greedy, GrantOf, Earlier, PlaceIn, HeadroomOf

LEMMA GrantType ==
  ASSUME NEW ph, NEW sl
  PROVE  /\ GrantOf(ph, sl) \in [1..NumJobs -> Nat]
         /\ \A j \in Jobs : GrantOf(ph, sl)[j] <= Headroom(ph, j)
         /\ \A S : SumOver(S, HeadroomOf(ph)) \in Nat /\ SumOver(S, GrantOf(ph, sl)) \in Nat
<1>1. \A S : SumOver(S, HeadroomOf(ph)) \in Nat
  BY AuctionTypes, CpuConstants, SumOverIsAsked, SumType
<1>2. ASSUME NEW j \in Jobs
      PROVE  GrantOf(ph, sl)[j] \in Nat /\ GrantOf(ph, sl)[j] <= Headroom(ph, j)
  <2>1. Headroom(ph, j) \in Nat /\ Surplus(ph, sl) \in Nat
        /\ SumOver(Earlier(ph, sl, j), HeadroomOf(ph)) \in Nat
    BY <1>1, AuctionTypes, CpuConstants DEF HeadroomOf
  <2>. QED  BY <2>1 DEF GrantOf, Least, Pos
<1>3. GrantOf(ph, sl) \in [1..NumJobs -> Nat]
  BY <1>2, CpuConstants DEF GrantOf
<1>4. \A S : SumOver(S, GrantOf(ph, sl)) \in Nat
  BY <1>3, CpuConstants, SumOverIsAsked, SumType
<1>. QED  BY <1>1, <1>2, <1>3, <1>4

(* A job's place in the list of slots.                                     *)
LEMMA PlaceOf ==
  ASSUME NEW sl, Slotted(sl)
  PROVE  /\ \A j \in Range(sl) : PlaceIn(sl, j) \in 1..Len(sl) /\ sl[PlaceIn(sl, j)] = j
         /\ \A i \in 1..Len(sl) : sl[i] \in Range(sl) /\ PlaceIn(sl, sl[i]) = i
         /\ Range(sl) \subseteq Jobs
         /\ IsFiniteSet(Range(sl))
<1>1. DOMAIN sl = 1..Len(sl) /\ \A i \in 1..Len(sl) : sl[i] \in Jobs
  BY DEF Slotted
<1>2. \A j \in Range(sl) : PlaceIn(sl, j) \in 1..Len(sl) /\ sl[PlaceIn(sl, j)] = j
  BY <1>1 DEF PlaceIn, Range
<1>3. \A i \in 1..Len(sl) : sl[i] \in Range(sl)
  BY <1>1 DEF Range
<1>4. \A i \in 1..Len(sl) : PlaceIn(sl, sl[i]) = i
  BY <1>2, <1>3 DEF Slotted
<1>5. Range(sl) \subseteq Jobs
  BY <1>1 DEF Range
<1>6. IsFiniteSet(Jobs)
  BY CpuConstants, FS_Interval
<1>7. IsFiniteSet(Range(sl))
  BY <1>5, <1>6, FS_Subset
<1>. QED  BY <1>2, <1>3, <1>4, <1>5, <1>7

(* A list of slots has a slot for each of its jobs.                        *)
LEMMA SlottedCount ==
  ASSUME NEW sl, Slotted(sl)
  PROVE  Len(sl) = Cardinality(Range(sl))
<1> DEFINE n == Len(sl)
           f == [i \in 1..n |-> sl[i]]
<1>1. n \in Nat /\ \A i \in 1..n : sl[i] \in Range(sl)
  BY PlaceOf DEF Slotted
<1>2. f \in Bijection(1..n, Range(sl))
  <2>1. f \in [1..n -> Range(sl)]
    BY <1>1
  <2>2. \A a, b \in 1..n : f[a] = f[b] => a = b
    BY DEF Slotted
  <2>3. \A x \in Range(sl) : \E i \in 1..n : f[i] = x
    BY PlaceOf
  <2>. QED  BY <2>1, <2>2, <2>3, Fun_IsBij
<1>3. ExistsBijection(1..n, Range(sl))
  BY <1>2 DEF ExistsBijection
<1>. QED  BY <1>1, <1>3, FS_CountingElements

(* A new job takes the last slot.                                          *)
LEMMA AppendSlot ==
  ASSUME NEW sl, Slotted(sl), NEW j \in Jobs, j \notin Range(sl)
  PROVE  Slotted(Append(sl, j)) /\ Range(Append(sl, j)) = Range(sl) \cup {j}
<1> DEFINE n == Len(sl)
           s == Append(sl, j)
<1>1. /\ n \in Nat /\ \A i \in 1..n : sl[i] \in Range(sl)
      /\ \A k \in Range(sl) : PlaceIn(sl, k) \in 1..n /\ sl[PlaceIn(sl, k)] = k
  BY PlaceOf DEF Slotted
<1>2. /\ s \in Seq(Jobs) /\ Len(s) = n + 1 /\ DOMAIN s = 1..(n+1)
      /\ s[n+1] = j /\ \A i \in 1..n : s[i] = sl[i]
  BY DEF Slotted
<1> HIDE DEF s
<1>3. Slotted(s)
  <2> SUFFICES ASSUME NEW i \in 1..(n+1), NEW k \in 1..(n+1), s[i] = s[k] PROVE i = k
    BY <1>2 DEF Slotted
  <2>1. CASE i \in 1..n /\ k \in 1..n
    BY <1>2, <2>1 DEF Slotted
  <2>2. CASE i = n+1 \/ k = n+1
    <3>1. \A m \in 1..n : s[m] # j
      BY <1>1, <1>2
    <3>. QED  BY <1>1, <1>2, <2>2, <3>1
  <2>. QED  BY <1>1, <2>1, <2>2
<1>4. Range(s) = {s[i] : i \in 1..(n+1)}
  BY <1>2 DEF Range
<1>5. \A k \in Range(s) : k \in Range(sl) \cup {j}
  <2> SUFFICES ASSUME NEW i \in 1..(n+1) PROVE s[i] \in Range(sl) \cup {j}
    BY <1>4
  <2>1. i \in 1..n \/ i = n+1
    BY <1>1
  <2>. QED  BY <1>1, <1>2, <2>1
<1>6. j \in Range(s)
  <2>1. n+1 \in 1..(n+1)
    BY <1>1
  <2>. QED  BY <1>2, <1>4, <2>1
<1>7. \A k \in Range(sl) : k \in Range(s)
  <2> SUFFICES ASSUME NEW k \in Range(sl) PROVE k \in Range(s)
    OBVIOUS
  <2>1. PlaceIn(sl, k) \in 1..(n+1) /\ s[PlaceIn(sl, k)] = k
    BY <1>1, <1>2
  <2>. QED  BY <1>4, <2>1
<1>. QED  BY <1>3, <1>5, <1>6, <1>7 DEF s

(* A slot that is given back: the others keep their order.                 *)
LEMMA RemoveSlot ==
  ASSUME NEW sl, Slotted(sl), NEW x \in Range(sl)
  PROVE  LET s == RemoveAt(sl, PlaceIn(sl, x))
         IN  /\ Slotted(s)
             /\ Range(s) = Range(sl) \ {x}
             /\ \A j, k \in Range(s) :
                  PlaceIn(s, j) < PlaceIn(s, k) <=> PlaceIn(sl, j) < PlaceIn(sl, k)
<1> DEFINE n == Len(sl)
           i == PlaceIn(sl, x)
           s == RemoveAt(sl, i)
           At(k) == IF PlaceIn(sl, k) < i THEN PlaceIn(sl, k) ELSE PlaceIn(sl, k) - 1
<1>1. /\ n \in Nat /\ i \in 1..n /\ sl[i] = x /\ sl \in Seq(Jobs)
      /\ \A m \in 1..n : sl[m] \in Range(sl) /\ PlaceIn(sl, sl[m]) = m
      /\ \A k \in Range(sl) : PlaceIn(sl, k) \in 1..n /\ sl[PlaceIn(sl, k)] = k
      /\ \A a, b \in 1..n : sl[a] = sl[b] => a = b
  BY PlaceOf DEF Slotted
<1> HIDE DEF i
<1>2. /\ s \in Seq(Jobs) /\ Len(s) = n - 1
      /\ \A m \in 1..(i-1) : s[m] = sl[m]
      /\ \A m \in i..(n-1) : s[m] = sl[m+1]
  <2> DEFINE a == SubSeq(sl, 1, i-1)
             b == SubSeq(sl, i+1, n)
  <2>1. /\ a \in Seq(Jobs) /\ Len(a) = i-1 /\ \A m \in 1..(i-1) : a[m] = sl[m]
        /\ b \in Seq(Jobs) /\ Len(b) = n - i
        /\ \A m \in 1..(n - i) : b[m] = sl[i+m]
    BY <1>1
  <2>2. s = a \o b
    BY <1>1 DEF RemoveAt
  <2> HIDE DEF a, b, s
  <2>3. s \in Seq(Jobs) /\ Len(s) = n - 1
    <3>1. a \in Seq(Jobs) /\ b \in Seq(Jobs)
      BY <2>1
    <3>2. s \in Seq(Jobs) /\ Len(s) = Len(a) + Len(b)
      BY ONLY <2>2, <3>1
    <3>3. n \in Nat /\ i \in Nat /\ Len(a) = i-1 /\ Len(b) = n-i
      BY <1>1, <2>1
    <3>. QED  BY <3>2, <3>3
  <2>4. \A m \in 1..(i-1) : s[m] = sl[m]
    BY <1>1, <2>1, <2>2
  <2>5. ASSUME NEW m \in i..(n-1)
        PROVE  s[m] = sl[m+1]
    <3>1. m \in (Len(a)+1)..(Len(a)+Len(b)) /\ m - Len(a) = m - i + 1
      BY <1>1, <2>1
    <3>2. s[m] = b[m - i + 1]
      BY <1>1, <2>1, <2>2, <3>1
    <3>3. m - i + 1 \in 1..(n - i) /\ i + (m - i + 1) = m + 1
      BY <1>1
    <3>. QED  BY <2>1, <3>2, <3>3
  <2>. QED  BY <2>3, <2>4, <2>5
<1> HIDE DEF s
<1>3. \A m \in 1..(n-1) : \E p \in 1..n : p # i /\ s[m] = sl[p] /\ p = IF m < i THEN m ELSE m+1
  <2> SUFFICES ASSUME NEW m \in 1..(n-1)
               PROVE \E p \in 1..n : p # i /\ s[m] = sl[p] /\ p = IF m < i THEN m ELSE m+1
    OBVIOUS
  <2>1. CASE m < i
    <3>1. m \in 1..(i-1) /\ m \in 1..n /\ m # i
      BY <1>1, <2>1
    <3>. QED  BY <1>2, <2>1, <3>1
  <2>2. CASE ~(m < i)
    <3>1. m \in i..(n-1) /\ m+1 \in 1..n /\ m+1 # i
      BY <1>1, <2>2
    <3>. QED  BY <1>2, <2>2, <3>1
  <2>. QED  BY <2>1, <2>2
<1>4. Slotted(s)
  <2> SUFFICES ASSUME NEW a \in 1..(n-1), NEW b \in 1..(n-1), s[a] = s[b] PROVE a = b
    BY <1>2 DEF Slotted
  <2>1. PICK p \in 1..n : s[a] = sl[p] /\ p = IF a < i THEN a ELSE a+1
    BY <1>3
  <2>2. PICK q \in 1..n : s[b] = sl[q] /\ q = IF b < i THEN b ELSE b+1
    BY <1>3
  <2>3. p = q
    BY <1>1, <2>1, <2>2
  <2>. QED  BY <1>1, <2>1, <2>2, <2>3
<1>5. Range(s) = {s[m] : m \in 1..(n-1)}
  BY <1>1, <1>2 DEF Range
<1>6. \A k \in Range(s) : k \in Range(sl) \ {x}
  BY <1>1, <1>3, <1>5
<1>7. ASSUME NEW k \in Range(sl), k # x
      PROVE  At(k) \in 1..(n-1) /\ s[At(k)] = k
  <2>1. PlaceIn(sl, k) \in 1..n /\ sl[PlaceIn(sl, k)] = k /\ PlaceIn(sl, k) # i
    BY <1>1, <1>7
  <2>2. CASE PlaceIn(sl, k) < i
    <3>1. PlaceIn(sl, k) \in 1..(i-1) /\ PlaceIn(sl, k) \in 1..(n-1)
      BY <1>1, <2>1, <2>2
    <3>. QED  BY <1>2, <2>1, <2>2, <3>1
  <2>3. CASE PlaceIn(sl, k) > i
    <3>1. PlaceIn(sl, k) - 1 \in i..(n-1) /\ PlaceIn(sl, k) - 1 \in 1..(n-1)
          /\ (PlaceIn(sl, k) - 1) + 1 = PlaceIn(sl, k)
      BY <1>1, <2>1, <2>3
    <3>. QED  BY <1>1, <1>2, <2>1, <2>3, <3>1
  <2>. QED  BY <1>1, <2>1, <2>2, <2>3
<1>8. Range(s) = Range(sl) \ {x}
  <2>1. \A k \in Range(sl) \ {x} : k \in Range(s)
    BY <1>5, <1>7
  <2>. QED  BY <1>6, <2>1
<1>9. \A k \in Range(s) : PlaceIn(s, k) = At(k)
  <2> SUFFICES ASSUME NEW k \in Range(s) PROVE PlaceIn(s, k) = At(k)
    OBVIOUS
  <2>1. At(k) \in 1..(n-1) /\ s[At(k)] = k
    BY <1>7, <1>8
  <2>2. PlaceIn(s, s[At(k)]) = At(k)
    BY <1>2, <1>4, <2>1, PlaceOf
  <2>. QED  BY <2>1, <2>2
<1>10. ASSUME NEW j \in Range(s), NEW k \in Range(s)
       PROVE  PlaceIn(s, j) < PlaceIn(s, k) <=> PlaceIn(sl, j) < PlaceIn(sl, k)
  <2>1. /\ PlaceIn(sl, j) \in 1..n /\ sl[PlaceIn(sl, j)] = j /\ PlaceIn(sl, j) # i
        /\ PlaceIn(sl, k) \in 1..n /\ sl[PlaceIn(sl, k)] = k /\ PlaceIn(sl, k) # i
    BY <1>1, <1>8
  <2>2. PlaceIn(s, j) = At(j) /\ PlaceIn(s, k) = At(k)
    BY <1>9
  <2>. QED  BY <1>1, <2>1, <2>2
<1>. QED  BY <1>4, <1>8, <1>10 DEF s, i

(* The auction serves the jobs in a strict order.                          *)
LEMMA AuctionOrder ==
  ASSUME NEW ph, NEW sl, Slotted(sl)
  PROVE  /\ \A j \in Range(sl) : Earlier(ph, sl, j) \subseteq Range(sl) /\ j \notin Earlier(ph, sl, j)
         /\ \A i, j \in Range(sl) : i # j => i \in Earlier(ph, sl, j) \/ j \in Earlier(ph, sl, i)
         /\ \A i, j \in Range(sl) : i \in Earlier(ph, sl, j) => Earlier(ph, sl, i) \subseteq Earlier(ph, sl, j)
         /\ \A i, j \in Range(sl) : Eff(ph, i) > Eff(ph, j) => i \in Earlier(ph, sl, j)
         /\ \A i, j \in Range(sl) : i \in Earlier(ph, sl, j) <=>
              \/ Eff(ph, i) > Eff(ph, j)
              \/ Eff(ph, i) = Eff(ph, j) /\ PlaceIn(sl, i) < PlaceIn(sl, j)
<1>1. /\ \A j \in Range(sl) : PlaceIn(sl, j) \in 1..Len(sl) /\ sl[PlaceIn(sl, j)] = j
      /\ \A i \in 1..Len(sl) : sl[i] \in Range(sl) /\ PlaceIn(sl, sl[i]) = i
      /\ Range(sl) \subseteq Jobs /\ DOMAIN sl = 1..Len(sl) /\ Len(sl) \in Nat
  BY PlaceOf DEF Slotted
<1>2. \A j \in Range(sl) : Eff(ph, j) \in Nat
  BY <1>1, EffType
<1> DEFINE Before(i, j) == \/ Eff(ph, i) > Eff(ph, j)
                           \/ Eff(ph, i) = Eff(ph, j) /\ PlaceIn(sl, i) < PlaceIn(sl, j)
<1>3. \A j \in Range(sl) : Earlier(ph, sl, j) = {i \in Range(sl) : Before(i, j)}
  <2> SUFFICES ASSUME NEW j \in Range(sl)
               PROVE Earlier(ph, sl, j) = {i \in Range(sl) : Before(i, j)}
    OBVIOUS
  <2>1. \A k \in 1..Len(sl) : ServedBefore(ph, sl, k, PlaceIn(sl, j)) <=> Before(sl[k], j)
    BY <1>1 DEF ServedBefore
  <2>2. Earlier(ph, sl, j) = {sl[k] : k \in {k \in 1..Len(sl) : Before(sl[k], j)}}
    BY <1>1, <2>1 DEF Earlier
  <2> HIDE DEF Before
  <2>3. \A i \in Range(sl) : i = sl[PlaceIn(sl, i)] /\ PlaceIn(sl, i) \in 1..Len(sl)
    BY <1>1
  <2>. QED  BY <1>1, <2>2, <2>3
<1>4. \A i, j, k \in Range(sl) : Before(i, j) /\ Before(j, k) => Before(i, k)
  BY <1>1, <1>2
<1>5. \A i, j \in Range(sl) : i # j => Before(i, j) \/ Before(j, i)
  BY <1>1, <1>2
<1>6. \A j \in Range(sl) : ~Before(j, j)
  BY <1>1, <1>2
<1>7. \A i, j \in Range(sl) : Eff(ph, i) > Eff(ph, j) => Before(i, j)
  OBVIOUS
<1>8. \A i, j \in Range(sl) : i \in Earlier(ph, sl, j) <=> Before(i, j)
  <2> HIDE DEF Before
  <2>. QED  BY <1>3
<1>9. \A i, j \in Range(sl) : i \in Earlier(ph, sl, j) => Earlier(ph, sl, i) \subseteq Earlier(ph, sl, j)
  <2> HIDE DEF Before
  <2>. QED  BY <1>3, <1>4
<1>10. \A j \in Range(sl) : Earlier(ph, sl, j) \subseteq Range(sl) /\ j \notin Earlier(ph, sl, j)
  <2> HIDE DEF Before
  <2>. QED  BY <1>3, <1>6
<1>. QED  BY <1>5, <1>7, <1>8, <1>9, <1>10

(* The first jobs in the order of the auction are granted all they can use *)
(* or all there is.                                                        *)
LEMMA AuctionGrants ==
  ASSUME NEW ph, NEW sl, Slotted(sl), NEW T \in SUBSET Range(sl),
         \A j \in T : Earlier(ph, sl, j) \subseteq T
  PROVE  SumOver(T, GrantOf(ph, sl)) = Least(Surplus(ph, sl), SumOver(T, HeadroomOf(ph)))
<1> DEFINE g == GrantOf(ph, sl)
           H == HeadroomOf(ph)
           S == Surplus(ph, sl)
           R == {p \in Range(sl) \X Range(sl) : p[1] = p[2] \/ p[2] \in Earlier(ph, sl, p[1])}
           Closed(U) == \A j \in U : Earlier(ph, sl, j) \subseteq U
           N == {m \in Nat : \A U \in SUBSET Range(sl) : Cardinality(U) = m /\ Closed(U) =>
                               SumOver(U, g) = Least(S, SumOver(U, H))}
<1>1. /\ H \in [1..NumJobs -> Nat] /\ g \in [1..NumJobs -> Nat] /\ S \in Nat
      /\ \A U : SumOver(U, H) \in Nat /\ SumOver(U, g) \in Nat
      /\ NumJobs \in Nat
  BY AuctionTypes, GrantType, CpuConstants
<1>2. IsFiniteSet(Range(sl)) /\ Range(sl) \subseteq 1..NumJobs
  BY PlaceOf, CpuConstants
<1>3. \A j \in Range(sl) : g[j] = Least(H[j], Pos(S - SumOver(Earlier(ph, sl, j), H)))
  BY <1>2, CpuConstants DEF GrantOf, HeadroomOf
<1> HIDE DEF g, H, S
<1>4. 0 \in N
  <2> SUFFICES ASSUME NEW U \in SUBSET Range(sl), Cardinality(U) = 0
               PROVE  SumOver(U, g) = Least(S, SumOver(U, H))
    OBVIOUS
  <2>1. U = {}
    BY <1>2, FS_Subset, FS_EmptySet
  <2>2. SumOver({}, g) = 0 /\ SumOver({}, H) = 0
    BY <1>1, SumOverIsAsked, SumEmpty
  <2>. QED  BY <1>1, <2>1, <2>2 DEF Least
<1>5. ASSUME NEW m \in Nat, m \in N PROVE m+1 \in N
  <2> SUFFICES ASSUME NEW U \in SUBSET Range(sl), Cardinality(U) = m+1, Closed(U)
               PROVE  SumOver(U, g) = Least(S, SumOver(U, H))
    OBVIOUS
  <2>1. IsFiniteSet(U) /\ U # {}
    BY <1>2, FS_Subset, FS_EmptySet
  <2>2. PICK z \in U : \A y \in U : <<z, y>> \in R
    <3>1. \A x, y \in U : <<x, y>> \in R \/ <<y, x>> \in R
      BY AuctionOrder
    <3>2. ASSUME NEW x \in U, NEW y \in U, NEW w \in U, <<x, y>> \in R, <<y, w>> \in R
          PROVE  <<x, w>> \in R
      <4>1. (x = y \/ y \in Earlier(ph, sl, x)) /\ (y = w \/ w \in Earlier(ph, sl, y))
        BY <3>2
      <4>2. x = w \/ w \in Earlier(ph, sl, x)
        BY <4>1, AuctionOrder
      <4>. QED  BY <4>2
    <3> HIDE DEF R
    <3>. QED  BY <2>1, <3>1, <3>2, GreatestExists
  <2> DEFINE V == U \ {z}
  <2>3. Earlier(ph, sl, z) = V
    <3>1. Earlier(ph, sl, z) \subseteq V
      BY AuctionOrder
    <3>2. \A y \in V : y \in Earlier(ph, sl, z)
      BY <2>2
    <3>. QED  BY <3>1, <3>2
  <2>4. Closed(V) /\ V \in SUBSET Range(sl)
    <3>1. ASSUME NEW y \in V PROVE z \notin Earlier(ph, sl, y)
      <4>1. y \in Earlier(ph, sl, z)
        BY <2>3
      <4>2. Earlier(ph, sl, y) \subseteq Earlier(ph, sl, z) /\ z \notin Earlier(ph, sl, z)
        BY <4>1, AuctionOrder
      <4>. QED  BY <4>2
    <3>. QED  BY <3>1
  <2>5. Cardinality(V) = m
    <3>1. Cardinality(U \ {z}) = Cardinality(U) - 1
      BY <2>1, FS_RemoveElement
    <3>. QED  BY <3>1
  <2>6. SumOver(V, g) = Least(S, SumOver(V, H))
    <3> HIDE DEF V, Closed
    <3>. QED  BY <1>5, <2>4, <2>5
  <2>7. U = V \cup {z} /\ z \notin V /\ z \in 1..NumJobs
    BY <1>2
  <2> HIDE DEF V
  <2>8. SumOver(U, g) = SumOver(V, g) + g[z] /\ SumOver(U, H) = SumOver(V, H) + H[z]
    <3>1. SumOver(V \cup {z}, g) = SumOver(V, g) + g[z]
      BY <1>1, <2>7, SumOverAdd
    <3>2. SumOver(V \cup {z}, H) = SumOver(V, H) + H[z]
      BY <1>1, <2>7, SumOverAdd
    <3>. QED  BY <2>7, <3>1, <3>2
  <2>9. g[z] = Least(H[z], Pos(S - SumOver(V, H)))
    BY <1>3, <2>3
  <2>10. H[z] \in Nat /\ g[z] \in Nat /\ SumOver(V, H) \in Nat /\ SumOver(V, g) \in Nat
    BY <1>1, <2>7
  <2>. QED  BY <1>1, <2>6, <2>8, <2>9, <2>10 DEF Least, Pos
<1>6. Cardinality(T) \in Nat /\ Cardinality(T) \in N
  <2>1. Cardinality(T) \in Nat
    BY <1>2, FS_Subset, FS_CardinalityType
  <2> HIDE DEF N
  <2>2. Nat \subseteq N
    BY <1>4, <1>5, NatSetInduction
  <2>. QED  BY <2>1, <2>2
<1>. QED  BY <1>6 DEF g, H, S

(* What job j works with of its request and grant, and what it returns of  *)
(* its request, are no more than the two.                                  *)
LEMMA EffectivePart ==
  ASSUME NEW ph, NEW alloc \in [Jobs -> Nat], NEW j \in Jobs
  PROVE  /\ Effective(alloc, ph, j) \in Nat
         /\ Effective(alloc, ph, j) <= alloc[j]
         /\ \A g \in Nat : alloc[j] = Unit * Soft[j] + g =>
              Effective(alloc, ph, j) + ReturnOf(ph)[j] <= Unit * Soft[j] + g
<1> DEFINE e == Eff(ph, j)
           a == alloc[j]
           u == Unit * Soft[j]
           x == (a * e) \div Full
           y == (u * (Full - e)) \div Full
<1>1. /\ e \in Nat /\ e <= Full /\ Full - e \in Nat /\ Full \in Nat \ {0} /\ a \in Nat /\ u \in Nat
  <2>1. e \in Nat /\ e <= Full /\ Full \in Nat \ {0} /\ u \in Nat /\ a \in Nat
    BY EffType, CpuConstants
  <2> HIDE DEF e, u, a
  <2>. QED  BY <2>1
<1>2. x = Effective(alloc, ph, j) /\ y = ReturnOf(ph)[j]
  BY DEF Effective, ReturnOf
<1> HIDE DEF e, u, a
<1>3. a * e \in Nat /\ u * (Full - e) \in Nat
  BY <1>1
<1>4. /\ x \in Nat /\ x * Full <= a * e
      /\ y \in Nat /\ y * Full <= u * (Full - e)
  BY <1>1, <1>3, DivBounds
<1>5. a * e <= a * Full
  <2>1. e * a <= Full * a
    BY <1>1, TimesMonotone
  <2>. QED  BY <1>1, <2>1
<1>6. x <= a
  BY <1>1, <1>3, <1>5, DivAtMost
<1>7. ASSUME NEW g \in Nat, a = u + g
      PROVE  x + y <= u + g
  <2> HIDE DEF x, y
  <2>1. SUFFICES ASSUME u + g < x + y PROVE FALSE
    BY <1>1, <1>4
  <2>2. (u + g) * Full < (x + y) * Full
    BY <1>1, <1>4, <2>1, TimesStrict
  <2>3. (x + y) * Full = x * Full + y * Full
    BY <1>1, <1>4, SMT
  <2>4. a * e = u * e + g * e
    BY <1>1, <1>7, SMT
  <2>5. u * (Full - e) = u * Full - u * e
    BY <1>1, SMT
  <2>6. g * e <= g * Full
    <3>1. e * g <= Full * g
      BY <1>1, TimesMonotone
    <3>. QED  BY <1>1, <3>1
  <2>7. (u + g) * Full = u * Full + g * Full
    BY <1>1, SMT
  <2>8. /\ x * Full \in Int /\ y * Full \in Int /\ u * Full \in Int /\ g * Full \in Int
        /\ u * e \in Int /\ g * e \in Int
    BY <1>1, <1>4
  <2>9. x * Full <= u * e + g * e /\ y * Full <= u * Full - u * e
    BY <1>4, <2>4, <2>5
  <2> HIDE DEF u
  <2>. QED  BY ONLY <2>2, <2>3, <2>6, <2>7, <2>8, <2>9
<1>. QED  BY <1>2, <1>4, <1>6, <1>7 DEF a, u

(* What the auction gives a job to work with is a number of parts.         *)
LEMMA GreedyType ==
  ASSUME NEW ph, NEW sl
  PROVE  /\ Greedy(ph, sl) \in [Jobs -> Nat]
         /\ \A j \in Jobs : Effective(Greedy(ph, sl), ph, j) \in Nat
<1> DEFINE on == Range(sl)
           alloc == Greedy(ph, sl)
<1>1. alloc = [j \in Jobs |-> IF j \notin on THEN 0 ELSE Unit * Soft[j] + GrantOf(ph, sl)[j]]
  BY GreedyGrants
<1>2. \A j \in Jobs : Unit * Soft[j] \in Nat /\ GrantOf(ph, sl)[j] \in Nat
  BY GrantType, CpuConstants
<1>3. \A j \in Jobs : (IF j \notin on THEN 0 ELSE Unit * Soft[j] + GrantOf(ph, sl)[j]) \in Nat
  <2> SUFFICES ASSUME NEW j \in Jobs PROVE Unit * Soft[j] + GrantOf(ph, sl)[j] \in Nat
    OBVIOUS
  <2>1. Unit * Soft[j] \in Nat /\ GrantOf(ph, sl)[j] \in Nat
    BY <1>2
  <2>. QED  BY ONLY <2>1
<1> HIDE DEF alloc, on
<1>4. alloc \in [Jobs -> Nat]
  BY ONLY <1>1, <1>3
<1>5. \A j \in Jobs : Effective(alloc, ph, j) \in Nat
  BY <1>4, EffectivePart
<1>. QED  BY <1>4, <1>5 DEF alloc

(* A job never returns more than it has reserved.                          *)
LEMMA ReturnBelow ==
  ASSUME NEW ph, NEW j \in Jobs
  PROVE  ReturnOf(ph)[j] <= Unit * Soft[j]
<1> DEFINE e == Eff(ph, j)
           u == Unit * Soft[j]
<1>1. e \in Nat /\ e <= Full /\ Full \in Nat \ {0} /\ u \in Nat
  BY EffType, CpuConstants
<1>2. ReturnOf(ph)[j] = (u * (Full - e)) \div Full
  BY DEF ReturnOf
<1> HIDE DEF e, u
<1>3. Full - e \in Nat /\ Full - e <= Full
  BY <1>1
<1>4. (Full - e) * u <= Full * u
  BY <1>1, <1>3, TimesMonotone
<1>5. u * (Full - e) \in Nat /\ u * (Full - e) <= u * Full
  <2>1. u * (Full - e) = (Full - e) * u /\ u * Full = Full * u
    BY <1>1
  <2>2. (Full - e) * u \in Nat
    BY <1>1, <1>3
  <2>. QED  BY <1>4, <2>1, <2>2
<1>6. (u * (Full - e)) \div Full <= u
  BY <1>1, <1>5, DivAtMost
<1>. QED  BY <1>2, <1>6 DEF u

(* What there is to grant, on a node that has room for its jobs' requests. *)
LEMMA SurplusIs ==
  ASSUME NEW ph, NEW sl, SumOver(Range(sl), Soft) <= Physical
  PROVE  Surplus(ph, sl) =
           Unit * Physical - Unit * SumOver(Range(sl), Soft) + SumOver(Range(sl), ReturnOf(ph))
<1> DEFINE on == Range(sl)
<1>1. Soft \in [1..NumJobs -> Nat] /\ Unit \in Nat /\ Physical \in Nat
  BY CpuConstants
<1>2. SumOver(on, Soft) \in Nat
  BY <1>1, SumOverType
<1>3. SumOver(on, Soft) * Unit <= Physical * Unit
  BY <1>1, <1>2, TimesMonotone
<1>4. Unit * Physical - Unit * SumOver(on, Soft) >= 0
  BY <1>1, <1>2, <1>3
<1>5. \A n \in Int : n >= 0 => Pos(n) = n
  BY DEF Pos
<1>6. Unit * Physical - Unit * SumOver(on, Soft) \in Int
  BY <1>1, <1>2
<1>7. Pos(Unit * Physical - Unit * SumOver(on, Soft))
        = Unit * Physical - Unit * SumOver(on, Soft)
  BY <1>4, <1>5, <1>6
<1>. QED  BY <1>7 DEF Surplus, ReturnOf

(* The shares the auction leads to fit the node, when the requests do.     *)
LEMMA GreedyFits ==
  ASSUME NEW ph, NEW sl, Slotted(sl), SumOver(Range(sl), Soft) <= Physical,
         NEW sh \in [1..NumJobs -> Nat],
         \A j \in Range(sl) : sh[j] = Effective(Greedy(ph, sl), ph, j)
  PROVE  SumOver(Range(sl), sh) <= Unit * Physical
<1> DEFINE on == Range(sl)
           g == GrantOf(ph, sl)
           r == ReturnOf(ph)
           alloc == Greedy(ph, sl)
           sum == [j \in 1..NumJobs |-> SoftParts[j] + g[j]]
           both == [j \in 1..NumJobs |-> sh[j] + r[j]]
<1>1. /\ g \in [1..NumJobs -> Nat] /\ r \in [1..NumJobs -> Nat]
      /\ SoftParts \in [1..NumJobs -> Nat] /\ Soft \in [1..NumJobs -> Nat]
      /\ NumJobs \in Nat /\ Jobs = 1..NumJobs
      /\ Unit \in Nat /\ Physical \in Nat
  BY AuctionTypes, GrantType, CpuConstants
<1>0. \A k \in 1..NumJobs : k \in on => SoftParts[k] = Unit * Soft[k]
  BY <1>1 DEF SoftParts
<1>2. on \subseteq 1..NumJobs
  BY <1>1, PlaceOf
<1>3. alloc \in [Jobs -> Nat] /\ \A j \in on : alloc[j] = Unit * Soft[j] + g[j]
  <2>1. alloc = [j \in Jobs |-> IF j \notin on THEN 0 ELSE Unit * Soft[j] + g[j]]
    BY GreedyGrants
  <2>2. \A j \in Jobs : (IF j \notin on THEN 0 ELSE Unit * Soft[j] + g[j]) \in Nat
    <3> SUFFICES ASSUME NEW j \in Jobs PROVE Unit * Soft[j] + g[j] \in Nat
      OBVIOUS
    <3>1. SoftParts[j] \in Nat /\ g[j] \in Nat /\ SoftParts[j] = Unit * Soft[j]
      BY <1>1 DEF SoftParts
    <3>. QED  BY <3>1
  <2>3. \A j \in on : j \in Jobs
    BY <1>1, <1>2
  <2> HIDE DEF on, g, alloc
  <2>. QED  BY <2>1, <2>2, <2>3
<1> HIDE DEF g, r, alloc
<1>4. \A j \in on : sh[j] + r[j] <= SoftParts[j] + g[j]
  <2> SUFFICES ASSUME NEW j \in on PROVE sh[j] + r[j] <= SoftParts[j] + g[j]
    OBVIOUS
  <2>1. j \in Jobs /\ g[j] \in Nat /\ alloc[j] = Unit * Soft[j] + g[j]
    BY <1>1, <1>2, <1>3
  <2>2. Effective(alloc, ph, j) + ReturnOf(ph)[j] <= Unit * Soft[j] + g[j]
    BY <1>3, <2>1, EffectivePart
  <2>3. SoftParts[j] = Unit * Soft[j]
    BY <2>1 DEF SoftParts
  <2>. QED  BY <1>1, <2>1, <2>2, <2>3 DEF alloc, r
<1>5. sum \in [1..NumJobs -> Nat] /\ both \in [1..NumJobs -> Nat]
      /\ (\A k \in 1..NumJobs : k \in on => sum[k] = SoftParts[k] + g[k])
      /\ (\A k \in 1..NumJobs : k \in on => both[k] = sh[k] + r[k])
  <2>1. \A j \in 1..NumJobs : SoftParts[j] + g[j] \in Nat
    BY <1>1
  <2>2. \A j \in 1..NumJobs : sh[j] + r[j] \in Nat
    BY <1>1
  <2>. QED  BY <2>1, <2>2
<1> HIDE DEF sum, both
<1>6. SumOver(on, both) <= SumOver(on, sum)
  <2>1. \A k \in 1..NumJobs : k \in on => both[k] <= sum[k]
    BY <1>4, <1>5
  <2>. QED  BY <1>5, <2>1, SumOverBelow
<1>7. SumOver(on, both) = SumOver(on, sh) + SumOver(on, r)
  <2>1. /\ both \in [1..NumJobs -> Nat] /\ sh \in [1..NumJobs -> Nat] /\ r \in [1..NumJobs -> Nat]
        /\ \A k \in 1..NumJobs : k \in on => both[k] = sh[k] + r[k]
    BY <1>1, <1>5
  <2> HIDE DEF on
  <2>. QED  BY ONLY <2>1, SumOverPlus
<1>8. SumOver(on, sum) = SumOver(on, SoftParts) + SumOver(on, g)
  <2>1. /\ sum \in [1..NumJobs -> Nat] /\ SoftParts \in [1..NumJobs -> Nat]
        /\ g \in [1..NumJobs -> Nat]
        /\ \A k \in 1..NumJobs : k \in on => sum[k] = SoftParts[k] + g[k]
    BY <1>1, <1>5
  <2> HIDE DEF on
  <2>. QED  BY ONLY <2>1, SumOverPlus
<1>9. SumOver(on, SoftParts) = Unit * SumOver(on, Soft)
  BY <1>0, <1>1, SumOverTimes
<1>10. SumOver(on, g) <= Surplus(ph, sl)
  <2>1. SumOver(on, g) = Least(Surplus(ph, sl), SumOver(on, HeadroomOf(ph)))
    BY AuctionGrants, AuctionOrder DEF g
  <2>2. Surplus(ph, sl) \in Nat /\ SumOver(on, HeadroomOf(ph)) \in Nat
    BY AuctionTypes, GrantType
  <2>. QED  BY <2>1, <2>2 DEF Least
<1>11. Surplus(ph, sl) = Unit * Physical - Unit * SumOver(on, Soft) + SumOver(on, r)
  BY SurplusIs DEF r
<1>12. /\ SumOver(on, sh) \in Nat /\ SumOver(on, r) \in Nat /\ SumOver(on, g) \in Nat
       /\ Unit * SumOver(on, Soft) \in Nat /\ Unit * Physical \in Nat
  <2>1. /\ SumOver(on, sh) \in Nat /\ SumOver(on, r) \in Nat /\ SumOver(on, g) \in Nat
        /\ SumOver(on, Soft) \in Nat
    BY <1>1, SumOverIsAsked, SumType
  <2>. QED  BY <1>1, <2>1
<1>. QED  BY <1>6, <1>7, <1>8, <1>9, <1>10, <1>11, <1>12

(* The state of the rounds of _distribute_proportional_cfs: nothing is     *)
(* handed out that the node does not have.                                 *)
Rounds == {r \in [alloc : [Jobs -> Nat], remaining : Nat, unsaturated : SUBSET Jobs] :
             SumOver(Jobs, r.alloc) + r.remaining = Unit * Physical}

LEMMA RoundType ==
  ASSUME NEW ph, NEW r \in Rounds
  PROVE  Round(r, ph) \in Rounds
<1> DEFINE U == r.unsaturated
           R == r.remaining
           shares == SumOver(U, Soft)
           part == [j \in Jobs |-> (R * Soft[j]) \div shares]
           want == [j \in Jobs |-> r.alloc[j] + (R * Soft[j]) \div shares]
           full == {j \in U : want[j] >= StageThreads(ph, j)}
           after == [j \in Jobs |-> IF j \in full THEN StageThreads(ph, j)
                                    ELSE IF j \in U THEN want[j] ELSE r.alloc[j]]
           given == [j \in Jobs |-> IF j \in U THEN part[j] ELSE 0]
           most == [j \in Jobs |-> r.alloc[j] + given[j]]
           weighed == [j \in Jobs |-> shares * part[j]]
           asked == [j \in Jobs |-> R * Soft[j]]
<1>1. /\ r.alloc \in [Jobs -> Nat] /\ R \in Nat /\ U \subseteq Jobs
      /\ SumOver(Jobs, r.alloc) + R = Unit * Physical
      /\ r = [alloc |-> r.alloc, remaining |-> R, unsaturated |-> U]
  BY DEF Rounds
<1>2. NumJobs \in Nat /\ Jobs = 1..NumJobs /\ Soft \in [Jobs -> Nat \ {0}]
  BY CpuConstants
<1> SUFFICES ASSUME U # {}, R # 0 PROVE Round(r, ph) \in Rounds
  BY DEF Round
<1>3. Round(r, ph) = [alloc |-> after,
                      remaining |-> R - (SumOver(Jobs, after) - SumOver(Jobs, r.alloc)),
                      unsaturated |-> IF full = {} THEN {} ELSE U \ full]
  BY DEF Round
<1>4. shares \in Nat \ {0}
  <2>1. PICK j \in U : TRUE
    OBVIOUS
  <2>2. Soft \in [1..NumJobs -> Nat] /\ j \in 1..NumJobs /\ Soft[j] \in Nat \ {0}
    BY <1>1, <1>2
  <2>3. Soft[j] <= Asked(U, Soft, NumJobs) /\ Asked(U, Soft, NumJobs) \in Nat
    BY <1>2, <2>2, SumAtLeast, SumType
  <2>. QED  BY <2>2, <2>3, SumOverIsAsked
<1> HIDE DEF shares
<1>5. \A j \in Jobs : part[j] \in Nat /\ part[j] * shares <= R * Soft[j] /\ R * Soft[j] \in Nat
  <2> SUFFICES ASSUME NEW j \in Jobs
               PROVE part[j] \in Nat /\ part[j] * shares <= R * Soft[j] /\ R * Soft[j] \in Nat
    OBVIOUS
  <2>1. R * Soft[j] \in Nat
    BY <1>1, <1>2
  <2>. QED  BY <1>4, <2>1, DivBounds
<1>6. \A j \in Jobs : want[j] = r.alloc[j] + part[j]
  OBVIOUS
<1>7. \A j \in Jobs : StageThreads(ph, j) \in Nat
  BY AuctionTypes
<1>8. part \in [1..NumJobs -> Nat] /\ want \in [1..NumJobs -> Nat]
  <2>1. \A j \in Jobs : r.alloc[j] + (R * Soft[j]) \div shares \in Nat
    BY <1>1, <1>5
  <2>. QED  BY <1>2, <1>5, <2>1
<1> HIDE DEF part, want
<1>9. after \in [1..NumJobs -> Nat]
  BY <1>1, <1>2, <1>7, <1>8
<1>10. /\ given \in [1..NumJobs -> Nat] /\ most \in [1..NumJobs -> Nat]
       /\ weighed \in [1..NumJobs -> Nat] /\ asked \in [1..NumJobs -> Nat]
  <2>1. \A j \in Jobs : /\ part[j] \in Nat /\ shares * part[j] \in Nat
                        /\ R * Soft[j] \in Nat /\ r.alloc[j] + part[j] \in Nat
                        /\ r.alloc[j] + 0 \in Nat
    BY <1>1, <1>4, <1>5
  <2>2. given \in [Jobs -> Nat]
    BY <2>1
  <2>3. most \in [Jobs -> Nat]
    BY <2>1, <2>2, <1>1
  <2>4. weighed \in [Jobs -> Nat] /\ asked \in [Jobs -> Nat]
    BY <2>1
  <2>. QED  BY <1>2, <2>2, <2>3, <2>4
<1>11. \A j \in Jobs : after[j] <= most[j]
  <2> SUFFICES ASSUME NEW j \in Jobs PROVE after[j] <= most[j]
    OBVIOUS
  <2>1. want[j] = r.alloc[j] + part[j] /\ r.alloc[j] \in Nat /\ part[j] \in Nat
    BY <1>1, <1>5, <1>6
  <2>2. CASE j \in full
    BY <1>7, <2>1, <2>2
  <2>3. CASE j \in U \ full
    BY <2>1, <2>3
  <2>4. CASE j \notin U
    BY <2>1, <2>4
  <2>. QED  BY <2>2, <2>3, <2>4
<1>12. SumOver(Jobs, after) <= SumOver(Jobs, most)
  <2>1. \A k \in 1..NumJobs : k \in Jobs => after[k] <= most[k]
    BY <1>11
  <2> HIDE DEF after, most
  <2>. QED  BY <1>9, <1>10, <2>1, SumOverBelow
<1>13. SumOver(Jobs, most) = SumOver(Jobs, r.alloc) + SumOver(Jobs, given)
  <2>1. \A k \in 1..NumJobs : k \in Jobs => most[k] = r.alloc[k] + given[k]
    BY <1>2
  <2>2. r.alloc \in [1..NumJobs -> Nat]
    BY <1>1, <1>2
  <2> HIDE DEF most, given
  <2>. QED  BY <1>10, <2>1, <2>2, SumOverPlus
<1>14. SumOver(Jobs, given) = SumOver(U, part)
  <2>1. [j \in Jobs |-> IF j \in Jobs THEN given[j] ELSE 0]
          = [j \in Jobs |-> IF j \in U THEN part[j] ELSE 0]
    OBVIOUS
  <2>. QED  BY <2>1 DEF SumOver
<1>15. SumOver(U, part) <= R
  <2>1. SumOver(U, weighed) = shares * SumOver(U, part)
    <3>1. \A k \in 1..NumJobs : k \in U => weighed[k] = shares * part[k]
      BY <1>2
    <3>2. weighed \in [1..NumJobs -> Nat] /\ part \in [1..NumJobs -> Nat] /\ shares \in Nat
      BY <1>4, <1>8, <1>10
    <3> HIDE DEF weighed
    <3>. QED  BY <3>1, <3>2, SumOverTimes
  <2>2. SumOver(U, asked) = R * SumOver(U, Soft)
    <3>1. \A k \in 1..NumJobs : k \in U => asked[k] = R * Soft[k]
      BY <1>2
    <3>2. Soft \in [1..NumJobs -> Nat] /\ R \in Nat /\ asked \in [1..NumJobs -> Nat]
      BY <1>1, <1>2, <1>10
    <3> HIDE DEF asked, R
    <3>. QED  BY <3>1, <3>2, SumOverTimes
  <2>3. SumOver(U, weighed) <= SumOver(U, asked)
    <3>1. \A k \in 1..NumJobs : k \in U => weighed[k] <= asked[k]
      <4> SUFFICES ASSUME NEW k \in 1..NumJobs PROVE weighed[k] <= asked[k]
        OBVIOUS
      <4>1. k \in Jobs /\ part[k] \in Nat /\ part[k] * shares <= R * Soft[k]
        BY <1>2, <1>5
      <4>2. part[k] * shares = shares * part[k]
        BY <1>4, <4>1
      <4>. QED  BY <4>1, <4>2
    <3> HIDE DEF weighed, asked
    <3>. QED  BY <1>10, <3>1, SumOverBelow
  <2>4. SumOver(U, part) \in Nat
    BY <1>2, <1>8, SumOverIsAsked, SumType
  <2> DEFINE d == SumOver(U, part)
  <2>5. shares * d <= R * shares
    BY <2>1, <2>2, <2>3 DEF shares
  <2> HIDE DEF d
  <2>6. SUFFICES ASSUME R < d PROVE FALSE
    BY <1>1, <2>4 DEF d
  <2>7. R * shares < d * shares
    BY <1>1, <1>4, <2>4, <2>6, TimesStrict DEF d
  <2>8. shares * d = d * shares /\ d * shares \in Int /\ R * shares \in Int
    BY <1>1, <1>4, <2>4 DEF d
  <2>. QED  BY <2>5, <2>7, <2>8
<1> DEFINE A == SumOver(Jobs, after)
           B == SumOver(Jobs, r.alloc)
           D == SumOver(U, part)
<1>16. A \in Nat /\ B \in Nat /\ D \in Nat
  <2>1. r.alloc \in [1..NumJobs -> Nat]
    BY <1>1, <1>2
  <2> HIDE DEF after
  <2>. QED  BY <1>2, <1>8, <1>9, <2>1, SumOverIsAsked, SumType
<1>17. A <= B + D /\ D <= R
  BY <1>12, <1>13, <1>14, <1>15
<1> HIDE DEF after, A, B, D
<1>18. R - (A - B) \in Nat /\ A + (R - (A - B)) = B + R
  BY <1>1, <1>16, <1>17
<1>19. (IF full = {} THEN {} ELSE U \ full) \subseteq Jobs
  BY <1>1
<1> HIDE DEF full
<1>20. after \in [Jobs -> Nat]
  BY <1>2, <1>9
<1>21. SumOver(Jobs, after) = A /\ SumOver(Jobs, r.alloc) = B
  BY DEF A, B
<1>22. Round(r, ph) \in [alloc : [Jobs -> Nat], remaining : Nat, unsaturated : SUBSET Jobs]
  BY <1>3, <1>18, <1>19, <1>20, <1>21
<1>23. Round(r, ph).alloc = after /\ Round(r, ph).remaining = R - (A - B)
  BY <1>3, <1>21
<1>. QED  BY <1>1, <1>18, <1>21, <1>22, <1>23 DEF Rounds

(* What the batch solver hands out is what its rounds do.                  *)
LEMMA ProportionalFits ==
  ASSUME NEW ph, NEW sl, Slotted(sl)
  PROVE  /\ Proportional(ph, sl) \in [Jobs -> Nat]
         /\ SumOver(Jobs, Proportional(ph, sl)) <= Unit * Physical
<1> DEFINE n == NumJobs + 1
           base == [alloc |-> [j \in Jobs |-> 0], remaining |-> Unit * Physical,
                    unsaturated |-> Range(sl)]
           step == [i \in 1..n |-> [r \in Rounds |-> Round(r, ph)]]
           Eqn(p) == p = [k \in 0..n |-> IF k = 0 THEN base ELSE Round(p[k-1], ph)]
           zero == [j \in Jobs |-> 0]
<1>1. NumJobs \in Nat /\ Jobs = 1..NumJobs /\ Soft \in [1..NumJobs -> Nat]
      /\ Unit * Physical \in Nat
  BY CpuConstants
<1>2. base \in Rounds
  <2>1. zero \in [1..NumJobs -> Nat] /\ \A k \in 1..NumJobs : k \in Jobs => zero[k] = zero[k] + zero[k]
    BY <1>1
  <2>2. /\ SumOver(Jobs, zero) = SumOver(Jobs, zero) + SumOver(Jobs, zero)
        /\ SumOver(Jobs, zero) \in Nat
    <3> HIDE DEF zero
    <3>. QED  BY ONLY <2>1, SumOverPlus, SumOverType
  <2>3. SumOver(Jobs, zero) = 0
    <3> DEFINE s == SumOver(Jobs, zero)
    <3>1. s = s + s /\ s \in Nat
      BY <2>2
    <3>2. s = 0
      <4> HIDE DEF s
      <4>. QED  BY <3>1
    <3>. QED  BY <3>2
  <2>4. Range(sl) \subseteq Jobs
    BY PlaceOf
  <2>5. base.alloc = zero /\ base.remaining = Unit * Physical
    OBVIOUS
  <2>6. base \in [alloc : [Jobs -> Nat], remaining : Nat, unsaturated : SUBSET Jobs]
    BY <1>1, <2>4
  <2> HIDE DEF base, zero
  <2>7. SumOver(Jobs, base.alloc) + base.remaining = Unit * Physical
    BY <1>1, <2>3, <2>5
  <2>. QED  BY <2>6, <2>7 DEF Rounds
<1>3. n \in Nat /\ step \in [1..n -> [Rounds -> Rounds]]
  BY <1>1, RoundType
<1>4. Proportional(ph, sl) = (CHOOSE p : Eqn(p))[n].alloc
  BY DEF Proportional
<1>5. \A i \in 1..n, r \in Rounds : step[i][r] = Round(r, ph)
  OBVIOUS
<1> HIDE DEF n, base, step
<1>6. PICK g \in [0..n -> Rounds] : g[0] = base /\ \A i \in 1..n : g[i] = step[i][g[i-1]]
  <2>1. \E g \in [0..n -> Rounds] : Recursion(g, base, step, n)
    BY ONLY <1>2, <1>3, RecursionExists
  <2>. QED  BY <2>1 DEF Recursion
<1>7. \A i \in 1..n : g[i] = Round(g[i-1], ph)
  BY <1>3, <1>5, <1>6
<1>8. Eqn(g)
  <2>1. \A i \in 0..n : g[i] = IF i = 0 THEN base ELSE Round(g[i-1], ph)
    BY <1>3, <1>6, <1>7
  <2>. QED  BY <2>1
<1> DEFINE J == CHOOSE p : Eqn(p)
<1>9. Eqn(J)
  <2> HIDE DEF Eqn
  <2>. QED  BY <1>8
<1> HIDE DEF J
<1>10. J[0] = base /\ \A i \in 1..n : J[i] = Round(J[i-1], ph)
  BY <1>3, <1>9
<1>11. J[n] = g[n]
  <2> DEFINE U == {i \in Nat : i <= n => J[i] = g[i]}
  <2>1. 0 \in U
    BY <1>6, <1>10
  <2>2. \A i \in Nat : i \in U => i+1 \in U
    <3> SUFFICES ASSUME NEW i \in Nat, i \in U, i+1 <= n PROVE J[i+1] = g[i+1]
      OBVIOUS
    <3>1. i+1 \in 1..n /\ (i+1)-1 = i /\ i <= n
      BY <1>3
    <3>. QED  BY <3>1, <1>7, <1>10
  <2>3. Nat \subseteq U
    <3> HIDE DEF U
    <3>. QED  BY <2>1, <2>2, NatSetInduction
  <2>. QED  BY <2>3, <1>3
<1>12. g[n] \in Rounds
  BY <1>3, <1>6
<1>13. Proportional(ph, sl) = g[n].alloc
  BY <1>4, <1>11 DEF J
<1>14. g[n].alloc \in [Jobs -> Nat] /\ g[n].remaining \in Nat
       /\ SumOver(Jobs, g[n].alloc) + g[n].remaining = Unit * Physical
  BY <1>12 DEF Rounds
<1>15. SumOver(Jobs, g[n].alloc) \in Nat
  BY <1>1, <1>14, SumOverType
<1> DEFINE a == SumOver(Jobs, g[n].alloc)
           b == g[n].remaining
           c == Unit * Physical
<1>16. a \in Nat /\ b \in Nat /\ c \in Nat /\ a + b = c
  BY <1>1, <1>14, <1>15
<1>17. a <= c
  <2> HIDE DEF a, b, c
  <2>. QED  BY ONLY <1>16
<1>. QED  BY ONLY <1>13, <1>14, <1>17

(* A node is never too small for the shares a solver writes.               *)
LEMMA SolverFits ==
  ASSUME NEW ph, NEW sl, Slotted(sl), solver \in {"k8s", "batch"},
         SumOver(Range(sl), Soft) <= Physical,
         NEW sh, sh = [j \in Jobs |-> IF j \in Range(sl) THEN Effective(Alloc(ph, sl), ph, j) ELSE 0]
  PROVE  sh \in [Jobs -> Nat] /\ SumOver(Range(sl), sh) <= Unit * Physical
<1> DEFINE on == Range(sl)
           alloc == Alloc(ph, sl)
<1>1. on \subseteq Jobs /\ Jobs = 1..NumJobs /\ Unit * Physical \in Nat
  BY PlaceOf, CpuConstants
<1>2. alloc \in [Jobs -> Nat]
  <2>1. CASE solver = "k8s"
    BY <2>1, GreedyType DEF Alloc
  <2>2. CASE solver = "batch"
    BY <2>2, ProportionalFits DEF Alloc
  <2>. QED  BY <2>1, <2>2
<1> HIDE DEF alloc
<1>3. \A j \in Jobs : Effective(alloc, ph, j) \in Nat /\ Effective(alloc, ph, j) <= alloc[j]
  BY <1>2, EffectivePart
<1>4. sh \in [Jobs -> Nat] /\ \A j \in on : sh[j] = Effective(alloc, ph, j)
  <2>1. sh = [j \in Jobs |-> IF j \in on THEN Effective(alloc, ph, j) ELSE 0]
    BY DEF alloc
  <2> HIDE DEF on
  <2>. QED  BY ONLY <1>1, <1>3, <2>1
<1>5. CASE solver = "k8s"
  <2>1. alloc = Greedy(ph, sl)
    BY <1>5 DEF Alloc, alloc
  <2>2. sh \in [1..NumJobs -> Nat] /\ \A j \in Range(sl) : sh[j] = Effective(Greedy(ph, sl), ph, j)
    BY <1>1, <1>4, <2>1
  <2>3. SumOver(Range(sl), sh) <= Unit * Physical
    BY <2>2, GreedyFits
  <2>. QED  BY <1>4, <2>3
<1>6. CASE solver = "batch"
  <2>1. alloc = Proportional(ph, sl)
    BY <1>6 DEF Alloc, alloc
  <2>2. SumOver(Jobs, alloc) <= Unit * Physical
    BY <2>1, ProportionalFits
  <2>3. alloc \in [1..NumJobs -> Nat] /\ sh \in [1..NumJobs -> Nat]
    BY <1>1, <1>2, <1>4
  <2>4. \A k \in 1..NumJobs : k \in on => sh[k] <= alloc[k]
    BY <1>1, <1>3, <1>4
  <2>5. SumOver(on, sh) <= SumOver(on, alloc)
    <3> HIDE DEF on
    <3>. QED  BY ONLY <2>3, <2>4, SumOverBelow
  <2>6. SumOver(on, alloc) <= SumOver(Jobs, alloc)
    BY <1>1, <2>3, SumOverMonotone
  <2>7. SumOver(on, sh) \in Nat /\ SumOver(on, alloc) \in Nat /\ SumOver(Jobs, alloc) \in Nat
    BY <2>3, SumOverType
  <2>. QED  BY <1>1, <1>4, <2>2, <2>5, <2>6, <2>7
<1>. QED  BY <1>5, <1>6

(* When a job leaves the node the solver could give the others no less     *)
(* than it could before.                                                   *)
LEMMA LeaveRaises ==
  ASSUME NEW ph, NEW qh, NEW sl, Slotted(sl), SumOver(Range(sl), Soft) <= Physical,
         NEW x \in Range(sl), \A k \in Range(sl) \ {x} : qh[k] = ph[k],
         NEW s, s = RemoveAt(sl, PlaceIn(sl, x))
  PROVE  \A j \in Range(s) : Effective(Greedy(ph, sl), ph, j) <= Effective(Greedy(qh, s), qh, j)
<1> DEFINE on == Range(sl)
           off == Range(s)
           H == HeadroomOf(ph)
           K == HeadroomOf(qh)
           R == ReturnOf(ph)
           Q == ReturnOf(qh)
<1>1. /\ Slotted(s) /\ off = on \ {x}
      /\ \A j, k \in off : PlaceIn(s, j) < PlaceIn(s, k) <=> PlaceIn(sl, j) < PlaceIn(sl, k)
      /\ on \subseteq Jobs /\ off \subseteq Jobs /\ x \in Jobs /\ x \notin off /\ on = off \cup {x}
  <2>1. on \subseteq Jobs
    BY PlaceOf
  <2>. QED  BY <2>1, RemoveSlot
<1>2. \A k \in off : /\ Eff(qh, k) = Eff(ph, k) /\ Headroom(qh, k) = Headroom(ph, k)
                     /\ K[k] = H[k] /\ Q[k] = R[k]
  <2> SUFFICES ASSUME NEW k \in off
               PROVE  /\ Eff(qh, k) = Eff(ph, k) /\ Headroom(qh, k) = Headroom(ph, k)
                      /\ K[k] = H[k] /\ Q[k] = R[k]
    OBVIOUS
  <2>1. qh[k] = ph[k] /\ k \in Jobs
    BY <1>1
  <2>2. Eff(qh, k) = Eff(ph, k) /\ Headroom(qh, k) = Headroom(ph, k)
    BY <2>1 DEF Eff, Headroom, StageThreads
  <2>. QED  BY <2>1, <2>2 DEF HeadroomOf, ReturnOf
<1>3. /\ H \in [1..NumJobs -> Nat] /\ K \in [1..NumJobs -> Nat]
      /\ R \in [1..NumJobs -> Nat] /\ Q \in [1..NumJobs -> Nat]
      /\ Surplus(ph, sl) \in Nat /\ Surplus(qh, s) \in Nat
  BY AuctionTypes
<1>4. Jobs = 1..NumJobs /\ Soft \in [1..NumJobs -> Nat] /\ Unit \in Nat /\ Physical \in Nat
  BY CpuConstants
<1> HIDE DEF H, K, R, Q
<1>5. Surplus(ph, sl) <= Surplus(qh, s)
  <2> DEFINE A == SumOver(off, Soft)
             B == SumOver(off, R)
             C == SumOver(off, Q)
             u == Unit * Soft[x]
  <2>1. SumOver(on, Soft) = A + Soft[x] /\ SumOver(on, R) = B + R[x]
    <3>1. x \in 1..NumJobs /\ x \notin off /\ on = off \cup {x}
      BY <1>1, <1>4
    <3>2. SumOver(off \cup {x}, Soft) = SumOver(off, Soft) + Soft[x]
      BY <1>4, <3>1, SumOverAdd
    <3>3. SumOver(off \cup {x}, R) = SumOver(off, R) + R[x]
      BY <1>3, <3>1, SumOverAdd
    <3>. QED  BY <3>1, <3>2, <3>3
  <2>2. /\ A \in Nat /\ B \in Nat /\ C \in Nat /\ Soft[x] \in Nat /\ R[x] \in Nat /\ u \in Nat
        /\ Unit * Physical \in Nat /\ Unit * A \in Nat
    <3>1. A \in Nat /\ B \in Nat /\ C \in Nat
      BY <1>3, <1>4, SumOverType
    <3>. QED  BY <1>1, <1>3, <1>4, <3>1
  <2>3. B <= C
    <3>1. \A k \in 1..NumJobs : k \in off => R[k] <= Q[k]
      BY <1>2, <1>3
    <3>. QED  BY <1>3, <3>1, SumOverBelow
  <2>4. R[x] <= u
    BY <1>1, ReturnBelow DEF R
  <2>5. Surplus(ph, sl) = Unit * Physical - Unit * (A + Soft[x]) + (B + R[x])
    BY <2>1, SurplusIs DEF R
  <2>6. Surplus(qh, s) = Unit * Physical - Unit * A + C
    <3>1. A <= Physical
      BY <1>4, <2>1, <2>2
    <3>. QED  BY <3>1, SurplusIs DEF Q
  <2>7. Unit * (A + Soft[x]) = Unit * A + u
    <3>1. Unit \in Nat /\ A \in Nat /\ Soft[x] \in Nat
      BY <1>4, <2>2
    <3> HIDE DEF A
    <3>. QED  BY <3>1, SMT
  <2> DEFINE p == Unit * Physical
             a == Unit * A
  <2>8. /\ Surplus(ph, sl) = p - (a + u) + (B + R[x]) /\ Surplus(qh, s) = p - a + C
        /\ p \in Nat /\ a \in Nat
    BY <2>2, <2>5, <2>6, <2>7
  <2> HIDE DEF A, B, C, u, p, a
  <2>. QED  BY <2>2, <2>3, <2>4, <2>8
<1>6. ASSUME NEW j \in off
      PROVE  SumOver(Earlier(qh, s, j), K) <= SumOver(Earlier(ph, sl, j), H)
  <2>1. Earlier(qh, s, j) \subseteq Earlier(ph, sl, j) /\ Earlier(qh, s, j) \subseteq off
    <3>1. Earlier(qh, s, j) \subseteq off
      BY <1>1, AuctionOrder
    <3>2. ASSUME NEW i \in Earlier(qh, s, j) PROVE i \in Earlier(ph, sl, j)
      <4>1. i \in off /\ i \in on /\ j \in on
        BY <1>1, <3>1
      <4>2. \/ Eff(qh, i) > Eff(qh, j)
            \/ Eff(qh, i) = Eff(qh, j) /\ PlaceIn(s, i) < PlaceIn(s, j)
        BY <1>1, <4>1, AuctionOrder
      <4>3. \/ Eff(ph, i) > Eff(ph, j)
            \/ Eff(ph, i) = Eff(ph, j) /\ PlaceIn(sl, i) < PlaceIn(sl, j)
        BY <1>1, <1>2, <4>1, <4>2
      <4>. QED  BY <4>1, <4>3, AuctionOrder
    <3>. QED  BY <3>1, <3>2
  <2> DEFINE E == Earlier(qh, s, j)
             F == Earlier(ph, sl, j)
  <2>2. \A k \in 1..NumJobs : k \in E => K[k] <= H[k]
    BY <1>2, <1>3, <2>1
  <2>3. E \subseteq F
    BY <2>1
  <2> HIDE DEF E, F
  <2>4. SumOver(E, K) <= SumOver(E, H)
    BY <1>3, <2>2, SumOverBelow
  <2>5. SumOver(E, H) <= SumOver(F, H)
    BY <1>3, <2>3, SumOverMonotone
  <2>6. SumOver(E, K) \in Nat /\ SumOver(E, H) \in Nat /\ SumOver(F, H) \in Nat
    BY <1>3, SumOverType
  <2>7. SumOver(E, K) <= SumOver(F, H)
    BY <2>4, <2>5, <2>6
  <2>. QED  BY <2>7 DEF E, F
<1>7. ASSUME NEW j \in off
      PROVE  GrantOf(ph, sl)[j] <= GrantOf(qh, s)[j]
  <2> DEFINE S == Surplus(ph, sl)
             T == Surplus(qh, s)
             a == SumOver(Earlier(ph, sl, j), H)
             b == SumOver(Earlier(qh, s, j), K)
             h == Headroom(ph, j)
  <2>1. S \in Nat /\ T \in Nat /\ a \in Nat /\ b \in Nat /\ h \in Nat /\ S <= T /\ b <= a
    <3>1. h = H[j] /\ j \in 1..NumJobs
      BY <1>1, <1>4 DEF H, HeadroomOf
    <3>2. a \in Nat /\ b \in Nat
      BY <1>3, SumOverType
    <3>. QED  BY <1>3, <1>5, <1>6, <3>1, <3>2
  <2>2. GrantOf(ph, sl)[j] = Least(h, Pos(S - a)) /\ GrantOf(qh, s)[j] = Least(h, Pos(T - b))
    <3>1. j \in Jobs /\ Headroom(qh, j) = h
      BY <1>1, <1>2
    <3>. QED  BY <3>1 DEF GrantOf, H, K
  <2> HIDE DEF S, T, a, b, h
  <2>3. Least(h, Pos(S - a)) <= Least(h, Pos(T - b))
    BY <2>1 DEF Least, Pos
  <2>. QED  BY <2>2, <2>3
<1>8. ASSUME NEW j \in off
      PROVE  Effective(Greedy(ph, sl), ph, j) <= Effective(Greedy(qh, s), qh, j)
  <2> DEFINE e == Eff(ph, j)
             u == Unit * Soft[j]
             g == GrantOf(ph, sl)[j]
             k == GrantOf(qh, s)[j]
  <2>1. /\ j \in Jobs /\ e \in Nat /\ Full \in Nat \ {0} /\ u \in Nat
        /\ g \in Nat /\ k \in Nat /\ g <= k
    <3>1. j \in Jobs
      BY <1>1
    <3>2. g \in Nat /\ k \in Nat
      BY <1>4, <3>1, GrantType
    <3>. QED  BY <1>7, <3>1, <3>2, EffType, CpuConstants
  <2>2. Greedy(ph, sl)[j] = u + g /\ Greedy(qh, s)[j] = u + k
    BY <1>1, <2>1, GreedyGrants
  <2>3. /\ Effective(Greedy(ph, sl), ph, j) = ((u + g) * e) \div Full
        /\ Effective(Greedy(qh, s), qh, j) = ((u + k) * e) \div Full
    BY <1>2, <2>2 DEF Effective
  <2> HIDE DEF e, u, g, k
  <2>4. (u + g) * e <= (u + k) * e
    BY <2>1, TimesMonotone
  <2>5. (u + g) * e \in Nat /\ (u + k) * e \in Nat
    BY <2>1
  <2>6. ((u + g) * e) \div Full <= ((u + k) * e) \div Full
    BY <2>1, <2>4, <2>5, DivMonotone
  <2>. QED  BY <2>3, <2>6
<1>. QED  BY <1>8

(* The grants of the auction, as AuctionInOrder states them.               *)
LEMMA AuctionFair ==
  ASSUME NEW ph, NEW sl, Slotted(sl)
  PROVE  LET alloc == Greedy(ph, sl)
             granted == [j \in Jobs |-> alloc[j] - Unit * Soft[j]]
             usable == SumOver(Range(sl), [j \in Jobs |-> Headroom(ph, j)])
         IN  /\ \A i, j \in Range(sl) :
                  granted[i] > 0 /\ Eff(ph, j) > Eff(ph, i) => granted[j] = Headroom(ph, j)
             /\ SumOver(Range(sl), granted) = Least(Surplus(ph, sl), usable)
<1> DEFINE on == Range(sl)
           g == GrantOf(ph, sl)
           H == HeadroomOf(ph)
           S == Surplus(ph, sl)
           granted == [j \in Jobs |-> Greedy(ph, sl)[j] - Unit * Soft[j]]
<1>1. /\ H \in [1..NumJobs -> Nat] /\ g \in [1..NumJobs -> Nat] /\ S \in Nat
      /\ on \subseteq Jobs /\ Jobs = 1..NumJobs
      /\ \A j \in Jobs : g[j] = Least(H[j], Pos(S - SumOver(Earlier(ph, sl, j), H)))
                         /\ H[j] = Headroom(ph, j)
  <2>1. /\ H \in [1..NumJobs -> Nat] /\ g \in [1..NumJobs -> Nat] /\ S \in Nat
        /\ on \subseteq Jobs /\ Jobs = 1..NumJobs
    BY AuctionTypes, GrantType, CpuConstants, PlaceOf
  <2>2. \A j \in Jobs : g[j] = Least(Headroom(ph, j), Pos(S - SumOver(Earlier(ph, sl, j), H)))
    BY DEF GrantOf
  <2>3. \A j \in Jobs : H[j] = Headroom(ph, j)
    BY DEF HeadroomOf
  <2>. QED  BY <2>1, <2>2, <2>3
<1>2. \A j \in on : granted[j] = g[j]
  <2> SUFFICES ASSUME NEW j \in on PROVE granted[j] = g[j]
    OBVIOUS
  <2>1. j \in Jobs /\ Unit * Soft[j] \in Nat /\ g[j] \in Nat
    BY <1>1, CpuConstants
  <2>2. Greedy(ph, sl)[j] = Unit * Soft[j] + g[j]
    BY <2>1, GreedyGrants
  <2>3. granted[j] = Unit * Soft[j] + g[j] - Unit * Soft[j]
    BY <2>1, <2>2
  <2> DEFINE u == Unit * Soft[j]
             v == g[j]
  <2>4. u + v - u = v
    <3>1. u \in Nat /\ v \in Nat
      BY <2>1
    <3> HIDE DEF u, v
    <3>. QED  BY <3>1
  <2>. QED  BY <2>3, <2>4
<1> HIDE DEF g, S, granted
<1>3. ASSUME NEW i \in on, NEW j \in on, granted[i] > 0, Eff(ph, j) > Eff(ph, i)
      PROVE  granted[j] = Headroom(ph, j)
  <2> DEFINE E == Earlier(ph, sl, i)
             F == Earlier(ph, sl, j)
  <2>1. j \in E /\ F \subseteq E /\ j \notin F
    BY <1>3, AuctionOrder
  <2> HIDE DEF E, F, H
  <2>2. SumOver(F \cup {j}, H) = SumOver(F, H) + H[j]
    <3>1. j \in 1..NumJobs
      BY <1>1
    <3>. QED  BY <1>1, <2>1, <3>1, SumOverAdd
  <2>3. SumOver(F \cup {j}, H) <= SumOver(E, H)
    <3>1. F \cup {j} \subseteq E
      BY <2>1
    <3>. QED  BY <1>1, <3>1, SumOverMonotone
  <2>4. SumOver(E, H) \in Nat /\ SumOver(F, H) \in Nat /\ H[i] \in Nat /\ H[j] \in Nat
    <3>1. SumOver(E, H) \in Nat /\ SumOver(F, H) \in Nat
      BY <1>1, SumOverType
    <3>. QED  BY <1>1, <3>1
  <2>5. /\ g[i] > 0 /\ g[i] = Least(H[i], Pos(S - SumOver(E, H)))
        /\ g[j] = Least(H[j], Pos(S - SumOver(F, H)))
    BY <1>1, <1>2, <1>3 DEF E, F
  <2>6. SumOver(E, H) < S
    BY <1>1, <2>4, <2>5 DEF Least, Pos
  <2>7. H[j] <= S - SumOver(F, H)
    BY <1>1, <2>2, <2>3, <2>4, <2>6
  <2>8. g[j] = H[j]
    BY <1>1, <2>4, <2>5, <2>7 DEF Least, Pos
  <2>. QED  BY <1>1, <1>2, <2>8
<1>4. SumOver(on, granted) = SumOver(on, g)
  <2>1. [j \in Jobs |-> IF j \in on THEN granted[j] ELSE 0]
          = [j \in Jobs |-> IF j \in on THEN g[j] ELSE 0]
    BY <1>2
  <2>. QED  BY <2>1 DEF SumOver
<1>5. SumOver(on, g) = Least(S, SumOver(on, H))
  BY AuctionGrants, AuctionOrder DEF g, S
<1>. QED  BY <1>3, <1>4, <1>5 DEF granted, S, HeadroomOf

-----------------------------------------------------------------------------
Running == {"download", "preprocess", "workhorse", "upload"}
RunningIn(ph) == {j \in Jobs : ph[j] \in Running}

(* The types; a loop is woken only while it sleeps in a stage.             *)
CpuTypes ==
  /\ solver \in {"k8s", "batch"}
  /\ phase \in [Jobs -> Phases] /\ stage \in [Jobs -> Nat]
  /\ share \in [Jobs -> Nat] /\ rate \in [Jobs -> Nat]
  /\ woken \subseteq {j \in Jobs : phase[j] = "workhorse"}
  /\ \A j \in Jobs : IF phase[j] = "workhorse" THEN stage[j] \in 1..Len(StageCaps[j])
                                               ELSE stage[j] = 0

(* A job has a slot as long as it runs, and the requests of the jobs with  *)
(* slots fit the node, and so do their shares.                             *)
SlotsFit ==
  /\ Slotted(slots) /\ Range(slots) = RunningIn(phase)
  /\ SumOver(Range(slots), Soft) <= Physical
  /\ SumOver(Range(slots), share) <= Unit * Physical

(* What NoStaleRate says of the jobs with slots holds of every job.        *)
RatesKept ==
  \A j \in Jobs : phase[j] = "workhorse" /\ j \notin woken =>
    rate[j] = RateOf(j, stage[j], share[j])

(* No share is above what the auction would give now.                      *)
SharesKept ==
  solver = "k8s" =>
    \A j \in Range(slots) : share[j] <= Effective(Greedy(phase, slots), phase, j)

CpuInv == CpuTypes /\ SlotsFit /\ RatesKept /\ SharesKept

(* A rate is a number of parts.                                            *)
LEMMA RateType ==
  ASSUME NEW j \in Jobs, NEW k \in 1..Len(StageCaps[j]), NEW s \in Nat
  PROVE  RateOf(j, k, s) \in Nat
<1>1. StageCaps[j] \in Seq(Nat)
  BY CpuAssumption
<1>2. StageCaps[j][k] \in Nat
  BY <1>1
<1>. QED  BY <1>2 DEF RateOf, Least

(* What the solver writes.                                                 *)
LEMMA BoostShares ==
  ASSUME NEW j \in Jobs, Boost(phase', slots', j), solver \in {"k8s", "batch"},
         Slotted(slots'), SumOver(Range(slots'), Soft) <= Physical
  PROVE  /\ share' \in [Jobs -> Nat]
         /\ SumOver(Range(slots'), share') <= Unit * Physical
         /\ solver = "k8s" => \A k \in Range(slots') :
              share'[k] = Effective(Greedy(phase', slots'), phase', k)
<1>1. share' = [k \in Jobs |-> IF k \in Range(slots')
                               THEN Effective(Alloc(phase', slots'), phase', k) ELSE 0]
  BY DEF Boost
<1>2. share' \in [Jobs -> Nat] /\ SumOver(Range(slots'), share') <= Unit * Physical
  BY <1>1, SolverFits
<1>3. ASSUME solver = "k8s", NEW k \in Range(slots')
      PROVE  share'[k] = Effective(Greedy(phase', slots'), phase', k)
  <2>1. k \in Jobs
    BY PlaceOf
  <2>2. Alloc(phase', slots') = Greedy(phase', slots')
    BY <1>3 DEF Alloc
  <2>. QED  BY <1>1, <1>3, <2>1, <2>2
<1>. QED  BY <1>2, <1>3

(* The solver writes every share and wakes every other loop that sleeps.   *)
LEMMA BoostStep ==
  ASSUME CpuInv, NEW j \in Jobs, NEW p \in Running, solver' = solver,
         phase' = [phase EXCEPT ![j] = p], Boost(phase', slots', j),
         Slotted(slots'), Range(slots') = RunningIn(phase'),
         SumOver(Range(slots'), Soft) <= Physical,
         stage' \in [Jobs -> Nat], rate' \in [Jobs -> Nat],
         \A k \in Jobs : k # j => stage'[k] = stage[k] /\ rate'[k] = rate[k],
         IF p = "workhorse" THEN stage'[j] \in 1..Len(StageCaps[j]) ELSE stage'[j] = 0,
         p = "workhorse" => rate'[j] = RateOf(j, stage'[j], share'[j])
  PROVE  CpuInv'
<1>1. woken' = (woken \cup Sleeping(slots')) \ {j}
  BY DEF Boost
<1>2. /\ phase \in [Jobs -> Phases] /\ solver \in {"k8s", "batch"}
      /\ woken \subseteq {k \in Jobs : phase[k] = "workhorse"}
      /\ \A k \in Jobs : IF phase[k] = "workhorse" THEN stage[k] \in 1..Len(StageCaps[k])
                                                   ELSE stage[k] = 0
  BY DEF CpuInv, CpuTypes
<1>3. phase' \in [Jobs -> Phases] /\ phase'[j] = p
      /\ \A k \in Jobs : k # j => phase'[k] = phase[k]
  BY <1>2 DEF Running, Phases
<1>4. /\ share' \in [Jobs -> Nat]
      /\ SumOver(Range(slots'), share') <= Unit * Physical
      /\ solver = "k8s" => \A k \in Range(slots') :
           share'[k] = Effective(Greedy(phase', slots'), phase', k)
  BY <1>2, BoostShares
<1>5. CpuTypes'
  <2>1. woken' \subseteq {k \in Jobs : phase'[k] = "workhorse"}
    <3> SUFFICES ASSUME NEW k \in woken' PROVE k \in Jobs /\ phase'[k] = "workhorse"
      OBVIOUS
    <3>1. k # j /\ (k \in woken \/ k \in Sleeping(slots'))
      BY <1>1
    <3>2. k \in Jobs /\ phase[k] = "workhorse"
      BY <1>2, <3>1 DEF Sleeping, RunningIn
    <3>. QED  BY <1>3, <3>1, <3>2
  <2>2. ASSUME NEW k \in Jobs
        PROVE  IF phase'[k] = "workhorse" THEN stage'[k] \in 1..Len(StageCaps[k])
                                          ELSE stage'[k] = 0
    <3>1. CASE k = j
      BY <1>3, <3>1
    <3>2. CASE k # j
      BY <1>2, <1>3, <3>2
    <3>. QED  BY <3>1, <3>2
  <2>. QED  BY <1>2, <1>3, <1>4, <2>1, <2>2 DEF CpuTypes
<1>6. SlotsFit'
  BY <1>4 DEF SlotsFit
<1>7. ASSUME NEW k \in Jobs, phase'[k] = "workhorse", k \notin woken'
      PROVE  rate'[k] = RateOf(k, stage'[k], share'[k])
  <2>1. CASE k = j
    BY <1>3, <1>7, <2>1
  <2>2. CASE k # j
    <3>1. k \in Range(slots') /\ phase[k] = "workhorse"
      BY <1>3, <1>7, <2>2 DEF Running, RunningIn
    <3>2. k \in Sleeping(slots')
      BY <3>1 DEF Sleeping
    <3>. QED  BY <1>1, <1>7, <2>2, <3>2
  <2>. QED  BY <2>1, <2>2
<1>8. RatesKept'
  BY <1>7 DEF RatesKept, RateOf, Least
<1>9. SharesKept'
  <2> SUFFICES ASSUME solver = "k8s", NEW k \in Range(slots')
               PROVE  share'[k] <= Effective(Greedy(phase', slots'), phase', k)
    BY DEF SharesKept, Greedy, Effective, Eff, Surplus, Headroom, StageThreads, SumOver,
           ServedBefore, Least, Pos, Range
  <2>1. share'[k] = Effective(Greedy(phase', slots'), phase', k)
    BY <1>4
  <2>2. share'[k] \in Nat
    BY <1>4, PlaceOf
  <2>. QED  BY <2>1, <2>2
<1>. QED  BY <1>5, <1>6, <1>8, <1>9 DEF CpuInv

(* A job gets its slot.                                                    *)
LEMMA JobEntersStep ==
  ASSUME CpuInv, mounted = Range(slots), NEW j \in Jobs, CpuFits(j), JobEnters(j)
  PROVE  CpuInv' /\ Range(slots') = Range(slots) \cup {j}
<1>1. /\ phase[j] = "waiting" /\ phase' = [phase EXCEPT ![j] = "download"]
      /\ slots' = Append(slots, j) /\ solver' = solver
      /\ Boost(phase', slots', j) /\ stage' = stage /\ rate' = rate
  BY DEF JobEnters
<1>2. /\ Slotted(slots) /\ Range(slots) = RunningIn(phase) /\ phase \in [Jobs -> Phases]
      /\ stage \in [Jobs -> Nat] /\ rate \in [Jobs -> Nat] /\ stage[j] = 0
  BY <1>1 DEF CpuInv, CpuTypes, SlotsFit
<1>3. j \notin Range(slots)
  BY <1>1, <1>2 DEF RunningIn, Running
<1>4. Slotted(slots') /\ Range(slots') = Range(slots) \cup {j}
  BY <1>1, <1>2, <1>3, AppendSlot
<1>5. Range(slots') = RunningIn(phase')
  <2>1. \A k \in Jobs : phase'[k] = IF k = j THEN "download" ELSE phase[k]
    BY <1>1, <1>2
  <2>2. RunningIn(phase') = RunningIn(phase) \cup {j}
    BY <2>1 DEF RunningIn, Running
  <2>. QED  BY <1>2, <1>4, <2>2
<1>6. SumOver(Range(slots'), Soft) <= Physical
  <2>1. j \in 1..NumJobs /\ Soft \in [1..NumJobs -> Nat]
    BY CpuConstants
  <2>2. SumOver(Range(slots) \cup {j}, Soft) = SumOver(Range(slots), Soft) + Soft[j]
    BY <1>3, <2>1, SumOverAdd
  <2>. QED  BY <1>4, <2>2 DEF CpuFits
<1>7. "download" \in Running /\ "download" # "workhorse"
  BY DEF Running
<1>8. CpuInv'
  BY <1>1, <1>2, <1>4, <1>5, <1>6, <1>7, BoostStep
<1>. QED  BY <1>4, <1>8

(* A job that runs goes on to another phase.                               *)
LEMMA PhaseStepStep ==
  ASSUME CpuInv, NEW j \in Jobs, PhaseStep(j)
  PROVE  CpuInv' /\ slots' = slots
<1>1. /\ Slotted(slots) /\ Range(slots) = RunningIn(phase) /\ solver \in {"k8s", "batch"}
      /\ SumOver(Range(slots), Soft) <= Physical /\ phase \in [Jobs -> Phases]
      /\ stage \in [Jobs -> Nat] /\ rate \in [Jobs -> Nat] /\ share \in [Jobs -> Nat]
      /\ \A k \in Jobs : IF phase[k] = "workhorse" THEN stage[k] \in 1..Len(StageCaps[k])
                                                   ELSE stage[k] = 0
  BY DEF CpuInv, CpuTypes, SlotsFit
<1>2. ASSUME NEW p \in Running, phase[j] \in Running, phase' = [phase EXCEPT ![j] = p]
      PROVE  RunningIn(phase') = RunningIn(phase)
  BY <1>1, <1>2 DEF RunningIn
<1>3. CASE StartPreprocess(j)
  <2>1. /\ phase[j] = "download" /\ phase' = [phase EXCEPT ![j] = "preprocess"]
        /\ slots' = slots /\ solver' = solver /\ Boost(phase', slots', j)
        /\ stage' = stage /\ rate' = rate
    BY <1>3 DEF StartPreprocess
  <2>2. "preprocess" \in Running /\ phase[j] \in Running /\ "preprocess" # "workhorse" /\ stage[j] = 0
    BY <1>1, <2>1 DEF Running
  <2>3. Range(slots') = RunningIn(phase')
    BY <1>1, <1>2, <2>1, <2>2
  <2>4. CpuInv'
    BY <1>1, <2>1, <2>2, <2>3, BoostStep
  <2>. QED  BY <2>1, <2>4
<1>4. CASE StartStage(j)
  <2>1. /\ phase[j] \in {"preprocess", "workhorse"}
        /\ stage[j] + 1 <= Len(StageCaps[j])
        /\ phase' = [phase EXCEPT ![j] = "workhorse"]
        /\ stage' = [stage EXCEPT ![j] = stage[j] + 1]
        /\ slots' = slots /\ solver' = solver /\ Boost(phase', slots', j)
        /\ rate' = [rate EXCEPT ![j] = RateOf(j, stage[j] + 1, share'[j])]
    BY <1>4 DEF StartStage
  <2>2. "workhorse" \in Running /\ phase[j] \in Running
    BY <2>1 DEF Running
  <2>3. Range(slots') = RunningIn(phase')
    BY <1>1, <1>2, <2>1, <2>2
  <2>4. stage[j] + 1 \in 1..Len(StageCaps[j]) /\ Len(StageCaps[j]) \in Nat
    <3>1. Len(StageCaps[j]) \in Nat
      BY CpuAssumption
    <3>. QED  BY <1>1, <2>1, <3>1
  <2>5. share' \in [Jobs -> Nat]
    BY <1>1, <2>1, BoostShares
  <2>6. RateOf(j, stage[j] + 1, share'[j]) \in Nat
    BY <2>4, <2>5, RateType
  <2>7. /\ rate' \in [Jobs -> Nat] /\ stage' \in [Jobs -> Nat]
        /\ stage'[j] \in 1..Len(StageCaps[j]) /\ rate'[j] = RateOf(j, stage'[j], share'[j])
        /\ \A k \in Jobs : k # j => stage'[k] = stage[k] /\ rate'[k] = rate[k]
    BY <1>1, <2>1, <2>4, <2>6
  <2>8. CpuInv'
    BY <1>1, <2>1, <2>2, <2>3, <2>7, BoostStep
  <2>. QED  BY <2>1, <2>8
<1>5. CASE StartUpload(j)
  <2>1. /\ phase[j] = "workhorse" /\ phase' = [phase EXCEPT ![j] = "upload"]
        /\ stage' = [stage EXCEPT ![j] = 0] /\ rate' = [rate EXCEPT ![j] = 0]
        /\ slots' = slots /\ solver' = solver /\ Boost(phase', slots', j)
    BY <1>5 DEF StartUpload
  <2>2. "upload" \in Running /\ phase[j] \in Running /\ "upload" # "workhorse"
    BY <2>1 DEF Running
  <2>3. Range(slots') = RunningIn(phase')
    BY <1>1, <1>2, <2>1, <2>2
  <2>4. /\ rate' \in [Jobs -> Nat] /\ stage' \in [Jobs -> Nat] /\ stage'[j] = 0
        /\ \A k \in Jobs : k # j => stage'[k] = stage[k] /\ rate'[k] = rate[k]
    BY <1>1, <2>1
  <2>5. CpuInv'
    BY <1>1, <2>1, <2>2, <2>3, <2>4, BoostStep
  <2>. QED  BY <2>1, <2>5
<1>6. CASE Resume(j)
  <2>1. /\ j \in woken /\ rate' = [rate EXCEPT ![j] = RateOf(j, stage[j], share[j])]
        /\ woken' = woken \ {j}
        /\ solver' = solver /\ phase' = phase /\ stage' = stage /\ slots' = slots /\ share' = share
    BY <1>6 DEF Resume
  <2>2. phase[j] = "workhorse" /\ woken \subseteq {k \in Jobs : phase[k] = "workhorse"}
    BY <2>1 DEF CpuInv, CpuTypes
  <2>3. RateOf(j, stage[j], share[j]) \in Nat
    BY <1>1, <2>2, RateType
  <2>4. CpuTypes'
    BY <2>1, <2>2, <2>3 DEF CpuInv, CpuTypes
  <2>5. SlotsFit' /\ SharesKept'
    BY <2>1 DEF CpuInv, SlotsFit, SharesKept
  <2>6. RatesKept'
    BY <1>1, <2>1 DEF CpuInv, RatesKept, RateOf, Least
  <2>. QED  BY <2>1, <2>4, <2>5, <2>6 DEF CpuInv
<1>. QED  BY <1>3, <1>4, <1>5, <1>6 DEF PhaseStep

(* A job gives its slot back.                                              *)
LEMMA JobLeavesStep ==
  ASSUME CpuInv, NEW j \in Jobs, JobLeaves(j)
  PROVE  CpuInv' /\ Range(slots') = Range(slots) \ {j}
<1>1. /\ phase[j] = "upload" /\ phase' = [phase EXCEPT ![j] = "done"]
      /\ slots' = RemoveAt(slots, PlaceIn(slots, j))
      /\ share' = [share EXCEPT ![j] = 0]
      /\ solver' = solver /\ stage' = stage /\ rate' = rate /\ woken' = woken
  BY DEF JobLeaves, PlaceIn
<1>2. /\ Slotted(slots) /\ Range(slots) = RunningIn(phase)
      /\ SumOver(Range(slots), Soft) <= Physical
      /\ SumOver(Range(slots), share) <= Unit * Physical
      /\ phase \in [Jobs -> Phases] /\ share \in [Jobs -> Nat]
      /\ woken \subseteq {k \in Jobs : phase[k] = "workhorse"}
      /\ \A k \in Jobs : IF phase[k] = "workhorse" THEN stage[k] \in 1..Len(StageCaps[k])
                                                   ELSE stage[k] = 0
  BY DEF CpuInv, CpuTypes, SlotsFit
<1>3. j \in Range(slots)
  BY <1>1, <1>2 DEF RunningIn, Running
<1>4. Slotted(slots') /\ Range(slots') = Range(slots) \ {j}
  BY <1>1, <1>2, <1>3, RemoveSlot
<1>5. \A k \in Jobs : /\ phase'[k] = IF k = j THEN "done" ELSE phase[k]
                      /\ share'[k] = IF k = j THEN 0 ELSE share[k]
  BY <1>1, <1>2
<1>6. CpuTypes'
  <2>1. phase' \in [Jobs -> Phases] /\ share' \in [Jobs -> Nat]
    BY <1>1, <1>2 DEF Phases
  <2>2. woken' \subseteq {k \in Jobs : phase'[k] = "workhorse"}
    BY <1>1, <1>2, <1>5
  <2>3. \A k \in Jobs : IF phase'[k] = "workhorse" THEN stage'[k] \in 1..Len(StageCaps[k])
                                                   ELSE stage'[k] = 0
    BY <1>1, <1>2, <1>5
  <2>. QED  BY <1>1, <2>1, <2>2, <2>3 DEF CpuInv, CpuTypes
<1>7. SlotsFit'
  <2>1. Range(slots') = RunningIn(phase')
    BY <1>2, <1>4, <1>5 DEF RunningIn, Running
  <2>2. SumOver(Range(slots'), Soft) <= SumOver(Range(slots), Soft)
    <3>1. Range(slots') \subseteq Range(slots) /\ Soft \in [1..NumJobs -> Nat]
      BY <1>4, CpuConstants
    <3>. QED  BY <3>1, SumOverMonotone
  <2>3. SumOver(Range(slots'), share') <= SumOver(Range(slots'), share)
    <3>1. share \in [1..NumJobs -> Nat] /\ share' \in [1..NumJobs -> Nat]
      BY <1>1, <1>2, CpuConstants
    <3>2. \A k \in 1..NumJobs : k \in Range(slots') => share'[k] <= share[k]
      <4> SUFFICES ASSUME NEW k \in 1..NumJobs PROVE share'[k] <= share[k]
        OBVIOUS
      <4>1. k \in Jobs /\ share[k] \in Nat
        BY <3>1 DEF Jobs
      <4>. QED  BY <1>5, <4>1
    <3>. QED  BY <3>1, <3>2, SumOverBelow
  <2>4. SumOver(Range(slots'), share) <= SumOver(Range(slots), share)
    <3>1. Range(slots') \subseteq Range(slots) /\ share \in [1..NumJobs -> Nat]
      BY <1>2, <1>4, CpuConstants
    <3>. QED  BY <3>1, SumOverMonotone
  <2>5. /\ SumOver(Range(slots'), Soft) \in Nat /\ SumOver(Range(slots), Soft) \in Nat
        /\ SumOver(Range(slots'), share') \in Nat /\ SumOver(Range(slots'), share) \in Nat
        /\ SumOver(Range(slots), share) \in Nat /\ Unit * Physical \in Nat /\ Physical \in Nat
    <3>1. /\ share \in [1..NumJobs -> Nat] /\ share' \in [1..NumJobs -> Nat]
          /\ Soft \in [1..NumJobs -> Nat] /\ Unit * Physical \in Nat /\ Physical \in Nat
      BY <1>1, <1>2, CpuConstants
    <3>. QED  BY <3>1, SumOverType
  <2>6. SumOver(Range(slots'), Soft) <= Physical
    BY <1>2, <2>2, <2>5
  <2>7. SumOver(Range(slots'), share') <= Unit * Physical
    <3> DEFINE c == Unit * Physical
    <3>1. SumOver(Range(slots), share) <= c /\ c \in Nat
      BY <1>2, <2>5
    <3> HIDE DEF c
    <3>2. SumOver(Range(slots'), share') <= c
      BY <2>3, <2>4, <2>5, <3>1
    <3>. QED  BY <3>2 DEF c
  <2>. QED  BY <1>4, <2>1, <2>6, <2>7 DEF SlotsFit
<1>8. RatesKept'
  BY <1>1, <1>5 DEF CpuInv, RatesKept, RateOf, Least
<1>9. SharesKept'
  <2> SUFFICES ASSUME solver = "k8s", NEW k \in Range(slots')
               PROVE  share'[k] <= Effective(Greedy(phase', slots'), phase', k)
    BY <1>1 DEF SharesKept
  <2>1. /\ k \in Range(slots) /\ k # j /\ k \in Jobs
        /\ \A i \in Range(slots) \ {j} : phase'[i] = phase[i]
    <3>1. Range(slots) \subseteq Jobs
      BY <1>2, PlaceOf
    <3>. QED  BY <1>4, <1>5, <3>1
  <2>2. share[k] <= Effective(Greedy(phase, slots), phase, k) /\ share'[k] = share[k]
        /\ share[k] \in Nat
    BY <1>2, <1>5, <2>1 DEF CpuInv, SharesKept
  <2>3. Effective(Greedy(phase, slots), phase, k) <= Effective(Greedy(phase', slots'), phase', k)
    BY <1>1, <1>2, <1>3, <2>1, LeaveRaises
  <2>4. /\ Effective(Greedy(phase, slots), phase, k) \in Nat
        /\ Effective(Greedy(phase', slots'), phase', k) \in Nat
    BY <2>1, GreedyType
  <2>. QED  BY <2>2, <2>3, <2>4
<1>. QED  BY <1>4, <1>6, <1>7, <1>8, <1>9 DEF CpuInv

-----------------------------------------------------------------------------
(* The invariants hold in every reachable state; a job has its volume      *)
(* while it has its slot.                                                  *)
NodeInv == StorageInv /\ CpuInv /\ mounted = Range(slots)

THEOREM ResourcesInvariant == Spec => []NodeInv
<1>1. Init => StorageInv
  <2> SUFFICES ASSUME Init PROVE StorageInv
    OBVIOUS
  <2>1. /\ model \in Models /\ mounted = {} /\ ended = FALSE
        /\ volumes = InitialVolumes /\ committed = 0 /\ exhausted = FALSE
        /\ gens = <<NewGen>> /\ job_gen = [j \in Jobs |-> 0] /\ active = {}
    BY DEF Init, StorageInit
  <2>2. /\ gens \in Seq(Gen) /\ Len(gens) = 1 /\ DOMAIN gens = 1..1
        /\ gens[1].committed = 0 /\ gens[1].active_jobs = 0 /\ ~gens[1].closed
    BY <2>1 DEF NewGen, Gen
  <2>3. StorageTypeOK
    <3>1. gens # <<>> /\ InitialVolumes \in Nat /\ 0 \in 0..Len(gens)
      BY <2>2, StorageAssumption
    <3>2. job_gen \in [Jobs -> 0..Len(gens)]
      BY <2>1, <3>1
    <3>3. volumes \in Nat /\ committed \in Nat
      BY <2>1, <3>1
    <3>4. /\ model \in Models /\ mounted \subseteq Jobs /\ ended \in BOOLEAN
          /\ exhausted \in BOOLEAN /\ active \subseteq Jobs
      BY <2>1
    <3>. QED  BY <2>2, <3>1, <3>2, <3>3, <3>4 DEF StorageTypeOK
  <2>4. JobsHaveGen
    BY <2>1 DEF JobsHaveGen
  <2>5. StorageWithinLimits
    <3>1. Within(0, InitialVolumes)
      <4>1. InitialVolumes \in Nat /\ TriggerPct \in Nat /\ VolumeGb \in Nat
        BY StorageAssumption
      <4>2. Within(0, 0)
        BY <4>1 DEF Within
      <4>. QED  BY <4>1, <4>2, WithinMonotone
    <3>2. OpenGens = {1}
      BY <2>2 DEF OpenGens
    <3>3. Cardinality({1}) = 1 /\ Cardinality({}) = 0
      BY FS_Singleton, FS_EmptySet
    <3>4. 1 * InitialVolumes = InitialVolumes /\ 0 <= MaxVolumes
      BY StorageAssumption
    <3>. QED  BY <2>1, <3>1, <3>2, <3>3, <3>4, StorageAssumption DEF StorageWithinLimits
  <2>6. WorkspacesOnBooks
    <3>1. WorkspaceOf({}) = 0 /\ Cardinality({}) = 0
      BY WorkspaceEmpty, FS_EmptySet
    <3>2. \A i : {j \in mounted : job_gen[j] = i} = {}
      BY <2>1
    <3>. QED  BY <2>1, <2>2, <3>1, <3>2 DEF WorkspacesOnBooks
  <2>. QED  BY <2>3, <2>4, <2>5, <2>6 DEF StorageInv
<1>2. Init => CpuInv /\ mounted = Range(slots)
  <2> SUFFICES ASSUME Init PROVE CpuInv /\ mounted = Range(slots)
    OBVIOUS
  <2>1. /\ solver \in {"k8s", "batch"} /\ slots = <<>> /\ woken = {} /\ mounted = {}
        /\ phase = [j \in Jobs |-> "waiting"] /\ stage = [j \in Jobs |-> 0]
        /\ share = [j \in Jobs |-> 0] /\ rate = [j \in Jobs |-> 0]
    BY DEF Init, CpuInit, StorageInit
  <2>2. Range(slots) = {} /\ Slotted(slots) /\ RunningIn(phase) = {}
    BY <2>1 DEF Range, Slotted, RunningIn, Running
  <2>3. CpuTypes
    BY <2>1 DEF CpuTypes, Phases
  <2>4. SlotsFit
    <3>1. /\ NumJobs \in Nat /\ Soft \in [1..NumJobs -> Nat] /\ share \in [1..NumJobs -> Nat]
      BY <2>1, CpuConstants
    <3>2. SumOver({}, Soft) = 0 /\ SumOver({}, share) = 0
      BY <3>1, SumOverIsAsked, SumEmpty
    <3>3. 0 <= Physical /\ 0 <= Unit * Physical
      BY CpuConstants
    <3>. QED  BY <2>2, <3>2, <3>3 DEF SlotsFit
  <2>5. RatesKept /\ SharesKept
    BY <2>1, <2>2 DEF RatesKept, SharesKept
  <2>. QED  BY <2>1, <2>2, <2>3, <2>4, <2>5 DEF CpuInv
<1>3. NodeInv /\ [Next]_vars => NodeInv'
  <2> SUFFICES ASSUME StorageInv, CpuInv, mounted = Range(slots), [Next]_vars
               PROVE  StorageInv' /\ CpuInv' /\ mounted' = Range(slots')
    BY DEF NodeInv
  <2>0. model \in {"pool", "generational", "dedicated"}
    BY DEF StorageInv, StorageTypeOK, Models
  <2>1. UNCHANGED storageVars => StorageInv' /\ mounted' = mounted
    <3> SUFFICES ASSUME UNCHANGED storageVars PROVE StorageInv' /\ mounted' = mounted
      OBVIOUS
    <3>1. StorageTypeOK'
      BY DEF storageVars, StorageInv, StorageTypeOK
    <3>2. JobsHaveGen'
      BY DEF storageVars, StorageInv, JobsHaveGen
    <3>3. StorageWithinLimits'
      BY DEF storageVars, StorageInv, StorageWithinLimits, OpenGens
    <3>4. WorkspacesOnBooks'
      BY DEF storageVars, StorageInv, WorkspacesOnBooks
    <3>. QED  BY <3>1, <3>2, <3>3, <3>4 DEF StorageInv, storageVars
  <2>2. UNCHANGED cpuVars => CpuInv' /\ Range(slots') = Range(slots)
    <3> SUFFICES ASSUME UNCHANGED cpuVars PROVE CpuInv' /\ Range(slots') = Range(slots)
      OBVIOUS
    <3>1. CpuTypes' /\ SlotsFit'
      BY DEF cpuVars, CpuInv, CpuTypes, SlotsFit
    <3>2. RatesKept' /\ SharesKept'
      BY DEF cpuVars, CpuInv, RatesKept, SharesKept
    <3>. QED  BY <3>1, <3>2 DEF CpuInv, cpuVars
  <2>3. CASE End
    <3>1. CloseStorage /\ UNCHANGED cpuVars
      BY <2>3 DEF End
    <3>2. mounted' = mounted
      BY <3>1 DEF CloseStorage
    <3>. QED  BY <2>2, <3>1, <3>2, CloseStep
  <2>4. ASSUME NEW j \in Jobs, Place(j)
        PROVE  StorageInv' /\ CpuInv' /\ mounted' = Range(slots')
    <3>1. CpuFits(j) /\ JobStart(j) /\ JobEnters(j)
      BY <2>4 DEF Place
    <3>2. StorageInv'
      BY <2>0, <3>1, PoolStartStep, GenStartStep, DedicatedStartStep
    <3>3. CpuInv' /\ Range(slots') = Range(slots) \cup {j}
      BY <3>1, JobEntersStep
    <3>4. mounted' = mounted \cup {j}
      BY <3>1 DEF JobStart
    <3>. QED  BY <3>2, <3>3, <3>4
  <2>5. ASSUME NEW j \in Jobs, Proceed(j)
        PROVE  StorageInv' /\ CpuInv' /\ mounted' = Range(slots')
    BY <2>1, <2>5, PhaseStepStep DEF Proceed
  <2>6. ASSUME NEW j \in Jobs, Complete(j)
        PROVE  StorageInv' /\ CpuInv' /\ mounted' = Range(slots')
    <3>1. JobExit(j) /\ JobLeaves(j)
      BY <2>6 DEF Complete
    <3>2. StorageInv'
      BY <2>0, <3>1, PoolExitStep, GenExitStep, DedicatedExitStep
    <3>3. CpuInv' /\ Range(slots') = Range(slots) \ {j}
      BY <3>1, JobLeavesStep
    <3>4. mounted' = mounted \ {j}
      BY <3>1 DEF JobExit
    <3>. QED  BY <3>2, <3>3, <3>4
  <2>7. CASE UNCHANGED vars
    BY <2>1, <2>2, <2>7 DEF vars
  <2>. QED  BY <2>3, <2>4, <2>5, <2>6, <2>7 DEF Next
<1>. QED  BY <1>1, <1>2, <1>3, PTL DEF Spec, NodeInv

(* The variables keep their types, a job has a slot from its download to   *)
(* the end of its upload, and its volume for as long.                      *)
THEOREM ResourceTypes == Spec => []TypeOK
<1>1. NodeInv => TypeOK
  <2> SUFFICES ASSUME NodeInv PROVE TypeOK
    OBVIOUS
  <2>1. /\ StorageTypeOK /\ CpuTypes /\ Slotted(slots)
        /\ Range(slots) = RunningIn(phase) /\ mounted = OnNode
    BY DEF NodeInv, StorageInv, CpuInv, SlotsFit, OnNode
  <2>2. OnNode = {j \in Jobs : phase[j] \notin {"waiting", "done"}}
    BY <2>1 DEF OnNode, RunningIn, Running, CpuTypes, Phases
  <2>3. Len(slots) = Cardinality(OnNode) /\ slots \in Seq(Jobs)
    BY <2>1, SlottedCount DEF OnNode, Slotted
  <2>4. CpuTypeOK
    BY <2>1, <2>2, <2>3 DEF CpuTypes, CpuTypeOK
  <2>. QED  BY <2>1, <2>4 DEF TypeOK
<1>. QED  BY <1>1, ResourcesInvariant, PTL

(* No pool runs out, none needs more volumes than the instance attaches,   *)
(* and a pool has always grown enough.                                     *)
THEOREM VolumesHaveRoom == Spec => []StorageWithinLimits
<1>1. NodeInv => StorageWithinLimits
  BY DEF NodeInv, StorageInv
<1>. QED  BY <1>1, ResourcesInvariant, PTL

(* The books of the volumes are those of the jobs that are mounted.        *)
THEOREM WorkspacesAccounted == Spec => []WorkspacesOnBooks
<1>1. NodeInv => WorkspacesOnBooks
  BY DEF NodeInv, StorageInv
<1>. QED  BY <1>1, ResourcesInvariant, PTL

(* No stage that sleeps unwoken goes on at a rate that is out of date.     *)
THEOREM RatesAreCurrent == Spec => []NoStaleRate
<1>1. NodeInv => NoStaleRate
  <2> SUFFICES ASSUME NodeInv, NEW j \in OnNode, phase[j] = "workhorse", j \notin woken
               PROVE  rate[j] = RateOf(j, stage[j], share[j])
    BY DEF NoStaleRate
  <2>1. j \in Jobs
    BY PlaceOf DEF NodeInv, CpuInv, SlotsFit, OnNode
  <2>. QED  BY <2>1 DEF NodeInv, CpuInv, RatesKept
<1>. QED  BY <1>1, ResourcesInvariant, PTL

(* Whichever solver runs, and whoever comes and goes, the shares of the    *)
(* jobs on the node are no more than its vCPUs.                            *)
THEOREM SharesFit == Spec => []SharesFitNode
<1>1. NodeInv => SharesFitNode
  BY DEF NodeInv, CpuInv, SlotsFit, SharesFitNode, OnNode
<1>. QED  BY <1>1, ResourcesInvariant, PTL

(* After jobs have left, and the solver has not been run, no job of the    *)
(* auction has more than the auction would give it.                        *)
THEOREM AuctionSharesLag == Spec => [](solver = "k8s" => NoShareTooHigh)
<1>1. NodeInv => (solver = "k8s" => NoShareTooHigh)
  BY DEF NodeInv, CpuInv, SharesKept, NoShareTooHigh, OnNode, Alloc
<1>. QED  BY <1>1, ResourcesInvariant, PTL

(* In every reachable state the auction serves the jobs with the least     *)
(* io_wait first, and leaves over only what no job can use.                *)
THEOREM AuctionServesInOrder == Spec => []AuctionInOrder
<1>1. NodeInv => AuctionInOrder
  <2> SUFFICES ASSUME NodeInv PROVE AuctionInOrder
    OBVIOUS
  <2>1. Slotted(slots)
    BY DEF NodeInv, CpuInv, SlotsFit
  <2>. QED  BY <2>1, AuctionFair DEF AuctionInOrder, OnNode
<1>. QED  BY <1>1, ResourcesInvariant, PTL
=============================================================================
