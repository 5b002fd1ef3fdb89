------------------------- MODULE BatchClusterProofs -------------------------
(***************************************************************************)
(* Proofs about BatchCluster, for any jobs, any instance types, any number *)
(* of nodes and any storage: the types of its variables, and that no node  *)
(* is overloaded by jobs that stay within their peaks; and about           *)
(* RunReport: that the log of a run tells what has happened in it, and     *)
(* that the figures computed from it are those of the run.                 *)
(***************************************************************************)
EXTENDS RunReport, PackingProofs

(* Nodes are launched in their order.                                      *)
LaunchOrder == \A n, m \in Nodes : state[n] # "none" /\ m < n => state[m] # "none"

(* A node with jobs is ready.                                              *)
JobsOnReady == \A j \in Jobs : host[j] # 0 => state[host[j]] = "READY"

(* What the jobs of n reserve is the node's.                               *)
WithinNode(h, n) == LoadOf(h, n, Peak) <= Instances[type[n]].ram - Overhead

Reserved == \A n \in Nodes : On(host, n) # {} => WithinNode(host, n)

(* The inductive invariant.                                                *)
IInv == ClusterTypeOK /\ LaunchOrder /\ JobsOnReady /\ Reserved

-----------------------------------------------------------------------------
(* _best_fit_node: a candidate that has room, or none has.                 *)
LEMMA BestFitFits ==
  ASSUME NEW candidates \in SUBSET Nodes, NEW h, NEW j
  PROVE  \/ /\ BestFit(candidates, h, j) = 0
            /\ \A n \in candidates : ~FitsOn(h, n, j)
         \/ /\ BestFit(candidates, h, j) \in candidates
            /\ FitsOn(h, BestFit(candidates, h, j), j)
<1> DEFINE fit == {n \in candidates : FitsOn(h, n, j)}
           load(n) == LoadOf(h, n, Peak) + LoadOf(h, n, Vcpu)
           Better(n, m) == load(n) > load(m) \/ (load(n) = load(m) /\ n <= m)
           R == {p \in fit \X fit : Better(p[1], p[2])}
           best == CHOOSE x \in fit : \A y \in fit : Better(x, y)
<1>1. BestFit(candidates, h, j) = IF fit = {} THEN 0 ELSE best
  BY DEF BestFit
<1>2. \A n \in candidates : n \in fit <=> FitsOn(h, n, j)
  OBVIOUS
<1>3. IsFiniteSet(fit)
  <2>1. IsFiniteSet(Nodes)
    BY BatchAssumption, FS_Interval DEF Nodes
  <2>. QED  BY <2>1, FS_Subset
<1>4. \A n \in fit : load(n) \in Nat /\ n \in Nat
  <2> TAKE n \in fit
  <2>1. LoadOf(h, n, Peak) \in Nat /\ LoadOf(h, n, Vcpu) \in Nat
    BY BatchAssumption, NumJobsAssumption, SumType DEF LoadOf, Jobs
  <2>. QED  BY <2>1 DEF Nodes
<1> HIDE DEF load
<1>5. CASE fit # {}
  <2> HIDE DEF fit
  <2>1. \A x, y \in fit : Better(x, y) \/ Better(y, x)
    BY <1>4
  <2>2. \A x, y, z \in fit : Better(x, y) /\ Better(y, z) => Better(x, z)
    BY <1>4
  <2> HIDE DEF Better
  <2>3. \A x, y \in fit : <<x, y>> \in R <=> Better(x, y)
    OBVIOUS
  <2> HIDE DEF R
  <2>4. \A x, y \in fit : <<x, y>> \in R \/ <<y, x>> \in R
    BY <2>1, <2>3
  <2>5. \A x, y, z \in fit : <<x, y>> \in R /\ <<y, z>> \in R => <<x, z>> \in R
    BY <2>2, <2>3
  <2>6. \E x \in fit : \A y \in fit : <<x, y>> \in R
    BY <1>3, <1>5, <2>4, <2>5, GreatestExists
  <2>7. best \in fit
    BY <2>3, <2>6
  <2>8. best \in candidates
    BY <2>7 DEF fit
  <2>. QED  BY <1>1, <1>2, <1>5, <2>7, <2>8
<1>6. CASE fit = {}
  BY <1>1, <1>2, <1>6
<1>. QED  BY <1>5, <1>6

(* A set of jobs has a last one.                                           *)
LEMMA LastJob ==
  ASSUME NEW S \in SUBSET Jobs, S # {}
  PROVE  \E j \in S : \A k \in S : k <= j
<1> DEFINE R == {p \in S \X S : p[1] >= p[2]}
<1>1. \A x, y \in S : <<x, y>> \in R <=> x >= y
  OBVIOUS
<1>2. \A x \in S : x \in Nat
  BY DEF Jobs
<1>3. IsFiniteSet(S)
  <2>1. IsFiniteSet(Jobs)
    BY NumJobsAssumption, FS_Interval DEF Jobs
  <2>. QED  BY <2>1, FS_Subset
<1> HIDE DEF R
<1>4. \A x, y \in S : <<x, y>> \in R \/ <<y, x>> \in R
  <2>1. \A x, y \in S : x >= y \/ y >= x
    BY <1>2
  <2>. QED  BY <1>1, <2>1
<1>5. \A x, y, z \in S : <<x, y>> \in R /\ <<y, z>> \in R => <<x, z>> \in R
  BY <1>1, <1>2
<1>6. \E x \in S : \A y \in S : <<x, y>> \in R
  BY <1>3, <1>4, <1>5, GreatestExists
<1>. QED  BY <1>1, <1>2, <1>6

(* Every type of the list has its sizes.                                   *)
LEMMA InstanceType ==
  ASSUME NEW t \in Types
  PROVE  Instances[t] \in [ram : Nat, vcpu : Nat]
<1> DEFINE R == [ram : Nat, vcpu : Nat]
<1>1. Instances \in Seq(R) /\ t \in 1..Len(Instances)
  BY BatchAssumption DEF Types
<1> HIDE DEF R
<1>2. Instances[t] \in R
  BY <1>1
<1>. QED  BY <1>2 DEF R

-----------------------------------------------------------------------------
(* _try_schedule reserves on a node no more than the node has.             *)
LEMMA Scheduled ==
  ASSUME NEW ph \in [Jobs -> Phases], NEW h \in [Jobs -> Nodes \cup {0}],
         NEW st \in [Nodes -> States], ClusterTypeOK,
         \A j \in Jobs : h[j] # 0 <=> ph[j] \in Active,
         \A j \in Jobs : h[j] # 0 => st[h[j]] = "READY",
         \A n \in Nodes : type[n] # 0 <=> st[n] # "none",
         \A n \in Nodes : On(h, n) # {} => WithinNode(h, n),
         TrySchedule(ph, h, st), UNCHANGED <<storage, type>>
  PROVE  /\ (ClusterTypeOK /\ JobsOnReady /\ Reserved)'
         /\ \A n \in Nodes : state'[n] # "none" <=> st[n] # "none"
<1> DEFINE Pick(g, j) == BestFit(Ready(st), g, j)
<1>1. PICK placed \in [Queued(ph) -> Ready(st) \cup {0}] :
        /\ GreedyPass(Queued(ph), h, placed, Pick)
        /\ host' = [j \in Jobs |-> IF j \in Queued(ph) THEN placed[j] ELSE h[j]]
        /\ phase' = [j \in Jobs |-> IF j \in Queued(ph) /\ placed[j] # 0
                                    THEN "download" ELSE ph[j]]
        /\ state' = [n \in Nodes |-> IF n \in Range(placed) THEN "READY" ELSE st[n]]
  BY DEF TrySchedule
<1>2. /\ Ready(st) \subseteq Nodes /\ 0 \notin Nodes /\ Queued(ph) \subseteq Jobs
      /\ \A n \in Ready(st) : st[n] = "READY"
  BY DEF Ready, Nodes, Queued
<1>3. \A j \in Jobs :
        /\ j \in Queued(ph) => host'[j] = placed[j] /\ placed[j] \in Ready(st) \cup {0}
        /\ j \notin Queued(ph) => host'[j] = h[j] /\ phase'[j] = ph[j]
        /\ j \in Queued(ph) /\ placed[j] # 0 => phase'[j] = "download"
        /\ j \in Queued(ph) /\ placed[j] = 0 => phase'[j] = "queued"
        /\ j \in Queued(ph) <=> ph[j] = "queued"
  BY <1>1 DEF Queued
<1>4. \A n \in Nodes : state'[n] = st[n]
  <2>1. \A n \in Range(placed) : n = 0 \/ n \in Ready(st)
    BY DEF Range
  <2>. QED  BY <1>1, <1>2, <2>1
<1>5. ClusterTypeOK'
  <2>1. \A j \in Jobs : /\ host'[j] \in Nodes \cup {0} /\ phase'[j] \in Phases
                        /\ host'[j] # 0 <=> phase'[j] \in Active
    BY <1>2, <1>3 DEF Phases, Active
  <2>2. /\ host' = [j \in Jobs |-> host'[j]] /\ phase' = [j \in Jobs |-> phase'[j]]
        /\ state' = [n \in Nodes |-> state'[n]]
    BY <1>1
  <2>3. host' \in [Jobs -> Nodes \cup {0}] /\ phase' \in [Jobs -> Phases]
    BY <2>1, <2>2
  <2>4. state' \in [Nodes -> States]
    BY <1>4, <2>2
  <2>. QED  BY <1>4, <2>1, <2>3, <2>4 DEF ClusterTypeOK
<1>6. JobsOnReady'
  <2>1. ASSUME NEW j \in Jobs, host'[j] # 0 PROVE state'[host'[j]] = "READY"
    <3>1. host'[j] \in Nodes /\ st[host'[j]] = "READY"
      BY <1>2, <1>3, <2>1
    <3>. QED  BY <1>4, <3>1
  <2>. QED  BY <2>1 DEF JobsOnReady
<1>7. ASSUME NEW n \in Nodes, On(host', n) # {}
      PROVE  WithinNode(host', n)
  <2> DEFINE come == {j \in Queued(ph) : placed[j] = n}
  <2>1. CASE come = {}
    <3>1. On(host', n) = On(h, n)
      <4>1. \A j \in Jobs : host'[j] = n <=> h[j] = n
        <5>1. \A j \in Queued(ph) : h[j] = 0
          BY <1>2, <1>3 DEF Active
        <5>. QED  BY <1>2, <1>3, <2>1, <5>1
      <4>. QED  BY <4>1 DEF On
    <3>. QED  BY <1>7, <3>1 DEF WithinNode, LoadOf
  <2>2. CASE come # {}
    <3>1. PICK j \in come : \A k \in come : k <= j
      <4>1. come \in SUBSET Jobs
        BY <1>2
      <4> HIDE DEF come
      <4>. QED  BY <2>2, <4>1, LastJob
    <3> DEFINE g == Until(j, Queued(ph), h, placed)
    <3>2. j \in Jobs /\ j \in Queued(ph) /\ placed[j] = n /\ placed[j] # 0
      BY <1>2, <3>1
    <3>3. RamFits(g, n, j)
      <4>1. placed[j] = BestFit(Ready(st), g, j)
        BY <1>1, <3>2 DEF GreedyPass
      <4> HIDE DEF g
      <4>. QED  BY <1>2, <3>2, <4>1, BestFitFits DEF FitsOn
    <3>4. DOMAIN h = Jobs
      OBVIOUS
    <3>5. \A k \in Jobs : g[k] = IF k \in Queued(ph) THEN IF k < j THEN placed[k] ELSE 0 ELSE h[k]
      BY <3>4 DEF Until
    <3>6. g[j] # n
      BY <1>2, <3>2, <3>5 DEF Jobs
    <3>7. \A k \in Jobs : k # j => (g[k] = n <=> host'[k] = n)
      <4> SUFFICES ASSUME NEW k \in Jobs, k # j PROVE g[k] = n <=> host'[k] = n
        OBVIOUS
      <4>1. CASE k \notin Queued(ph)
        BY <1>3, <3>5, <4>1
      <4>2. CASE k \in Queued(ph) /\ k < j
        BY <1>3, <3>5, <4>2
      <4>3. CASE k \in Queued(ph) /\ ~(k < j)
        <5>1. placed[k] # n
          <6>1. k \in Int /\ j \in Int
            BY <3>2 DEF Jobs
          <6>. QED  BY <3>1, <4>3, <6>1
        <5>. QED  BY <1>2, <1>3, <3>5, <4>3, <5>1
      <4>. QED  BY <4>1, <4>2, <4>3
    <3> HIDE DEF g
    <3>8. On(host', n) = On(g, n) \cup {j} /\ j \notin On(g, n)
      BY <1>3, <3>2, <3>6, <3>7 DEF On
    <3>9. LoadOf(host', n, Peak) = LoadOf(g, n, Peak) + Peak[j]
      <4> DEFINE S == On(g, n)
      <4>1. LoadOf(host', n, Peak) = Asked(S \cup {j}, Peak, NumJobs)
        BY <3>8 DEF LoadOf
      <4>2. LoadOf(g, n, Peak) = Asked(S, Peak, NumJobs)
        BY DEF LoadOf
      <4>3. j \notin S /\ j \in 1..NumJobs /\ Peak \in [1..NumJobs -> Nat]
        BY <3>2, <3>8, BatchAssumption DEF Jobs
      <4> HIDE DEF S
      <4>4. Asked(S \cup {j}, Peak, NumJobs) = Asked(S, Peak, NumJobs) + Peak[j]
        BY <4>3, NumJobsAssumption, SumAdd
      <4>. QED  BY <4>1, <4>2, <4>4
    <3>. QED  BY <3>3, <3>9 DEF RamFits, WithinNode
  <2>. QED  BY <2>1, <2>2
<1>8. Reserved'
  BY <1>7 DEF Reserved, WithinNode, LoadOf, On
<1>. QED  BY <1>4, <1>5, <1>6, <1>8

-----------------------------------------------------------------------------
(* A type that takes a job in the order of size takes one in the order of  *)
(* arrival, too.                                                           *)
LEMMA CountTakes ==
  ASSUME NEW t \in Types, NEW Q \in SUBSET Jobs
  PROVE  /\ Count[t][Q] \in Nat
         /\ TakenBy[t][Q] \in SUBSET Q
         /\ Count[t][Q] > 0 => TakenBy[t][Q] # {}
<1> DEFINE Larger(j, k) == \/ Peak[j] > Peak[k]
                           \/ /\ Peak[j] = Peak[k]
                              /\ Vcpu[j] > Vcpu[k] \/ (Vcpu[j] = Vcpu[k] /\ j < k)
           Room(B, j) == /\ Asked(B \cup {j}, Peak, NumJobs) <= Instances[t].ram
                         /\ Asked(B \cup {j}, Vcpu, NumJobs) <= Instances[t].vcpu
           Earlier == {p \in Q \X Q : Larger(p[1], p[2])}
           fits == {p \in (SUBSET Q) \X Q : Room(p[1], p[2])}
           taken == CHOOSE S \in SUBSET Q : \A j \in Q :
                      LET before == {k \in S : Larger(k, j)} \cup {j}
                      IN  j \in S <=> /\ Asked(before, Peak, NumJobs) <= Instances[t].ram
                                      /\ Asked(before, Vcpu, NumJobs) <= Instances[t].vcpu
<1>1. \A j \in Q : Peak[j] \in Nat /\ Vcpu[j] \in Nat /\ j \in Nat
  BY BatchAssumption DEF Jobs
<1>2. /\ \A x, y \in Q : <<x, y>> \in Earlier <=> Larger(x, y)
      /\ fits \in SUBSET ((SUBSET Q) \X Q)
      /\ \A B \in SUBSET Q, j \in Q : <<B, j>> \in fits <=> Room(B, j)
  <2> HIDE DEF Larger, Room
  <2>. QED  OBVIOUS
<1>3. IsFiniteSet(Q)
  <2>1. IsFiniteSet(Jobs)
    BY NumJobsAssumption, FS_Interval DEF Jobs
  <2>. QED  BY <2>1, FS_Subset
<1> HIDE DEF Earlier, fits
<1>4. StrictOrder(Earlier, Q)
  <2>1. \A x \in Q : ~Larger(x, x)
    BY <1>1
  <2>2. \A x, y \in Q : x # y => Larger(x, y) \/ Larger(y, x)
    BY <1>1
  <2>3. \A x, y, z \in Q : Larger(x, y) /\ Larger(y, z) => Larger(x, z)
    BY <1>1
  <2> HIDE DEF Larger
  <2>. QED  BY <1>2, <2>1, <2>2, <2>3 DEF StrictOrder
<1>5. PICK S \in SUBSET Q : TakenFrom(Q, S, Earlier, fits)
  BY <1>2, <1>3, <1>4, GreedyExists
<1>6. \A j \in Q : j \in S <=> Room({k \in S : Larger(k, j)}, j)
  <2> HIDE DEF Room, Larger
  <2> TAKE j \in Q
  <2>1. Ahead(S, j, Earlier) = {k \in S : Larger(k, j)}
    BY <1>2 DEF Ahead
  <2>. QED  BY <1>2, <1>5, <2>1 DEF TakenFrom
<1>7. /\ taken \in SUBSET Q
      /\ \A j \in Q : j \in taken <=> Room({k \in taken : Larger(k, j)}, j)
  <2> HIDE DEF Larger
  <2>. QED  BY <1>6
<1>8. Count[t][Q] = Cardinality(taken)
  BY DEF Count
<1> HIDE DEF taken
<1>9. IsFiniteSet(taken) /\ Count[t][Q] \in Nat /\ (Count[t][Q] = 0 <=> taken = {})
  <2>1. IsFiniteSet(taken)
    BY <1>3, <1>7, FS_Subset
  <2>. QED  BY <1>8, <2>1, FS_CardinalityType, FS_EmptySet
<1>10. /\ TakenBy[t][Q] = OneNode(Q, Instances[t].ram, Instances[t].vcpu, Peak, Vcpu, NumJobs)
       /\ TakenBy[t][Q] \in SUBSET Q
  <2>1. TakenBy[t][Q] = OneNode(Q, Instances[t].ram, Instances[t].vcpu, Peak, Vcpu, NumJobs)
    BY DEF TakenBy
  <2>. QED  BY <2>1, NumJobsAssumption, OneNodeType DEF Jobs
<1>11. ASSUME NEW j \in taken, TakenBy[t][Q] = {}
       PROVE  FALSE
  <2>1. j \in Q /\ Room({k \in taken : Larger(k, j)}, j)
    BY <1>7
  <2> DEFINE B == {k \in taken : Larger(k, j)} \cup {j}
             ram == Instances[t].ram
             vcpu == Instances[t].vcpu
  <2>2. ram \in Nat /\ vcpu \in Nat
    BY InstanceType
  <2>3. Asked(B, Peak, NumJobs) <= ram /\ Asked(B, Vcpu, NumJobs) <= vcpu
    BY <2>1
  <2>4. j \in 1..NumJobs /\ j \in B /\ NumJobs \in Nat
    BY <2>1, NumJobsAssumption DEF Jobs
  <2> HIDE DEF B, ram, vcpu
  <2>5. Peak[j] <= ram /\ Vcpu[j] <= vcpu
    <3>1. /\ Peak[j] <= Asked(B, Peak, NumJobs) /\ Asked(B, Peak, NumJobs) \in Nat
          /\ Vcpu[j] <= Asked(B, Vcpu, NumJobs) /\ Asked(B, Vcpu, NumJobs) \in Nat
      BY <2>4, BatchAssumption, SumAtLeast, SumType DEF Jobs
    <3>. QED  BY <1>1, <2>1, <2>2, <2>3, <3>1
  <2>6. Asked({}, Peak, NumJobs) = 0 /\ Asked({}, Vcpu, NumJobs) = 0
    BY NumJobsAssumption, BatchAssumption, SumEmpty DEF Jobs
  <2>7. ~(/\ Asked({}, Peak, NumJobs) + Peak[j] <= ram
          /\ Asked({}, Vcpu, NumJobs) + Vcpu[j] <= vcpu)
    BY <1>10, <1>11, <2>1, NumJobsAssumption, OneNodeNone DEF Jobs, ram, vcpu
  <2>. QED  BY <1>1, <2>1, <2>5, <2>6, <2>7
<1>. QED  BY <1>9, <1>10, <1>11

(* _select_instance_for_overflow: none, or a type that takes a job.        *)
LEMMA SelectTakes ==
  ASSUME NEW S \in SUBSET Jobs
  PROVE  /\ Select[S] \in Types \cup {0}
         /\ Select[S] # 0 => TakenBy[Select[S]][S] # {}
<1> DEFINE fit == {t \in Types : Count[t][S] > 0}
           Better(t, u) == Count[t][S] > Count[u][S] \/ (Count[t][S] = Count[u][S] /\ t <= u)
           R == {p \in fit \X fit : Better(p[1], p[2])}
           best == CHOOSE t \in fit : \A u \in fit : Better(t, u)
<1>1. Select[S] = IF fit = {} THEN 0 ELSE best
  BY DEF Select
<1>2. \A t \in fit : t \in Types /\ Count[t][S] > 0
  OBVIOUS
<1>3. IsFiniteSet(fit)
  <2>1. IsFiniteSet(Types)
    BY BatchAssumption, FS_Interval DEF Types
  <2>. QED  BY <2>1, FS_Subset
<1> HIDE DEF fit
<1>4. \A t \in fit : Count[t][S] \in Nat /\ t \in Int
  BY <1>2, CountTakes DEF Types
<1>5. CASE fit # {}
  <2>1. \A x, y \in fit : Better(x, y) \/ Better(y, x)
    BY <1>4
  <2>2. \A x, y, z \in fit : Better(x, y) /\ Better(y, z) => Better(x, z)
    BY <1>4
  <2> HIDE DEF Better
  <2>3. \A x, y \in fit : <<x, y>> \in R <=> Better(x, y)
    OBVIOUS
  <2> HIDE DEF R
  <2>4. \A x, y \in fit : <<x, y>> \in R \/ <<y, x>> \in R
    BY <2>1, <2>3
  <2>5. \A x, y, z \in fit : <<x, y>> \in R /\ <<y, z>> \in R => <<x, z>> \in R
    BY <2>2, <2>3
  <2>6. \E x \in fit : \A y \in fit : <<x, y>> \in R
    BY <1>3, <1>5, <2>4, <2>5, GreatestExists
  <2>7. best \in fit
    BY <2>3, <2>6
  <2>. QED  BY <1>1, <1>2, <1>5, <2>7, CountTakes
<1>6. CASE fit = {}
  BY <1>1, <1>6
<1>. QED  BY <1>5, <1>6

(* _provision_to_demand ends, with a list of instance types.               *)
LEMMA LaunchesType ==
  ASSUME NEW S \in SUBSET Jobs
  PROVE  Launches[S] \in Seq(Types)
<1> DEFINE choice == [W \in SUBSET Jobs |-> IF W = {} THEN 0 ELSE Select[W]]
           left == [W \in SUBSET Jobs |-> W \ TakenBy[Select[W]][W]]
           Body(f) == [W \in SUBSET Jobs |->
                         IF W = {} THEN <<>> ELSE IF Select[W] = 0 THEN <<>>
                         ELSE <<Select[W]>> \o f[W \ TakenBy[Select[W]][W]]]
<1>1. choice \in [SUBSET Jobs -> Types \cup {0}]
  BY SelectTakes
<1>2. Shrinks(Jobs, choice, left)
  <2> SUFFICES ASSUME NEW W \in SUBSET Jobs, W # {}, choice[W] # 0
               PROVE  left[W] \in SUBSET W /\ left[W] # W
    BY DEF Shrinks
  <2>1. Select[W] # 0 /\ Select[W] \in Types /\ TakenBy[Select[W]][W] # {}
    BY SelectTakes
  <2>2. TakenBy[Select[W]][W] \in SUBSET W
    BY <2>1, CountTakes
  <2>. QED  BY <2>1, <2>2
<1>3. \A f : Pass(f, Jobs, choice, left) = Body(f)
  <2> TAKE f
  <2>1. \A W \in SUBSET Jobs : Pass(f, Jobs, choice, left)[W] = Body(f)[W]
    BY DEF Pass
  <2>. QED  BY <2>1 DEF Pass
<1>4. IsFiniteSet(Jobs)
  BY NumJobsAssumption, FS_Interval DEF Jobs
<1>5. Launches = CHOOSE f : f = Body(f)
  BY DEF Launches
<1> HIDE DEF Body, choice, left
<1>6. \E f : f = Body(f)
  <2>1. PICK f : f = Pass(f, Jobs, choice, left)
    BY <1>1, <1>2, <1>4, PassExists
  <2>2. f = Body(f)
    BY <1>3, <2>1
  <2>. QED  BY <2>2
<1>7. Launches = Body(Launches)
  BY <1>5, <1>6
<1>. QED  BY <1>1, <1>2, <1>3, <1>4, <1>7, PassType

-----------------------------------------------------------------------------
(* A job that arrives.                                                     *)
LEMMA ArriveStep ==
  ASSUME IInv, NEW j \in Jobs, Arrive(j)
  PROVE  IInv'
<1> DEFINE ph == [phase EXCEPT ![j] = "queued"]
<1>1. phase[j] = "absent" /\ UNCHANGED <<storage, type>> /\ TrySchedule(ph, host, state)
  BY DEF Arrive
<1>2. /\ ph \in [Jobs -> Phases]
      /\ \A k \in Jobs : ph[k] \in Active <=> phase[k] \in Active
  BY <1>1 DEF IInv, ClusterTypeOK, Phases, Active
<1> HIDE DEF ph
<1>3. /\ (ClusterTypeOK /\ JobsOnReady /\ Reserved)'
      /\ \A n \in Nodes : state'[n] # "none" <=> state[n] # "none"
  BY <1>1, <1>2, Scheduled DEF IInv, ClusterTypeOK, JobsOnReady, Reserved
<1>. QED  BY <1>3 DEF IInv, LaunchOrder

(* A job that goes on to its next phase.                                   *)
LEMMA NextPhaseStep ==
  ASSUME IInv, NEW j \in Jobs, NextPhase(j)
  PROVE  IInv'
<1>1. /\ UNCHANGED <<storage, host, state, type>>
      /\ phase[j] \in Active /\ phase'[j] \in Active
      /\ \A k \in Jobs : k # j => phase'[k] = phase[k]
      /\ phase' \in [Jobs -> Phases]
  BY DEF NextPhase, IInv, ClusterTypeOK, Active, Phases
<1>2. ClusterTypeOK'
  BY <1>1 DEF IInv, ClusterTypeOK
<1>3. (LaunchOrder /\ JobsOnReady /\ Reserved)'
  BY <1>1 DEF IInv, LaunchOrder, JobsOnReady, Reserved, WithinNode, LoadOf, On
<1>. QED  BY <1>2, <1>3 DEF IInv

(* A job that ends, and its node, which is idle when that was its last.    *)
LEMMA CompleteStep ==
  ASSUME IInv, NEW j \in Jobs, Complete(j)
  PROVE  IInv'
<1> DEFINE n == host[j]
           h == [host EXCEPT ![j] = 0]
           ph == [phase EXCEPT ![j] = "done"]
           st == IF On(h, n) = {} THEN [state EXCEPT ![n] = "IDLE"] ELSE state
<1>1. phase[j] = "upload" /\ UNCHANGED <<storage, type>> /\ TrySchedule(ph, h, st)
  BY DEF Complete
<1>2. n \in Nodes /\ state[n] = "READY"
  BY <1>1 DEF IInv, ClusterTypeOK, JobsOnReady, Active
<1>3. /\ h \in [Jobs -> Nodes \cup {0}] /\ ph \in [Jobs -> Phases] /\ st \in [Nodes -> States]
      /\ \A k \in Jobs : k # j => h[k] = host[k] /\ ph[k] = phase[k]
      /\ h[j] = 0 /\ ph[j] = "done"
      /\ \A m \in Nodes : m # n => st[m] = state[m]
      /\ st[n] \in {"READY", "IDLE"} /\ (On(h, n) # {} => st[n] = "READY")
  BY <1>2 DEF IInv, ClusterTypeOK, Phases, States
<1> HIDE DEF h, ph, st
<1>4. \A k \in Jobs : h[k] # 0 <=> ph[k] \in Active
  BY <1>3 DEF IInv, ClusterTypeOK, Active
<1>5. \A k \in Jobs : h[k] # 0 => st[h[k]] = "READY"
  <2> SUFFICES ASSUME NEW k \in Jobs, h[k] # 0 PROVE st[h[k]] = "READY"
    OBVIOUS
  <2>1. h[k] = host[k] /\ host[k] \in Nodes /\ state[host[k]] = "READY"
    BY <1>3 DEF IInv, ClusterTypeOK, JobsOnReady
  <2>2. CASE h[k] = n
    BY <1>3, <2>2 DEF On
  <2>3. CASE h[k] # n
    BY <1>3, <2>1, <2>3
  <2>. QED  BY <2>2, <2>3
<1>6. \A m \in Nodes : type[m] # 0 <=> st[m] # "none"
  BY <1>2, <1>3 DEF IInv, ClusterTypeOK
<1>7. ASSUME NEW m \in Nodes, On(h, m) # {}
      PROVE  WithinNode(h, m)
  <2>1. On(h, m) \subseteq On(host, m)
    BY <1>3 DEF On, Nodes
  <2>2. LoadOf(h, m, Peak) <= LoadOf(host, m, Peak)
        /\ LoadOf(h, m, Peak) \in Nat /\ LoadOf(host, m, Peak) \in Nat
    BY <2>1, NumJobsAssumption, BatchAssumption, SumMonotone, SumType DEF LoadOf, Jobs
  <2>3. WithinNode(host, m)
    BY <1>7, <2>1 DEF IInv, Reserved
  <2>4. Instances[type[m]].ram - Overhead \in Int
    <3>1. type[m] \in Types
      <4>1. PICK k \in Jobs : h[k] = m
        BY <1>7 DEF On
      <4>2. st[m] = "READY"
        BY <1>5, <4>1 DEF Nodes
      <4>. QED  BY <1>6, <4>2 DEF IInv, ClusterTypeOK
    <3>. QED  BY <3>1, InstanceType, BatchAssumption
  <2>. QED  BY <2>2, <2>3, <2>4 DEF WithinNode
<1>8. /\ (ClusterTypeOK /\ JobsOnReady /\ Reserved)'
      /\ \A m \in Nodes : state'[m] # "none" <=> st[m] # "none"
  BY <1>1, <1>3, <1>4, <1>5, <1>6, <1>7, Scheduled DEF IInv
<1>9. \A m \in Nodes : state'[m] # "none" <=> state[m] # "none"
  BY <1>2, <1>3, <1>8
<1>. QED  BY <1>8, <1>9 DEF IInv, LaunchOrder

(* A node that has warmed up.                                              *)
LEMMA NodeReadyStep ==
  ASSUME IInv, NEW n \in Nodes, NodeReady(n)
  PROVE  IInv'
<1> DEFINE st == [state EXCEPT ![n] = "READY"]
<1>1. state[n] = "LAUNCHING" /\ UNCHANGED <<storage, type>> /\ TrySchedule(phase, host, st)
  BY DEF NodeReady
<1>2. /\ st \in [Nodes -> States] /\ \A m \in Nodes : st[m] # "none" <=> state[m] # "none"
      /\ \A m \in Nodes : state[m] = "READY" => st[m] = "READY"
  BY <1>1 DEF IInv, ClusterTypeOK, States
<1> HIDE DEF st
<1>3. /\ (ClusterTypeOK /\ JobsOnReady /\ Reserved)'
      /\ \A m \in Nodes : state'[m] # "none" <=> st[m] # "none"
  <2>1. \A j \in Jobs : host[j] # 0 => st[host[j]] = "READY"
    BY <1>2 DEF IInv, ClusterTypeOK, JobsOnReady
  <2>2. \A m \in Nodes : type[m] # 0 <=> st[m] # "none"
    BY <1>2 DEF IInv, ClusterTypeOK
  <2>. QED  BY <1>1, <1>2, <2>1, <2>2, Scheduled DEF IInv, ClusterTypeOK, Reserved
<1>. QED  BY <1>2, <1>3 DEF IInv, LaunchOrder

(* A node that has been idle long enough.                                  *)
LEMMA IdleFiresStep ==
  ASSUME IInv, NEW n \in Nodes, IdleFires(n)
  PROVE  IInv'
<1>1. /\ state[n] = "IDLE" /\ UNCHANGED <<storage, phase, host, type>>
      /\ state' = [state EXCEPT ![n] = "TERMINATED"]
  BY DEF IdleFires
<1>2. /\ state' \in [Nodes -> States] /\ \A m \in Nodes : state'[m] # "none" <=> state[m] # "none"
      /\ \A m \in Nodes : state[m] = "READY" => state'[m] = "READY"
  BY <1>1 DEF IInv, ClusterTypeOK, States
<1>3. ClusterTypeOK'
  BY <1>1, <1>2 DEF IInv, ClusterTypeOK
<1>4. JobsOnReady'
  BY <1>1, <1>2 DEF IInv, ClusterTypeOK, JobsOnReady
<1>5. Reserved'
  BY <1>1 DEF IInv, Reserved, WithinNode, LoadOf, On
<1>. QED  BY <1>2, <1>3, <1>4, <1>5 DEF IInv, LaunchOrder

(* The nodes launched for the overflow of the queue are new.               *)
LEMMA ProvisionLaunches ==
  ASSUME IInv, Provision
  PROVE  /\ UNCHANGED <<storage, phase, host>> /\ LaunchOrder'
         /\ \A n \in Nodes :
              \/ state'[n] = state[n] /\ type'[n] = type[n]
              \/ state[n] = "none" /\ state'[n] = "LAUNCHING" /\ type'[n] \in Types
<1> DEFINE types == Launches[Overflow]
           from == Cardinality(Launched)
           new == (from+1)..(from+Len(types))
<1>1. /\ state' = [n \in Nodes |-> IF n \in new THEN "LAUNCHING" ELSE state[n]]
      /\ type' = [n \in Nodes |-> IF n \in new THEN types[n - from] ELSE type[n]]
      /\ UNCHANGED <<storage, phase, host>>
  BY DEF Provision
<1>2. types \in Seq(Types)
  <2>1. Overflow \in SUBSET Jobs
    BY DEF Overflow, Queued
  <2>. QED  BY <2>1, LaunchesType
<1>3. from \in Nat /\ Launched = 1..from
  <2>1. Launched \in SUBSET (1..MaxNodes)
    BY DEF Launched, Nodes
  <2>2. \A x \in Launched, y \in 1..MaxNodes : y < x => y \in Launched
    BY DEF Launched, Nodes, IInv, LaunchOrder
  <2>. QED  BY <2>1, <2>2, BatchAssumption, PrefixIsInterval
<1> HIDE DEF types, from
<1>4. \A n \in new : n - from \in 1..Len(types)
  BY <1>2, <1>3
<1>5. \A n \in new : types[n - from] \in Types
  BY <1>2, <1>4
<1>6. \A n \in Nodes \cap new : state[n] = "none"
  <2>1. \A n \in new : n \notin Launched
    BY <1>2, <1>3
  <2>. QED  BY <2>1 DEF Launched
<1>7. \A n \in Nodes :
        /\ n \in new => /\ state'[n] = "LAUNCHING" /\ type'[n] \in Types
                        /\ state[n] = "none"
        /\ n \notin new => state'[n] = state[n] /\ type'[n] = type[n]
  BY <1>1, <1>5, <1>6
<1>8. LaunchOrder'
  <2> SUFFICES ASSUME NEW n \in Nodes, NEW m \in Nodes, state'[n] # "none", m < n,
                      state'[m] = "none"
               PROVE  FALSE
    BY DEF LaunchOrder
  <2>1. m \notin new /\ state[m] = "none" /\ m \notin Launched
    BY <1>7 DEF Launched
  <2>2. CASE n \in new
    BY <1>2, <1>3, <2>1, <2>2 DEF Nodes, new
  <2>3. CASE n \notin new
    BY <1>7, <2>1, <2>3 DEF IInv, LaunchOrder
  <2>. QED  BY <2>2, <2>3
<1> HIDE DEF new
<1>. QED  BY <1>1, <1>7, <1>8

(* A pass that provisions keeps the invariant.                             *)
LEMMA ProvisionStep ==
  ASSUME IInv, Provision
  PROVE  IInv'
<1>1. /\ UNCHANGED <<storage, phase, host>> /\ LaunchOrder'
      /\ \A n \in Nodes :
           \/ state'[n] = state[n] /\ type'[n] = type[n]
           \/ state[n] = "none" /\ state'[n] = "LAUNCHING" /\ type'[n] \in Types
  BY ProvisionLaunches
<1>2. ClusterTypeOK'
  <2>1. \A n \in Nodes : state'[n] \in States /\ type'[n] \in Types \cup {0}
    BY <1>1 DEF IInv, ClusterTypeOK, States
  <2>2. state' \in [Nodes -> States] /\ type' \in [Nodes -> Types \cup {0}]
    <3>1. state' = [n \in Nodes |-> state'[n]] /\ type' = [n \in Nodes |-> type'[n]]
      BY DEF Provision
    <3>. QED  BY <2>1, <3>1
  <2>3. \A n \in Nodes : type'[n] # 0 <=> state'[n] # "none"
    <3>1. 0 \notin Types
      BY DEF Types
    <3>. QED  BY <1>1, <3>1 DEF IInv, ClusterTypeOK
  <2>. QED  BY <1>1, <2>2, <2>3 DEF IInv, ClusterTypeOK
<1>3. \A j \in Jobs : host[j] # 0 =>
        /\ host[j] \in Nodes /\ state[host[j]] = "READY"
        /\ state'[host[j]] = "READY" /\ type'[host[j]] = type[host[j]]
  BY <1>1 DEF IInv, ClusterTypeOK, JobsOnReady
<1>4. JobsOnReady'
  BY <1>1, <1>3 DEF JobsOnReady
<1>5. Reserved'
  <2> SUFFICES ASSUME NEW n \in Nodes, On(host, n) # {}
               PROVE  WithinNode(host, n)'
    BY <1>1 DEF Reserved, On
  <2>1. type'[n] = type[n]
    BY <1>3 DEF On, Nodes
  <2>. QED  BY <1>1, <2>1 DEF IInv, Reserved, WithinNode, LoadOf, On
<1>. QED  BY <1>1, <1>2, <1>4, <1>5 DEF IInv

LEMMA ClusterStart ==
  ASSUME ClusterInit
  PROVE  IInv
<1>1. ClusterTypeOK
  BY DEF ClusterInit, ClusterTypeOK, Phases, States, Active
<1>2. LaunchOrder /\ JobsOnReady
  BY DEF ClusterInit, LaunchOrder, JobsOnReady
<1>3. Reserved
  BY DEF ClusterInit, Reserved, On, Nodes
<1>. QED  BY <1>1, <1>2, <1>3 DEF IInv

LEMMA ClusterStays ==
  ASSUME IInv, UNCHANGED clusterVars
  PROVE  IInv'
<1>1. (ClusterTypeOK /\ LaunchOrder /\ JobsOnReady)'
  BY DEF clusterVars, IInv, ClusterTypeOK, LaunchOrder, JobsOnReady
<1>2. Reserved'
  BY DEF clusterVars, IInv, Reserved, WithinNode, LoadOf, On
<1>. QED  BY <1>1, <1>2 DEF IInv

LEMMA ClusterStep ==
  ASSUME IInv, ClusterNext
  PROVE  IInv'
BY ArriveStep, NextPhaseStep, CompleteStep, NodeReadyStep, IdleFiresStep, ProvisionStep DEF ClusterNext

-----------------------------------------------------------------------------
(* The invariant holds in every reachable state.                           *)
THEOREM BatchInvariant == ClusterSpec => []IInv
<1>1. IInv /\ [ClusterNext]_clusterVars => IInv'
  BY ClusterStep, ClusterStays
<1>. QED  BY <1>1, ClusterStart, PTL DEF ClusterSpec

(* The variables keep their types: every job that runs has a host, and     *)
(* every node that is launched its instance type.                          *)
THEOREM BatchTypes == ClusterSpec => []ClusterTypeOK
<1>1. IInv => ClusterTypeOK
  BY DEF IInv
<1>. QED  BY <1>1, BatchInvariant, PTL

(* No node is overloaded by jobs that stay within their peaks, whatever    *)
(* phases they are in together: check_and_handle never finds a victim, as  *)
(* the module has it.  Of jobs that use more than they reserved it says    *)
(* nothing.                                                                *)
THEOREM BatchNeverOverloaded == WithinPeaks => (ClusterSpec => []NeverOverloaded)
<1> SUFFICES ASSUME WithinPeaks PROVE ClusterSpec => []NeverOverloaded
  OBVIOUS
<1>1. IInv => NeverOverloaded
  <2> SUFFICES ASSUME IInv, NEW n \in Nodes, On(host, n) # {}
               PROVE  Asked(On(host, n),
                            [j \in Jobs |-> IF phase[j] \in Active THEN Use[j][phase[j]] ELSE 0],
                            NumJobs) <= Instances[type[n]].ram - Overhead
    BY DEF NeverOverloaded
  <2> DEFINE used == [j \in Jobs |-> IF phase[j] \in Active THEN Use[j][phase[j]] ELSE 0]
             S == On(host, n)
  <2>1. /\ used \in [1..NumJobs -> Nat] /\ Peak \in [1..NumJobs -> Nat]
        /\ \A j \in 1..NumJobs : used[j] <= Peak[j]
    BY BatchAssumption DEF Jobs, WithinPeaks
  <2> HIDE DEF used, S
  <2>2. Asked(S, used, NumJobs) <= Asked(S, Peak, NumJobs)
    BY <2>1, NumJobsAssumption, SumBelow
  <2>3. Asked(S, used, NumJobs) \in Nat /\ Asked(S, Peak, NumJobs) \in Nat
    BY <2>1, NumJobsAssumption, SumType
  <2>4. Asked(S, Peak, NumJobs) <= Instances[type[n]].ram - Overhead
    BY DEF IInv, Reserved, WithinNode, LoadOf, S
  <2>5. Instances[type[n]].ram - Overhead \in Int
    <3>1. type[n] \in Types
      <4>1. PICK j \in Jobs : host[j] = n
        BY DEF On
      <4>2. state[n] = "READY"
        BY <4>1 DEF IInv, JobsOnReady, Nodes
      <4>. QED  BY <4>2 DEF IInv, ClusterTypeOK
    <3>. QED  BY <3>1, InstanceType, BatchAssumption
  <2>. QED  BY <2>2, <2>3, <2>4, <2>5 DEF used, S
<1>. QED  BY <1>1, BatchInvariant, PTL

(* Whatever waits, there is a placement of it that the pass yields: no     *)
(* step that schedules is cut off.                                         *)
THEOREM BatchPassExists ==
  ASSUME NEW ph, NEW h \in [Jobs -> Nodes \cup {0}], NEW st
  PROVE  LET Pick(g, j) == BestFit(Ready(st), g, j)
         IN  \E placed \in [Queued(ph) -> Ready(st) \cup {0}] : GreedyPass(Queued(ph), h, placed, Pick)
<1> DEFINE C == Ready(st)
           H == Nodes \cup {0}
           V == C \cup {0}
           Q == Queued(ph)
           pick == [g \in [1..NumJobs -> H] |-> [j \in Q |-> BestFit(C, g, j)]]
<1>1. NumJobs \in Nat /\ Q \in SUBSET (1..NumJobs) /\ h \in [1..NumJobs -> H]
  BY NumJobsAssumption DEF Jobs, Queued
<1>2. C \in SUBSET Nodes /\ V \in SUBSET H /\ 0 \in V
  BY DEF Ready
<1> HIDE DEF C
<1>3. \A g, j : BestFit(C, g, j) \in V
  BY <1>2, BestFitFits
<1> HIDE DEF Q, H, V
<1>4. \A g \in [1..NumJobs -> H], j \in Q : pick[g][j] = BestFit(C, g, j) /\ pick[g][j] \in V
  BY <1>3
<1> HIDE DEF pick
<1>5. PICK placed \in [Q -> V] : \A j \in Q : placed[j] = pick[Until(j, Q, h, placed)][j]
  <2> DEFINE n == NumJobs
  <2>1. n \in Nat /\ Q \in SUBSET (1..n) /\ h \in [1..n -> H] /\ V \in SUBSET H /\ 0 \in V
    BY <1>1, <1>2
  <2>2. Picks(pick, [1..n -> H], Q, V)
    BY <1>4 DEF Picks
  <2> HIDE DEF n
  <2>3. \E placed \in [Q -> V] : Follows(placed, pick, Q, h)
    BY <2>1, <2>2, GreedyPlaces
  <2>. QED  BY <2>3 DEF Follows
<1>6. \A j \in Q : Until(j, Q, h, placed) \in [1..NumJobs -> H]
  <2>1. \A k \in Q : placed[k] \in H
    BY <1>2
  <2>2. 0 \in H
    BY DEF H
  <2>. QED  BY <1>1, <2>1, <2>2 DEF Until
<1>7. \A j \in Q : placed[j] = BestFit(C, Until(j, Q, h, placed), j)
  BY <1>4, <1>5, <1>6
<1>. QED  BY <1>5, <1>7 DEF GreedyPass, C, Q, V

-----------------------------------------------------------------------------
(* What a step of the cluster may do to one job, and to one node: it goes  *)
(* on by one phase, a job that has just arrived by two at most; a node     *)
(* that has emptied takes no job any more.                                 *)
JobMoves(j) ==
  \/ phase'[j] = phase[j] /\ host'[j] = host[j]
  \/ phase[j] = "absent" /\ phase'[j] = "queued" /\ host'[j] = 0
  \/ /\ phase[j] \in {"absent", "queued"} /\ phase'[j] = "download"
     /\ host'[j] \in Nodes /\ state'[host'[j]] = "READY"
  \/ /\ <<phase[j], phase'[j]>> \in {<<"download", "preprocess">>, <<"preprocess", "workhorse">>,
                                     <<"workhorse", "upload">>}
     /\ host'[j] = host[j]
  \/ phase[j] = "upload" /\ phase'[j] = "done" /\ host'[j] = 0

NodeMoves(n) ==
  \/ state'[n] = state[n] /\ (state[n] = "READY" /\ On(host, n) # {} => On(host', n) # {})
  \/ state[n] = "none" /\ state'[n] = "LAUNCHING"
  \/ state[n] = "LAUNCHING" /\ state'[n] = "READY"
  \/ state[n] = "READY" /\ state'[n] = "IDLE" /\ On(host, n) # {} /\ On(host', n) = {}
  \/ state[n] = "IDLE" /\ state'[n] = "TERMINATED"

(* A pass leaves the nodes as they are, and a job that waits goes on       *)
(* waiting or to a ready node.                                             *)
LEMMA ScheduledMoves ==
  ASSUME NEW ph \in [Jobs -> Phases], NEW h \in [Jobs -> Nodes \cup {0}],
         NEW st \in [Nodes -> States], TrySchedule(ph, h, st)
  PROVE  /\ \A n \in Nodes : state'[n] = st[n]
         /\ \A j \in Jobs : ph[j] # "queued" => phase'[j] = ph[j] /\ host'[j] = h[j]
         /\ \A j \in Jobs : ph[j] = "queued" =>
              \/ phase'[j] = "queued" /\ host'[j] = 0
              \/ /\ phase'[j] = "download" /\ host'[j] \in Nodes
                 /\ st[host'[j]] = "READY" /\ state'[host'[j]] = "READY"
<1> DEFINE Pick(g, j) == BestFit(Ready(st), g, j)
<1>1. PICK placed \in [Queued(ph) -> Ready(st) \cup {0}] :
        /\ host' = [j \in Jobs |-> IF j \in Queued(ph) THEN placed[j] ELSE h[j]]
        /\ phase' = [j \in Jobs |-> IF j \in Queued(ph) /\ placed[j] # 0
                                    THEN "download" ELSE ph[j]]
        /\ state' = [n \in Nodes |-> IF n \in Range(placed) THEN "READY" ELSE st[n]]
  BY DEF TrySchedule
<1>2. /\ Ready(st) \subseteq Nodes /\ 0 \notin Nodes
      /\ \A n \in Ready(st) : st[n] = "READY"
      /\ \A j \in Jobs : j \in Queued(ph) <=> ph[j] = "queued"
  BY DEF Ready, Nodes, Queued
<1>3. \A n \in Nodes : state'[n] = st[n]
  <2>1. \A n \in Range(placed) : n = 0 \/ n \in Ready(st)
    BY DEF Range
  <2>. QED  BY <1>1, <1>2, <2>1
<1>4. \A j \in Jobs : ph[j] # "queued" => phase'[j] = ph[j] /\ host'[j] = h[j]
  BY <1>1, <1>2
<1>5. ASSUME NEW j \in Jobs, ph[j] = "queued"
      PROVE  \/ phase'[j] = "queued" /\ host'[j] = 0
             \/ /\ phase'[j] = "download" /\ host'[j] \in Nodes
                /\ st[host'[j]] = "READY" /\ state'[host'[j]] = "READY"
  <2>1. j \in Queued(ph) /\ placed[j] \in Ready(st) \cup {0}
    BY <1>2, <1>5
  <2>2. CASE placed[j] = 0
    BY <1>1, <1>5, <2>1, <2>2
  <2>3. CASE placed[j] # 0
    BY <1>1, <1>2, <1>3, <2>1, <2>3
  <2>. QED  BY <2>2, <2>3
<1>. QED  BY <1>3, <1>4, <1>5

(* Every step of the cluster moves jobs and nodes like this.               *)
LEMMA ArriveMoves ==
  ASSUME IInv, NEW j \in Jobs, Arrive(j)
  PROVE  (\A k \in Jobs : JobMoves(k)) /\ (\A n \in Nodes : NodeMoves(n))
<1> DEFINE ph == [phase EXCEPT ![j] = "queued"]
<1>1. phase[j] = "absent" /\ TrySchedule(ph, host, state)
  BY DEF Arrive
<1>2. /\ ph \in [Jobs -> Phases] /\ ph[j] = "queued"
      /\ \A k \in Jobs : k # j => ph[k] = phase[k]
      /\ host \in [Jobs -> Nodes \cup {0}] /\ state \in [Nodes -> States]
      /\ \A k \in Jobs : host[k] # 0 <=> phase[k] \in Active
  BY DEF IInv, ClusterTypeOK, Phases
<1> HIDE DEF ph
<1>3. /\ \A n \in Nodes : state'[n] = state[n]
      /\ \A k \in Jobs : ph[k] # "queued" => phase'[k] = ph[k] /\ host'[k] = host[k]
      /\ \A k \in Jobs : ph[k] = "queued" =>
           \/ phase'[k] = "queued" /\ host'[k] = 0
           \/ phase'[k] = "download" /\ host'[k] \in Nodes /\ state'[host'[k]] = "READY"
  BY <1>1, <1>2, ScheduledMoves
<1>4. ASSUME NEW k \in Jobs PROVE JobMoves(k)
  <2>1. CASE k = j
    BY <1>1, <1>2, <1>3, <2>1 DEF JobMoves
  <2>2. CASE k # j /\ phase[k] = "queued"
    <3>1. host[k] = 0
      BY <1>2, <2>2 DEF Active
    <3>. QED  BY <1>2, <1>3, <2>2, <3>1 DEF JobMoves
  <2>3. CASE k # j /\ phase[k] # "queued"
    BY <1>2, <1>3, <2>3 DEF JobMoves
  <2>. QED  BY <2>1, <2>2, <2>3
<1>5. \A k \in Jobs : host[k] # 0 => host'[k] = host[k]
  BY <1>1, <1>2, <1>3 DEF Active
<1>6. ASSUME NEW n \in Nodes PROVE NodeMoves(n)
  BY <1>3, <1>5 DEF NodeMoves, On, Nodes
<1>. QED  BY <1>4, <1>6

LEMMA NodeReadyMoves ==
  ASSUME IInv, NEW n \in Nodes, NodeReady(n)
  PROVE  (\A k \in Jobs : JobMoves(k)) /\ (\A m \in Nodes : NodeMoves(m))
<1> DEFINE st == [state EXCEPT ![n] = "READY"]
<1>1. state[n] = "LAUNCHING" /\ TrySchedule(phase, host, st)
  BY DEF NodeReady
<1>2. /\ st \in [Nodes -> States] /\ st[n] = "READY"
      /\ \A m \in Nodes : m # n => st[m] = state[m]
      /\ phase \in [Jobs -> Phases] /\ host \in [Jobs -> Nodes \cup {0}]
      /\ \A k \in Jobs : host[k] # 0 <=> phase[k] \in Active
  BY DEF IInv, ClusterTypeOK, States
<1> HIDE DEF st
<1>3. /\ \A m \in Nodes : state'[m] = st[m]
      /\ \A k \in Jobs : phase[k] # "queued" => phase'[k] = phase[k] /\ host'[k] = host[k]
      /\ \A k \in Jobs : phase[k] = "queued" =>
           \/ phase'[k] = "queued" /\ host'[k] = 0
           \/ phase'[k] = "download" /\ host'[k] \in Nodes /\ state'[host'[k]] = "READY"
  BY <1>1, <1>2, ScheduledMoves
<1>4. ASSUME NEW k \in Jobs PROVE JobMoves(k)
  <2>1. CASE phase[k] = "queued"
    <3>1. host[k] = 0
      BY <1>2, <2>1 DEF Active
    <3>. QED  BY <1>3, <2>1, <3>1 DEF JobMoves
  <2>2. CASE phase[k] # "queued"
    BY <1>3, <2>2 DEF JobMoves
  <2>. QED  BY <2>1, <2>2
<1>5. \A k \in Jobs : host[k] # 0 => host'[k] = host[k]
  BY <1>2, <1>3 DEF Active
<1>6. ASSUME NEW m \in Nodes PROVE NodeMoves(m)
  BY <1>1, <1>2, <1>3, <1>5 DEF NodeMoves, On, Nodes
<1>. QED  BY <1>4, <1>6

LEMMA CompleteMoves ==
  ASSUME IInv, NEW j \in Jobs, Complete(j)
  PROVE  (\A k \in Jobs : JobMoves(k)) /\ (\A m \in Nodes : NodeMoves(m))
<1> DEFINE n == host[j]
           h == [host EXCEPT ![j] = 0]
           ph == [phase EXCEPT ![j] = "done"]
           st == IF On(h, n) = {} THEN [state EXCEPT ![n] = "IDLE"] ELSE state
<1>1. phase[j] = "upload" /\ TrySchedule(ph, h, st)
  BY DEF Complete
<1>2. n \in Nodes /\ state[n] = "READY"
  BY <1>1 DEF IInv, ClusterTypeOK, JobsOnReady, Active
<1>3. /\ h \in [Jobs -> Nodes \cup {0}] /\ ph \in [Jobs -> Phases] /\ st \in [Nodes -> States]
      /\ \A k \in Jobs : k # j => h[k] = host[k] /\ ph[k] = phase[k]
      /\ h[j] = 0 /\ ph[j] = "done"
      /\ \A m \in Nodes : m # n => st[m] = state[m]
      /\ st[n] = IF On(h, n) = {} THEN "IDLE" ELSE "READY"
      /\ \A k \in Jobs : host[k] # 0 <=> phase[k] \in Active
  BY <1>2 DEF IInv, ClusterTypeOK, Phases, States
<1> HIDE DEF h, ph, st
<1>4. /\ \A m \in Nodes : state'[m] = st[m]
      /\ \A k \in Jobs : ph[k] # "queued" => phase'[k] = ph[k] /\ host'[k] = h[k]
      /\ \A k \in Jobs : ph[k] = "queued" =>
           \/ phase'[k] = "queued" /\ host'[k] = 0
           \/ /\ phase'[k] = "download" /\ host'[k] \in Nodes
              /\ st[host'[k]] = "READY" /\ state'[host'[k]] = "READY"
  BY <1>1, <1>3, ScheduledMoves
<1>5. ASSUME NEW k \in Jobs PROVE JobMoves(k)
  <2>1. CASE k = j
    BY <1>1, <1>3, <1>4, <2>1 DEF JobMoves
  <2>2. CASE k # j /\ phase[k] = "queued"
    <3>1. host[k] = 0
      BY <1>3, <2>2 DEF Active
    <3>. QED  BY <1>3, <1>4, <2>2, <3>1 DEF JobMoves
  <2>3. CASE k # j /\ phase[k] # "queued"
    BY <1>3, <1>4, <2>3 DEF JobMoves
  <2>. QED  BY <2>1, <2>2, <2>3
<1>6. \A k \in Jobs : k # j /\ host[k] # 0 => host'[k] = host[k] /\ h[k] = host[k]
  BY <1>3, <1>4 DEF Active
<1>7. ASSUME NEW m \in Nodes, m # n PROVE NodeMoves(m)
  <2>1. state'[m] = state[m]
    BY <1>3, <1>4, <1>7
  <2>2. \A k \in Jobs : host[k] = m => host'[k] = m
    BY <1>6, <1>7 DEF Nodes
  <2>. QED  BY <2>1, <2>2 DEF NodeMoves, On
<1>8. NodeMoves(n)
  <2>1. state'[n] = st[n] /\ j \in On(host, n)
    BY <1>2, <1>4 DEF On
  <2>2. CASE On(h, n) = {}
    <3>1. \A k \in Jobs : host'[k] # n
      <4> SUFFICES ASSUME NEW k \in Jobs, host'[k] = n PROVE FALSE
        OBVIOUS
      <4>1. CASE ph[k] = "queued"
        BY <1>2, <1>3, <1>4, <2>2, <4>1 DEF Nodes
      <4>2. CASE ph[k] # "queued"
        BY <1>4, <2>2, <4>2 DEF On
      <4>. QED  BY <4>1, <4>2
    <3>. QED  BY <1>2, <1>3, <2>1, <2>2, <3>1 DEF NodeMoves, On
  <2>3. CASE On(h, n) # {}
    <3>1. PICK k \in Jobs : h[k] = n
      BY <2>3 DEF On
    <3>2. k # j /\ host[k] # 0
      BY <1>2, <1>3, <3>1 DEF Nodes
    <3>3. host'[k] = n
      BY <1>6, <3>1, <3>2
    <3>. QED  BY <1>2, <1>3, <2>1, <2>3, <3>3 DEF NodeMoves, On
  <2>. QED  BY <2>2, <2>3
<1>. QED  BY <1>5, <1>7, <1>8

LEMMA ClusterMoves ==
  ASSUME IInv, ClusterNext
  PROVE  (\A j \in Jobs : JobMoves(j)) /\ (\A n \in Nodes : NodeMoves(n))
<1>1. ASSUME NEW j \in Jobs, NextPhase(j)
      PROVE  (\A k \in Jobs : JobMoves(k)) /\ (\A n \in Nodes : NodeMoves(n))
  <2>1. /\ UNCHANGED <<host, state>>
        /\ <<phase[j], phase'[j]>> \in {<<"download", "preprocess">>, <<"preprocess", "workhorse">>,
                                        <<"workhorse", "upload">>}
        /\ \A k \in Jobs : k # j => phase'[k] = phase[k]
    BY <1>1 DEF NextPhase, IInv, ClusterTypeOK, Active
  <2>2. \A k \in Jobs : JobMoves(k)
    BY <2>1 DEF JobMoves
  <2>. QED  BY <2>1, <2>2 DEF NodeMoves, On
<1>2. ASSUME NEW n \in Nodes, IdleFires(n)
      PROVE  (\A k \in Jobs : JobMoves(k)) /\ (\A m \in Nodes : NodeMoves(m))
  <2>1. /\ state[n] = "IDLE" /\ state'[n] = "TERMINATED" /\ UNCHANGED <<phase, host>>
        /\ \A m \in Nodes : m # n => state'[m] = state[m]
    BY <1>2 DEF IdleFires, IInv, ClusterTypeOK
  <2>. QED  BY <2>1 DEF JobMoves, NodeMoves, On
<1>3. ASSUME Provision
      PROVE  (\A k \in Jobs : JobMoves(k)) /\ (\A m \in Nodes : NodeMoves(m))
  <2>1. /\ UNCHANGED <<phase, host>>
        /\ \A m \in Nodes : state'[m] = state[m] \/ (state[m] = "none" /\ state'[m] = "LAUNCHING")
    BY <1>3, ProvisionLaunches
  <2>. QED  BY <2>1 DEF JobMoves, NodeMoves, On
<1>. QED  BY <1>1, <1>2, <1>3, ArriveMoves, CompleteMoves, NodeReadyMoves DEF ClusterNext

-----------------------------------------------------------------------------
(* What the log says of time t: what had happened to job j and to node n   *)
(* by then, whether j ran then, and in which phase.                        *)
Had(j, e, t) == job_log[j][e] # Never /\ job_log[j][e] <= t

NodeHad(n, e, t) == node_log[n][e] # Never /\ node_log[n][e] <= t

Ran(j, t) == Had(j, "download", t) /\ ~Had(j, "done", t)

PhaseAt(j, t) ==
  IF Had(j, "upload", t) THEN "upload"
  ELSE IF Had(j, "workhorse", t) THEN "workhorse"
  ELSE IF Had(j, "preprocess", t) THEN "preprocess" ELSE "download"

(* The sample of time t as the log has it.                                 *)
SampleAt(t) ==
  [util1    |-> Total([j \in Jobs |-> IF Ran(j, t) THEN Use[j][PhaseAt(j, t)] ELSE 0], NumJobs),
   reserved |-> Total([j \in Jobs |-> IF Ran(j, t) THEN Peak[j] ELSE 0], NumJobs),
   alive    |-> {n \in Nodes : NodeHad(n, "LAUNCHING", t) /\ ~NodeHad(n, "TERMINATED", t)},
   idle     |-> {n \in Nodes : /\ NodeHad(n, "READY", t) /\ ~NodeHad(n, "TERMINATED", t)
                               /\ \A j \in Jobs : job_node[j] = n => ~Ran(j, t)},
   queued   |-> {j \in Jobs : Had(j, "queued", t) /\ ~Had(j, "download", t)}]

(* The events of a job in their order.                                     *)
Rank == [absent |-> 0, queued |-> 1, download |-> 2, preprocess |-> 3, workhorse |-> 4,
         upload |-> 5, done |-> 6]

(* A job has had the events up to its phase, one after the other.          *)
JobLogged(j) ==
  \A e \in JobEvents :
    /\ job_log[j][e] # Never <=> Rank[e] <= Rank[phase[j]]
    /\ \A d \in JobEvents :
         Rank[d] <= Rank[e] /\ job_log[j][e] # Never => job_log[j][d] <= job_log[j][e]

(* A node has had the events up to its state, one after the other; at the  *)
(* horizon some have been left out.                                        *)
NodeLogged(n) ==
  LET at == node_log[n]
  IN  /\ at["LAUNCHING"] # Never <=> state[n] # "none"
      /\ at["TERMINATED"] # Never <=> state[n] = "TERMINATED"
      /\ ended => state[n] \in {"none", "TERMINATED"}
      /\ ~ended => /\ at["READY"] # Never <=> state[n] \in {"READY", "IDLE", "TERMINATED"}
                   /\ at["IDLE"] # Never <=> state[n] \in {"IDLE", "TERMINATED"}
      /\ at["READY"] # Never => at["LAUNCHING"] # Never /\ at["LAUNCHING"] <= at["READY"]
      /\ at["IDLE"] # Never => at["READY"] # Never /\ at["READY"] <= at["IDLE"]
      /\ at["TERMINATED"] # Never =>
           /\ \A e \in NodeEvents : at[e] <= at["TERMINATED"]
           /\ at["IDLE"] # Never \/ (ended /\ at["TERMINATED"] = now)

(* A job that has started did so on a ready node, which has not emptied    *)
(* before the job was done.                                                *)
JobOnNode(j) ==
  LET n == job_node[j]
  IN  /\ n # 0 <=> phase[j] \notin {"absent", "queued"}
      /\ host[j] # 0 => host[j] = n
      /\ n # 0 => /\ node_log[n]["READY"] # Never
                  /\ node_log[n]["READY"] <= job_log[j]["download"]
                  /\ node_log[n]["IDLE"] # Never =>
                       phase[j] = "done" /\ job_log[j]["done"] <= node_log[n]["IDLE"]

NodeUsed(n) == \E j \in Jobs : job_node[j] = n

(* A node that has had a job has one until it empties.                     *)
NodeBusy(n) ==
  /\ node_log[n]["IDLE"] # Never => NodeUsed(n)
  /\ ~ended /\ state[n] = "READY" /\ NodeUsed(n) => On(host, n) # {}
  /\ \A t \in 0..(now-1) :
       (\E j \in Jobs : job_node[j] = n /\ Had(j, "download", t)) /\ ~NodeHad(n, "IDLE", t)
         => \E j \in Jobs : job_node[j] = n /\ Ran(j, t)

LogInv ==
  /\ \A j \in Jobs : JobLogged(j) /\ JobOnNode(j)
  /\ \A n \in Nodes : NodeLogged(n) /\ NodeBusy(n)

SamplesLogged == samples = [i \in 1..now |-> SampleAt(i-1)]

(* The inductive invariant of a run and its report.                        *)
RunInv ==
  /\ TypeOK /\ (~ended => IInv) /\ (ended => until > 0 /\ now = until)
  /\ LogInv /\ SamplesLogged

-----------------------------------------------------------------------------
LEMMA RankValues ==
  /\ Rank["absent"] = 0 /\ Rank["queued"] = 1 /\ Rank["download"] = 2 /\ Rank["preprocess"] = 3
  /\ Rank["workhorse"] = 4 /\ Rank["upload"] = 5 /\ Rank["done"] = 6
BY DEF Rank

LEMMA RankType ==
  /\ \A ph \in Phases : Rank[ph] \in 0..6
  /\ \A e \in JobEvents : e \in Phases /\ Rank[e] \in 1..6
BY RankValues DEF Phases, JobEvents, Active

(* The times of the log, as numbers.                                       *)
LEMMA LogTimes ==
  ASSUME TypeOK
  PROVE  /\ now \in Nat
         /\ \A j \in Jobs, e \in JobEvents : job_log[j][e] \in -1..now
         /\ \A n \in Nodes, e \in NodeEvents : node_log[n][e] \in -1..now
         /\ \A j \in Jobs : job_node[j] \in Nodes \cup {0}
BY DEF TypeOK

(* What Record notes of a job: the events that its step passes.            *)
LEMMA JobRecorded ==
  ASSUME NEW j \in Jobs, phase[j] \in Phases, JobMoves(j), Record
  PROVE  /\ Rank[phase[j]] <= Rank[phase'[j]]
         /\ phase'[j] # phase[j] => Rank[phase[j]] < Rank[phase'[j]]
         /\ \A e \in JobEvents :
              job_log'[j][e] = IF Rank[phase[j]] < Rank[e] /\ Rank[e] <= Rank[phase'[j]]
                               THEN now ELSE job_log[j][e]
<1>1. \A e \in JobEvents :
        job_log'[j][e] = IF phase'[j] # phase[j]
                              /\ (e = phase'[j] \/ (e = "queued" /\ phase[j] = "absent"))
                         THEN now ELSE job_log[j][e]
  BY DEF Record
<1>2. CASE phase'[j] = phase[j]
  <2>1. Rank[phase[j]] \in 0..6 /\ \A e \in JobEvents : Rank[e] \in 1..6
    BY RankType
  <2>. QED  BY <1>1, <1>2, <2>1
<1>3. CASE phase'[j] # phase[j]
  <2>1. \/ phase[j] = "absent" /\ phase'[j] = "queued"
        \/ phase[j] = "absent" /\ phase'[j] = "download"
        \/ phase[j] = "queued" /\ phase'[j] = "download"
        \/ phase[j] = "download" /\ phase'[j] = "preprocess"
        \/ phase[j] = "preprocess" /\ phase'[j] = "workhorse"
        \/ phase[j] = "workhorse" /\ phase'[j] = "upload"
        \/ phase[j] = "upload" /\ phase'[j] = "done"
    BY <1>3 DEF JobMoves
  <2>2. Rank[phase[j]] < Rank[phase'[j]]
    BY <2>1, RankValues
  <2>3. \A e \in JobEvents :
          (e = phase'[j] \/ (e = "queued" /\ phase[j] = "absent"))
            <=> Rank[phase[j]] < Rank[e] /\ Rank[e] <= Rank[phase'[j]]
    BY <2>1, RankValues DEF JobEvents, Active
  <2>4. Rank[phase[j]] <= Rank[phase'[j]]
    BY <2>1, RankValues
  <2>5. \A e \in JobEvents :
          job_log'[j][e] = IF Rank[phase[j]] < Rank[e] /\ Rank[e] <= Rank[phase'[j]]
                           THEN now ELSE job_log[j][e]
    BY <1>1, <1>3, <2>3
  <2>. QED  BY <2>2, <2>4, <2>5
<1>. QED  BY <1>2, <1>3

(* A job's log stays in order.                                             *)
LEMMA JobLoggedStep ==
  ASSUME TypeOK, NEW j \in Jobs, JobLogged(j), JobMoves(j), Record, phase'[j] \in Phases
  PROVE  JobLogged(j)'
<1>1. /\ Rank[phase[j]] <= Rank[phase'[j]]
      /\ \A e \in JobEvents :
           job_log'[j][e] = IF Rank[phase[j]] < Rank[e] /\ Rank[e] <= Rank[phase'[j]]
                            THEN now ELSE job_log[j][e]
  <2>1. phase[j] \in Phases
    BY DEF TypeOK, ClusterTypeOK
  <2>. QED  BY <2>1, JobRecorded
<1>2. /\ now \in Nat /\ Never = -1
      /\ \A e \in JobEvents : job_log[j][e] \in -1..now /\ Rank[e] \in 1..6
      /\ Rank[phase[j]] \in 0..6 /\ Rank[phase'[j]] \in 0..6
  BY LogTimes, RankType DEF Never, TypeOK, ClusterTypeOK
<1>3. ASSUME NEW e \in JobEvents
      PROVE  job_log'[j][e] # Never <=> Rank[e] <= Rank[phase'[j]]
  BY <1>1, <1>2 DEF JobLogged
<1>4. ASSUME NEW e \in JobEvents, NEW d \in JobEvents, Rank[d] <= Rank[e], job_log'[j][e] # Never
      PROVE  job_log'[j][d] <= job_log'[j][e]
  <2>1. \A x \in JobEvents : job_log'[j][x] <= now
    BY <1>1, <1>2
  <2>2. CASE job_log'[j][e] = now
    BY <2>1, <2>2
  <2>3. CASE job_log'[j][e] # now
    <3>1. job_log'[j][e] = job_log[j][e] /\ ~(Rank[phase[j]] < Rank[e] /\ Rank[e] <= Rank[phase'[j]])
      BY <1>1, <2>3
    <3>2. Rank[e] <= Rank[phase[j]]
      BY <1>2, <1>3, <1>4, <3>1
    <3>3. job_log'[j][d] = job_log[j][d]
      BY <1>1, <1>2, <1>4, <3>2
    <3>. QED  BY <1>4, <3>1, <3>3 DEF JobLogged
  <2>. QED  BY <2>2, <2>3
<1>. QED  BY <1>3, <1>4 DEF JobLogged

(* What Record notes of a node, and that its log stays in order.           *)
LEMMA NodeRecorded ==
  ASSUME NEW n \in Nodes, Record
  PROVE  \A e \in NodeEvents :
           node_log'[n][e] = IF state'[n] # state[n] /\ e = state'[n] THEN now ELSE node_log[n][e]
BY DEF Record

LEMMA NodeLoggedStep ==
  ASSUME TypeOK, ~ended, UNCHANGED <<ended, now>>, NEW n \in Nodes, NodeLogged(n), NodeMoves(n), Record
  PROVE  NodeLogged(n)'
<1> DEFINE at == node_log[n]
           new == node_log'[n]
<1>1. \A e \in NodeEvents : new[e] = IF state'[n] # state[n] /\ e = state'[n] THEN now ELSE at[e]
  BY NodeRecorded
<1>2. /\ now \in Nat /\ Never = -1 /\ \A e \in NodeEvents : at[e] \in -1..now
  BY LogTimes DEF Never
<1>3. NodeEvents = {"LAUNCHING", "READY", "IDLE", "TERMINATED"}
  BY DEF NodeEvents
<1>4. /\ at["LAUNCHING"] # Never <=> state[n] # "none"
      /\ at["TERMINATED"] # Never <=> state[n] = "TERMINATED"
      /\ at["READY"] # Never <=> state[n] \in {"READY", "IDLE", "TERMINATED"}
      /\ at["IDLE"] # Never <=> state[n] \in {"IDLE", "TERMINATED"}
      /\ at["READY"] # Never => at["LAUNCHING"] # Never /\ at["LAUNCHING"] <= at["READY"]
      /\ at["IDLE"] # Never => at["READY"] # Never /\ at["READY"] <= at["IDLE"]
      /\ at["TERMINATED"] # Never =>
           (\A e \in NodeEvents : at[e] <= at["TERMINATED"]) /\ at["IDLE"] # Never
  BY DEF NodeLogged
<1> DEFINE Now == /\ new["LAUNCHING"] # Never <=> state'[n] # "none"
                  /\ new["TERMINATED"] # Never <=> state'[n] = "TERMINATED"
                  /\ new["READY"] # Never <=> state'[n] \in {"READY", "IDLE", "TERMINATED"}
                  /\ new["IDLE"] # Never <=> state'[n] \in {"IDLE", "TERMINATED"}
                  /\ new["READY"] # Never => new["LAUNCHING"] # Never /\ new["LAUNCHING"] <= new["READY"]
                  /\ new["IDLE"] # Never => new["READY"] # Never /\ new["READY"] <= new["IDLE"]
                  /\ new["TERMINATED"] # Never =>
                       (\A e \in NodeEvents : new[e] <= new["TERMINATED"]) /\ new["IDLE"] # Never
<1>5. CASE state'[n] = state[n]
  <2>1. \A e \in NodeEvents : new[e] = at[e]
    BY <1>1, <1>5
  <2> HIDE DEF at, new
  <2>2. Now
    BY <1>3, <1>4, <1>5, <2>1
  <2>. QED  BY <2>2 DEF NodeLogged, at, new
<1>6. CASE state'[n] # state[n]
  <2>1. \/ state[n] = "none" /\ state'[n] = "LAUNCHING"
        \/ state[n] = "LAUNCHING" /\ state'[n] = "READY"
        \/ state[n] = "READY" /\ state'[n] = "IDLE"
        \/ state[n] = "IDLE" /\ state'[n] = "TERMINATED"
    BY <1>6 DEF NodeMoves
  <2>2. \A e \in NodeEvents : new[e] = IF e = state'[n] THEN now ELSE at[e]
    BY <1>1, <1>6
  <2> HIDE DEF at, new
  <2>3. Now
    <3>1. \A e \in NodeEvents : new[e] <= now
      BY <1>2, <2>2
    <3>. QED  BY <1>2, <1>3, <1>4, <2>1, <2>2, <3>1
  <2>. QED  BY <2>3 DEF NodeLogged, at, new
<1>. QED  BY <1>5, <1>6

(* What has been logged before now stays as it is.                         *)
LEMMA JobLogKept ==
  ASSUME TypeOK, NEW j \in Jobs, JobLogged(j), JobMoves(j), Record, UNCHANGED now
  PROVE  /\ \A e \in JobEvents : \/ job_log'[j][e] = job_log[j][e]
                                 \/ job_log[j][e] = Never /\ job_log'[j][e] = now
         /\ \A e \in JobEvents, t \in 0..(now-1) : Had(j, e, t)' <=> Had(j, e, t)
         /\ \A t \in 0..(now-1) : /\ Ran(j, t)' <=> Ran(j, t)
                                  /\ PhaseAt(j, t)' = PhaseAt(j, t)
<1>1. \A e \in JobEvents :
        job_log'[j][e] = IF Rank[phase[j]] < Rank[e] /\ Rank[e] <= Rank[phase'[j]]
                         THEN now ELSE job_log[j][e]
  <2>1. phase[j] \in Phases
    BY DEF TypeOK, ClusterTypeOK
  <2>. QED  BY <2>1, JobRecorded
<1>2. /\ now \in Nat /\ Never = -1
      /\ \A e \in JobEvents : job_log[j][e] \in -1..now /\ Rank[e] \in 1..6
      /\ Rank[phase[j]] \in 0..6
  BY LogTimes, RankType DEF Never, TypeOK, ClusterTypeOK
<1>3. ASSUME NEW e \in JobEvents
      PROVE  \/ job_log'[j][e] = job_log[j][e]
             \/ job_log[j][e] = Never /\ job_log'[j][e] = now
  BY <1>1, <1>2 DEF JobLogged
<1>4. ASSUME NEW e \in JobEvents, NEW t \in 0..(now-1)
      PROVE  Had(j, e, t)' <=> Had(j, e, t)
  BY <1>2, <1>3 DEF Had
<1>5. {"queued", "download", "preprocess", "workhorse", "upload", "done"} \subseteq JobEvents
  BY DEF JobEvents, Active
<1>6. ASSUME NEW t \in 0..(now-1)
      PROVE  (Ran(j, t)' <=> Ran(j, t)) /\ PhaseAt(j, t)' = PhaseAt(j, t)
  <2>1. /\ Had(j, "download", t)' <=> Had(j, "download", t)
        /\ Had(j, "preprocess", t)' <=> Had(j, "preprocess", t)
        /\ Had(j, "workhorse", t)' <=> Had(j, "workhorse", t)
        /\ Had(j, "upload", t)' <=> Had(j, "upload", t)
        /\ Had(j, "done", t)' <=> Had(j, "done", t)
    BY <1>4, <1>5
  <2>. QED  BY <2>1 DEF Ran, PhaseAt
<1>. QED  BY <1>3, <1>4, <1>6

LEMMA NodeLogKept ==
  ASSUME TypeOK, ~ended, NEW n \in Nodes, NodeLogged(n), NodeMoves(n), Record, UNCHANGED now
  PROVE  /\ \A e \in NodeEvents :
              \/ node_log'[n][e] = node_log[n][e]
              \/ /\ node_log[n][e] = Never /\ node_log'[n][e] = now
                 /\ state'[n] = e /\ state[n] # e
         /\ \A e \in NodeEvents, t \in 0..(now-1) : NodeHad(n, e, t)' <=> NodeHad(n, e, t)
<1>1. /\ now \in Nat /\ Never = -1 /\ \A e \in NodeEvents : node_log[n][e] \in -1..now
  BY LogTimes DEF Never
<1>2. ASSUME NEW e \in NodeEvents
      PROVE  \/ node_log'[n][e] = node_log[n][e]
             \/ /\ node_log[n][e] = Never /\ node_log'[n][e] = now
                /\ state'[n] = e /\ state[n] # e
  <2>1. node_log'[n][e] = IF state'[n] # state[n] /\ e = state'[n] THEN now ELSE node_log[n][e]
    BY NodeRecorded
  <2>2. CASE state'[n] # state[n] /\ e = state'[n]
    <3>1. node_log[n][e] = Never
      BY <2>2 DEF NodeLogged, NodeMoves
    <3>. QED  BY <2>1, <2>2, <3>1
  <2>. QED  BY <2>1, <2>2
<1>3. ASSUME NEW e \in NodeEvents, NEW t \in 0..(now-1)
      PROVE  NodeHad(n, e, t)' <=> NodeHad(n, e, t)
  BY <1>1, <1>2 DEF NodeHad
<1>. QED  BY <1>2, <1>3

(* A job that has started keeps its node.                                  *)
LEMMA JobNodeKept ==
  ASSUME TypeOK, NEW j \in Jobs, JobOnNode(j), JobMoves(j), Record
  PROVE  /\ job_node[j] # 0 => job_node'[j] = job_node[j]
         /\ job_node'[j] # job_node[j] => /\ job_node[j] = 0 /\ phase[j] \in {"absent", "queued"}
                                          /\ phase'[j] = "download" /\ job_node'[j] = host'[j]
<1>1. job_node'[j] = IF phase'[j] = "download" THEN host'[j] ELSE job_node[j]
  BY DEF Record
<1>2. host[j] # 0 <=> phase[j] \in Active
  BY DEF TypeOK, ClusterTypeOK
<1>3. CASE phase'[j] = "download" /\ phase[j] = "download"
  BY <1>1, <1>2, <1>3 DEF JobMoves, JobOnNode, Active
<1>4. CASE phase'[j] = "download" /\ phase[j] # "download"
  <2>1. phase[j] \in {"absent", "queued"}
    BY <1>4 DEF JobMoves
  <2>. QED  BY <1>1, <1>4, <2>1 DEF JobOnNode
<1>. QED  BY <1>1, <1>3, <1>4

LEMMA JobOnNodeStep ==
  ASSUME TypeOK, ~ended, UNCHANGED <<ended, now>>, NEW j \in Jobs, JobLogged(j), JobOnNode(j),
         JobMoves(j), Record, (host[j] # 0 <=> phase[j] \in Active)',
         \A n \in Nodes : NodeLogged(n) /\ NodeLogged(n)' /\ NodeMoves(n)
  PROVE  JobOnNode(j)'
<1> DEFINE n == job_node[j]
           m == job_node'[j]
<1>1. /\ now \in Nat /\ Never = -1
      /\ \A e \in JobEvents : job_log[j][e] \in -1..now
      /\ n \in Nodes \cup {0} /\ 0 \notin Nodes
      /\ host[j] # 0 <=> phase[j] \in Active
      /\ phase[j] \in Phases
  BY LogTimes DEF Never, Nodes, TypeOK, ClusterTypeOK
<1>2. /\ n # 0 => m = n
      /\ m # n => /\ n = 0 /\ phase[j] \in {"absent", "queued"}
                  /\ phase'[j] = "download" /\ m = host'[j]
  BY JobNodeKept
<1>3. \A e \in JobEvents : \/ job_log'[j][e] = job_log[j][e]
                           \/ job_log[j][e] = Never /\ job_log'[j][e] = now
  BY JobLogKept
<1>4. {"download", "done"} \subseteq JobEvents /\ {"READY", "IDLE"} \subseteq NodeEvents
  BY DEF JobEvents, NodeEvents, Active
<1>5. CASE m # n
  <2>1. m \in Nodes /\ state'[m] = "READY" /\ phase'[j] = "download" /\ m = host'[j]
    BY <1>2, <1>5 DEF JobMoves
  <2>2. node_log'[m]["READY"] # Never /\ node_log'[m]["IDLE"] = Never
    BY <2>1 DEF NodeLogged
  <2>3. node_log'[m]["READY"] <= now
    <3>1. node_log'[m]["READY"] = node_log[m]["READY"] \/ node_log'[m]["READY"] = now
      BY <1>4, <2>1, NodeLogKept
    <3>. QED  BY <1>1, <1>4, <2>1, <3>1, LogTimes
  <2>4. job_log'[j]["download"] = now
    <3>1. job_log'[j]["download"] = IF /\ Rank[phase[j]] < Rank["download"]
                                       /\ Rank["download"] <= Rank[phase'[j]]
                                    THEN now ELSE job_log[j]["download"]
      BY <1>1, <1>4, JobRecorded
    <3>. QED  BY <1>2, <1>5, <3>1, RankValues
  <2>. QED  BY <1>1, <2>1, <2>2, <2>3, <2>4 DEF JobOnNode
<1>6. CASE m = n /\ n = 0
  <2>1. phase[j] \in {"absent", "queued"} /\ host[j] = 0
    BY <1>1, <1>6 DEF JobOnNode, Active
  <2>2. phase'[j] # "download"
    <3>1. phase'[j] = "download" => m = host'[j] /\ host'[j] \in Nodes
      BY <2>1 DEF JobMoves, Record
    <3>. QED  BY <1>1, <1>6, <3>1
  <2>3. phase'[j] \in {"absent", "queued"} /\ host'[j] = 0
    BY <2>1, <2>2 DEF JobMoves
  <2>. QED  BY <1>6, <2>3 DEF JobOnNode
<1>7. CASE m = n /\ n # 0
  <2>1. /\ n \in Nodes /\ phase[j] \notin {"absent", "queued"} /\ host[j] \in {0, n}
        /\ node_log[n]["READY"] # Never /\ node_log[n]["READY"] <= job_log[j]["download"]
        /\ node_log[n]["IDLE"] # Never =>
             phase[j] = "done" /\ job_log[j]["done"] <= node_log[n]["IDLE"]
    BY <1>1, <1>7 DEF JobOnNode
  <2>2. /\ phase'[j] \notin {"absent", "queued"} /\ host'[j] \in {0, n}
        /\ phase[j] = "done" => phase'[j] = "done"
    BY <2>1 DEF JobMoves
  <2>3. node_log'[n]["READY"] # Never /\ node_log'[n]["READY"] <= job_log'[j]["download"]
    <3>1. node_log'[n]["READY"] = node_log[n]["READY"]
      BY <1>4, <2>1, NodeLogKept
    <3>2. node_log[n]["READY"] \in 0..now
      BY <1>1, <1>4, <2>1, LogTimes
    <3>3. job_log'[j]["download"] = job_log[j]["download"]
      BY <1>1, <1>3, <1>4, <2>1, <3>2
    <3>. QED  BY <2>1, <3>1, <3>3
  <2>4. ASSUME node_log'[n]["IDLE"] # Never
        PROVE  phase'[j] = "done" /\ job_log'[j]["done"] <= node_log'[n]["IDLE"]
    <3>1. CASE node_log'[n]["IDLE"] = node_log[n]["IDLE"]
      <4>1. phase[j] = "done" /\ job_log[j]["done"] <= node_log[n]["IDLE"]
        BY <2>1, <2>4, <3>1
      <4>2. job_log[j]["done"] # Never
        BY <1>4, <4>1, RankValues DEF JobLogged
      <4>3. job_log'[j]["done"] = job_log[j]["done"]
        BY <1>3, <1>4, <4>2
      <4>. QED  BY <2>2, <3>1, <4>1, <4>3
    <3>2. CASE node_log'[n]["IDLE"] # node_log[n]["IDLE"]
      <4>1. node_log'[n]["IDLE"] = now /\ state'[n] = "IDLE" /\ state[n] # "IDLE"
        BY <1>4, <2>1, <3>2, NodeLogKept
      <4>2. On(host', n) = {}
        BY <2>1, <4>1 DEF NodeMoves
      <4>3. host'[j] = 0
        BY <2>2, <4>2 DEF On
      <4>4. phase'[j] = "done"
        BY <2>1, <2>2, <4>3, <1>1 DEF JobMoves, Active, Phases
      <4>5. job_log'[j]["done"] <= now
        BY <1>1, <1>3, <1>4
      <4>. QED  BY <4>1, <4>4, <4>5
    <3>. QED  BY <3>1, <3>2
  <2>. QED  BY <1>7, <2>1, <2>2, <2>3, <2>4 DEF JobOnNode
<1>. QED  BY <1>5, <1>6, <1>7

LEMMA NodeBusyStep ==
  ASSUME TypeOK, ~ended, UNCHANGED <<ended, now>>, NEW n \in Nodes, NodeLogged(n), NodeBusy(n),
         NodeMoves(n), Record, \A j \in Jobs : JobLogged(j) /\ JobOnNode(j) /\ JobMoves(j)
  PROVE  NodeBusy(n)'
<1>1. \A j \in Jobs :
        /\ job_node[j] # 0 => job_node'[j] = job_node[j]
        /\ job_node'[j] # job_node[j] => /\ job_node[j] = 0 /\ phase[j] \in {"absent", "queued"}
                                         /\ phase'[j] = "download" /\ job_node'[j] = host'[j]
  BY JobNodeKept
<1>2. n # 0 /\ "IDLE" \in NodeEvents /\ {"download", "done"} \subseteq JobEvents
  BY DEF Nodes, NodeEvents, JobEvents, Active
<1>3. ASSUME node_log'[n]["IDLE"] # Never
      PROVE  NodeUsed(n)'
  <2>1. CASE node_log'[n]["IDLE"] = node_log[n]["IDLE"]
    BY <1>1, <1>2, <1>3, <2>1 DEF NodeBusy, NodeUsed
  <2>2. CASE node_log'[n]["IDLE"] # node_log[n]["IDLE"]
    <3>1. state'[n] = "IDLE" /\ state[n] # "IDLE"
      BY <1>2, <2>2, NodeLogKept
    <3>2. On(host, n) # {}
      BY <3>1 DEF NodeMoves
    <3>3. PICK j \in Jobs : host[j] = n
      BY <3>2 DEF On
    <3>4. job_node[j] = n
      BY <1>2, <3>3 DEF JobOnNode
    <3>. QED  BY <1>1, <1>2, <3>4 DEF NodeUsed
  <2>. QED  BY <2>1, <2>2
<1>4. ASSUME state'[n] = "READY", NEW j \in Jobs, job_node'[j] = n
      PROVE  On(host', n) # {}
  <2>1. CASE job_node[j] = n
    <3>1. node_log[n]["READY"] # Never
      BY <1>2, <2>1 DEF JobOnNode
    <3>2. state[n] = "READY"
      BY <1>4, <3>1 DEF NodeMoves, NodeLogged
    <3>3. On(host, n) # {}
      BY <2>1, <3>2 DEF NodeBusy, NodeUsed
    <3>. QED  BY <1>4, <3>2, <3>3 DEF NodeMoves
  <2>2. CASE job_node[j] # n
    BY <1>1, <1>4, <2>2 DEF On
  <2>. QED  BY <2>1, <2>2
<1>5. ASSUME NEW t \in 0..(now-1), NEW j \in Jobs, job_node'[j] = n, Had(j, "download", t)',
             ~NodeHad(n, "IDLE", t)'
      PROVE  \E k \in Jobs : job_node'[k] = n /\ Ran(k, t)'
  <2>1. Had(j, "download", t) /\ ~NodeHad(n, "IDLE", t)
    BY <1>2, <1>5, JobLogKept, NodeLogKept
  <2>2. job_node[j] = n
    <3>1. job_log[j]["download"] # Never
      BY <2>1 DEF Had
    <3>2. phase[j] \notin {"absent", "queued"}
      BY <1>2, <3>1, RankValues DEF JobLogged
    <3>. QED  BY <1>1, <1>5, <3>2
  <2>3. PICK k \in Jobs : job_node[k] = n /\ Ran(k, t)
    BY <2>1, <2>2 DEF NodeBusy
  <2>4. job_node'[k] = n /\ Ran(k, t)'
    BY <1>1, <1>2, <2>3, JobLogKept
  <2>. QED  BY <2>4
<1>. QED  BY <1>3, <1>4, <1>5 DEF NodeBusy, NodeUsed

(* So the samples taken stay those the log has.                            *)
LEMMA SampleKept ==
  ASSUME TypeOK, ~ended, UNCHANGED now, Record, NEW t \in 0..(now-1),
         \A j \in Jobs : JobLogged(j) /\ JobOnNode(j) /\ JobMoves(j),
         \A n \in Nodes : NodeLogged(n) /\ NodeMoves(n)
  PROVE  SampleAt(t)' = SampleAt(t)
<1>1. \A j \in Jobs : /\ Ran(j, t)' <=> Ran(j, t)
                      /\ PhaseAt(j, t)' = PhaseAt(j, t)
  BY JobLogKept
<1>2. \A j \in Jobs : /\ Had(j, "queued", t)' <=> Had(j, "queued", t)
                      /\ Had(j, "download", t)' <=> Had(j, "download", t)
  <2>1. "queued" \in JobEvents /\ "download" \in JobEvents
    BY DEF JobEvents, Active
  <2>. QED  BY <2>1, JobLogKept
<1>3. \A n \in Nodes : /\ NodeHad(n, "LAUNCHING", t)' <=> NodeHad(n, "LAUNCHING", t)
                       /\ NodeHad(n, "READY", t)' <=> NodeHad(n, "READY", t)
                       /\ NodeHad(n, "TERMINATED", t)' <=> NodeHad(n, "TERMINATED", t)
  <2>1. {"LAUNCHING", "READY", "TERMINATED"} \subseteq NodeEvents
    BY DEF NodeEvents
  <2>. QED  BY <2>1, NodeLogKept
<1>4. \A j \in Jobs : Ran(j, t) => job_node'[j] = job_node[j]
  <2> TAKE j \in Jobs
  <2> HAVE Ran(j, t)
  <2>1. job_log[j]["download"] # Never /\ "download" \in JobEvents
    BY DEF Ran, Had, JobEvents, Active
  <2>2. phase[j] \notin {"absent", "queued"}
    BY <2>1, RankValues DEF JobLogged
  <2>. QED  BY <2>2, JobNodeKept
<1> HIDE DEF Ran, PhaseAt, Had, NodeHad
<1>5. [j \in Jobs |-> IF Ran(j, t)' THEN Use[j][PhaseAt(j, t)'] ELSE 0]
        = [j \in Jobs |-> IF Ran(j, t) THEN Use[j][PhaseAt(j, t)] ELSE 0]
  BY <1>1
<1>6. [j \in Jobs |-> IF Ran(j, t)' THEN Peak[j] ELSE 0]
        = [j \in Jobs |-> IF Ran(j, t) THEN Peak[j] ELSE 0]
  BY <1>1
<1>7. SampleAt(t)'.alive = SampleAt(t).alive
  BY <1>3 DEF SampleAt
<1>8. SampleAt(t)'.idle = SampleAt(t).idle
  BY <1>1, <1>3, <1>4 DEF SampleAt
<1>9. SampleAt(t)'.queued = SampleAt(t).queued
  BY <1>2 DEF SampleAt
<1>. QED  BY <1>5, <1>6, <1>7, <1>8, <1>9 DEF SampleAt

(* A sample that is taken is the one the log has of that time.             *)
LEMMA SampleNow ==
  ASSUME TypeOK, ~ended, LogInv
  PROVE  Sample = SampleAt(now)
<1>1. ASSUME NEW j \in Jobs, NEW e \in JobEvents
      PROVE  Had(j, e, now) <=> Rank[e] <= Rank[phase[j]]
  <2>1. job_log[j][e] \in -1..now /\ now \in Nat
    BY LogTimes
  <2>2. job_log[j][e] # Never <=> Rank[e] <= Rank[phase[j]]
    BY DEF LogInv, JobLogged
  <2>. QED  BY <2>1, <2>2 DEF Had
<1>2. ASSUME NEW j \in Jobs
      PROVE  /\ Ran(j, now) <=> host[j] # 0
             /\ host[j] # 0 => PhaseAt(j, now) = phase[j]
             /\ phase[j] = "queued" <=> Had(j, "queued", now) /\ ~Had(j, "download", now)
  <2>1. /\ phase[j] \in Phases
        /\ host[j] # 0 <=> phase[j] \in Active
    BY DEF TypeOK, ClusterTypeOK
  <2>2. /\ Had(j, "queued", now) <=> Rank["queued"] <= Rank[phase[j]]
        /\ Had(j, "download", now) <=> Rank["download"] <= Rank[phase[j]]
        /\ Had(j, "preprocess", now) <=> Rank["preprocess"] <= Rank[phase[j]]
        /\ Had(j, "workhorse", now) <=> Rank["workhorse"] <= Rank[phase[j]]
        /\ Had(j, "upload", now) <=> Rank["upload"] <= Rank[phase[j]]
        /\ Had(j, "done", now) <=> Rank["done"] <= Rank[phase[j]]
    BY <1>1 DEF JobEvents, Active
  <2>3. phase[j] \in {"absent", "queued", "download", "preprocess", "workhorse", "upload", "done"}
    BY <2>1 DEF Phases, Active
  <2>. QED  BY <2>1, <2>2, <2>3, RankValues DEF Ran, PhaseAt, Active
<1>3. ASSUME NEW n \in Nodes
      PROVE  /\ NodeHad(n, "LAUNCHING", now) <=> state[n] # "none"
             /\ NodeHad(n, "TERMINATED", now) <=> state[n] = "TERMINATED"
             /\ NodeHad(n, "READY", now) <=> state[n] \in {"READY", "IDLE", "TERMINATED"}
  <2>1. \A e \in NodeEvents : node_log[n][e] \in -1..now
    BY LogTimes
  <2>2. \A e \in NodeEvents : NodeHad(n, e, now) <=> node_log[n][e] # Never
    BY <2>1, LogTimes DEF NodeHad
  <2>. QED  BY <2>2 DEF NodeEvents, LogInv, NodeLogged
<1>4. ASSUME NEW n \in Nodes
      PROVE  On(host, n) = {} <=> \A j \in Jobs : job_node[j] = n => ~Ran(j, now)
  <2>1. \A j \in Jobs : host[j] # 0 => host[j] = job_node[j]
    BY DEF LogInv, JobOnNode
  <2>2. n # 0
    BY DEF Nodes
  <2>. QED  BY <1>2, <2>1, <2>2 DEF On
<1> HIDE DEF Ran, PhaseAt, Had, NodeHad
<1>5. [j \in Jobs |-> IF host[j] # 0 THEN Use[j][phase[j]] ELSE 0]
        = [j \in Jobs |-> IF Ran(j, now) THEN Use[j][PhaseAt(j, now)] ELSE 0]
  BY <1>2
<1>6. [j \in Jobs |-> IF host[j] # 0 THEN Peak[j] ELSE 0]
        = [j \in Jobs |-> IF Ran(j, now) THEN Peak[j] ELSE 0]
  BY <1>2
<1>7. {n \in Nodes : state[n] \notin {"none", "TERMINATED"}}
        = {n \in Nodes : NodeHad(n, "LAUNCHING", now) /\ ~NodeHad(n, "TERMINATED", now)}
  BY <1>3
<1>8. {n \in Up : On(host, n) = {}} = SampleAt(now).idle
  <2>1. \A n \in Nodes : state[n] \in {"READY", "IDLE"}
                           <=> NodeHad(n, "READY", now) /\ ~NodeHad(n, "TERMINATED", now)
    BY <1>3
  <2>. QED  BY <1>4, <2>1 DEF Up, SampleAt
<1>9. Queued(phase) = {j \in Jobs : Had(j, "queued", now) /\ ~Had(j, "download", now)}
  BY <1>2 DEF Queued
<1>. QED  BY <1>5, <1>6, <1>7, <1>8, <1>9 DEF Sample, SampleAt

(* A step of the cluster.                                                  *)
LEMMA RunStep ==
  ASSUME RunInv, ~ended, ClusterNext, Record, UNCHANGED <<until, events, now, ended, samples>>
  PROVE  RunInv'
<1>1. TypeOK /\ IInv /\ LogInv /\ SamplesLogged
  BY DEF RunInv
<1>2. IInv' /\ ClusterTypeOK'
  BY <1>1, ClusterStep DEF IInv
<1>3. (\A j \in Jobs : JobMoves(j)) /\ (\A n \in Nodes : NodeMoves(n))
  BY <1>1, ClusterMoves
<1>4. /\ \A j \in Jobs : JobLogged(j) /\ JobOnNode(j)
      /\ \A n \in Nodes : NodeLogged(n) /\ NodeBusy(n)
  BY <1>1 DEF LogInv
<1>5. TypeOK'
  <2>1. job_log' \in [Jobs -> [JobEvents -> -1..now]]
    BY <1>1 DEF TypeOK, Record
  <2>2. node_log' \in [Nodes -> [NodeEvents -> -1..now]]
    BY <1>1 DEF TypeOK, Record
  <2>3. job_node' \in [Jobs -> Nodes \cup {0}]
    BY <1>1, <1>2 DEF TypeOK, ClusterTypeOK, Record
  <2>. QED  BY <1>1, <1>2, <2>1, <2>2, <2>3 DEF TypeOK
<1>6. LogInv'
  <2>1. \A j \in Jobs : JobLogged(j)'
    <3>1. \A j \in Jobs : phase'[j] \in Phases
      BY <1>2 DEF ClusterTypeOK
    <3>. QED  BY <1>1, <1>3, <1>4, <3>1, JobLoggedStep
  <2>2. \A n \in Nodes : NodeLogged(n)'
    BY <1>1, <1>3, <1>4, NodeLoggedStep
  <2>3. \A j \in Jobs : JobOnNode(j)'
    <3>1. \A j \in Jobs : (host[j] # 0 <=> phase[j] \in Active)'
      BY <1>2 DEF ClusterTypeOK
    <3>. QED  BY <1>1, <1>3, <1>4, <2>2, <3>1, JobOnNodeStep
  <2>4. \A n \in Nodes : NodeBusy(n)'
    BY <1>1, <1>3, <1>4, NodeBusyStep
  <2>. QED  BY <2>1, <2>2, <2>3, <2>4 DEF LogInv
<1>7. SamplesLogged'
  <2>1. now \in Nat
    BY <1>1, LogTimes
  <2>2. \A t \in 0..(now-1) : SampleAt(t)' = SampleAt(t)
    BY <1>1, <1>3, <1>4, SampleKept
  <2>3. \A i \in 1..now : SampleAt(i-1)' = SampleAt(i-1)
    BY <2>1, <2>2
  <2>. QED  BY <1>1, <2>3 DEF SamplesLogged
<1>. QED  BY <1>2, <1>5, <1>6, <1>7 DEF RunInv

LEMMA AppendedAt ==
  ASSUME NEW S, NEW seq \in Seq(S), NEW elt \in S
  PROVE  Append(seq, elt) = [i \in 1..(Len(seq)+1) |-> IF i = Len(seq)+1 THEN elt ELSE seq[i]]
<1>1. Append(seq, elt) \in Seq(S) /\ Len(Append(seq, elt)) = Len(seq)+1 /\ Len(seq) \in Nat
  OBVIOUS
<1>2. \A i \in 1..(Len(seq)+1) : Append(seq, elt)[i] = IF i = Len(seq)+1 THEN elt ELSE seq[i]
  <2> TAKE i \in 1..(Len(seq)+1)
  <2>1. CASE i = Len(seq)+1
    BY <1>1, <2>1
  <2>2. CASE i # Len(seq)+1
    <3>1. i \in 1..Len(seq)
      BY <1>1, <2>2
    <3>. QED  BY <2>2, <3>1
  <2>. QED  BY <2>1, <2>2
<1>3. Append(seq, elt) = [i \in 1..(Len(seq)+1) |-> Append(seq, elt)[i]]
  <2>1. \A t \in Seq(S) : t = [i \in 1..Len(t) |-> t[i]]
    OBVIOUS
  <2>. QED  BY <1>1, <2>1, Zenon
<1>. QED  BY <1>2, <1>3

(* A tick of the clock.                                                    *)
LEMMA TickStep ==
  ASSUME RunInv, Tick
  PROVE  RunInv'
<1>1. /\ TypeOK /\ IInv /\ LogInv /\ SamplesLogged /\ ~ended
      /\ now' = now + 1 /\ now < until /\ samples' = Append(samples, Sample)
      /\ UNCHANGED <<clusterVars, until, events, ended, job_log, node_log, job_node>>
  BY DEF RunInv, Tick
<1>2. /\ now \in Nat /\ now' \in Nat /\ until \in Nat /\ Never = -1
      /\ \A j \in Jobs, e \in JobEvents : job_log[j][e] \in -1..now
      /\ \A n \in Nodes, e \in NodeEvents : node_log[n][e] \in -1..now
  BY <1>1, LogTimes DEF Never, TypeOK
<1>3. /\ \A j \in Jobs : JobLogged(j) /\ JobOnNode(j)
      /\ \A n \in Nodes : NodeLogged(n) /\ NodeBusy(n)
  BY <1>1 DEF LogInv
<1>4. IInv' /\ ClusterTypeOK'
  BY <1>1, ClusterStays DEF IInv
<1>5. /\ Len(samples') = now'
      /\ samples' = [i \in 1..now' |-> IF i = now' THEN Sample ELSE samples[i]]
  <2> DEFINE S == {SampleAt(i-1) : i \in 1..now} \cup {Sample}
  <2>1. samples \in [1..now -> S]
    BY <1>1 DEF SamplesLogged
  <2>2. Sample \in S
    OBVIOUS
  <2> HIDE DEF S
  <2>3. samples \in Seq(S) /\ Len(samples) = now
    BY <1>2, <2>1
  <2>4. Append(samples, Sample) = [i \in 1..(now+1) |-> IF i = now+1 THEN Sample ELSE samples[i]]
    BY <2>2, <2>3, AppendedAt
  <2>. QED  BY <1>1, <1>2, <2>4
<1>6. TypeOK'
  <2>1. job_log' \in [Jobs -> [JobEvents -> -1..now']]
    <3>1. job_log \in [Jobs -> [JobEvents -> -1..now]] /\ -1..now \subseteq -1..now'
      BY <1>1, <1>2 DEF TypeOK
    <3>. QED  BY <1>1, <3>1
  <2>2. node_log' \in [Nodes -> [NodeEvents -> -1..now']]
    <3>1. node_log \in [Nodes -> [NodeEvents -> -1..now]] /\ -1..now \subseteq -1..now'
      BY <1>1, <1>2 DEF TypeOK
    <3>. QED  BY <1>1, <3>1
  <2>3. now' \in 0..until'
    BY <1>1, <1>2
  <2>. QED  BY <1>1, <1>4, <1>5, <2>1, <2>2, <2>3 DEF TypeOK
<1>7. \A j \in Jobs : JobLogged(j)' /\ JobOnNode(j)'
  <2>1. \A j \in Jobs : JobLogged(j)'
    BY <1>1, <1>3 DEF JobLogged, clusterVars
  <2>2. \A j \in Jobs : JobOnNode(j)'
    BY <1>1, <1>3 DEF JobOnNode, clusterVars
  <2>. QED  BY <2>1, <2>2
<1>8. \A n \in Nodes : NodeLogged(n)'
  BY <1>1, <1>3 DEF NodeLogged, clusterVars
<1>9. ASSUME NEW n \in Nodes PROVE NodeBusy(n)'
  <2>1. /\ (node_log[n]["IDLE"] # Never => NodeUsed(n))'
        /\ (~ended /\ state[n] = "READY" /\ NodeUsed(n) => On(host, n) # {})'
    BY <1>1, <1>3 DEF NodeBusy, NodeUsed, On, clusterVars
  <2>2. ASSUME NEW t \in 0..now, NEW j \in Jobs, job_node[j] = n, Had(j, "download", t),
               ~NodeHad(n, "IDLE", t)
        PROVE  \E k \in Jobs : job_node[k] = n /\ Ran(k, t)
    <3>1. CASE t # now
      <4>1. t \in 0..(now-1)
        BY <1>2, <3>1
      <4>. QED  BY <1>3, <2>2, <4>1 DEF NodeBusy
    <3>2. CASE t = now
      <4>1. node_log[n]["IDLE"] = Never
        BY <1>2, <2>2, <3>2 DEF NodeHad, NodeEvents
      <4>2. node_log[n]["READY"] # Never
        BY <1>3, <2>2 DEF JobOnNode, Nodes
      <4>3. state[n] = "READY"
        BY <1>1, <1>3, <4>1, <4>2 DEF NodeLogged
      <4>4. PICK k \in Jobs : host[k] = n
        BY <1>1, <1>3, <2>2, <4>3 DEF NodeBusy, NodeUsed, On
      <4>5. job_node[k] = n /\ phase[k] \in Active
        BY <1>1, <1>3, <4>4 DEF JobOnNode, Nodes, TypeOK, ClusterTypeOK
      <4>6. Had(k, "download", now) /\ job_log[k]["done"] = Never
        <5>1. /\ Rank["download"] <= Rank[phase[k]] /\ ~(Rank["done"] <= Rank[phase[k]])
          BY <4>5, RankValues DEF Active
        <5>2. job_log[k]["download"] # Never /\ job_log[k]["done"] = Never
          BY <1>3, <5>1 DEF JobLogged, JobEvents, Active
        <5>. QED  BY <1>2, <5>2 DEF Had, JobEvents, Active
      <4>. QED  BY <3>2, <4>5, <4>6 DEF Ran, Had
    <3>. QED  BY <3>1, <3>2
  <2>3. now'-1 = now
    BY <1>1, <1>2
  <2>4. (\A t \in 0..(now-1) :
          (\E j \in Jobs : job_node[j] = n /\ Had(j, "download", t)) /\ ~NodeHad(n, "IDLE", t)
            => \E j \in Jobs : job_node[j] = n /\ Ran(j, t))'
    BY <1>1, <2>2, <2>3 DEF Had, NodeHad, Ran
  <2>. QED  BY <2>1, <2>4 DEF NodeBusy
<1>10. SamplesLogged'
  <2>1. \A t : SampleAt(t)' = SampleAt(t)
    BY <1>1 DEF SampleAt, Ran, PhaseAt, Had, NodeHad
  <2>2. Sample = SampleAt(now) /\ now'-1 = now
    BY <1>1, <1>2, SampleNow
  <2>3. \A i \in 1..now' : i # now' => samples[i] = SampleAt(i-1)
    BY <1>1, <1>2 DEF SamplesLogged
  <2>4. samples' = [i \in 1..now' |-> SampleAt(i-1)]
    BY <1>5, <2>2, <2>3
  <2>. QED  BY <2>1, <2>4 DEF SamplesLogged
<1>. QED  BY <1>1, <1>4, <1>6, <1>7, <1>8, <1>9, <1>10 DEF RunInv, LogInv

(* finalize, which changes nothing but the nodes that are left.            *)
LEMMA FinalizeStep ==
  ASSUME RunInv, Finalize
  PROVE  RunInv'
<1>1. /\ TypeOK /\ LogInv /\ SamplesLogged /\ ~ended /\ ended' /\ until > 0 /\ now = until
      /\ state' = [n \in Nodes |-> IF state[n] = "none" THEN "none" ELSE "TERMINATED"]
      /\ UNCHANGED <<storage, phase, host, type, until, events, now, samples>> /\ Record
      /\ ended' = TRUE
  BY DEF RunInv, Finalize
<1>2. /\ now \in Nat /\ Never = -1
      /\ \A j \in Jobs, e \in JobEvents : job_log[j][e] \in -1..now
      /\ \A n \in Nodes, e \in NodeEvents : node_log[n][e] \in -1..now
  BY <1>1, LogTimes DEF Never
<1>3. /\ \A j \in Jobs : JobLogged(j) /\ JobOnNode(j)
      /\ \A n \in Nodes : NodeLogged(n) /\ NodeBusy(n)
  BY <1>1 DEF LogInv
<1>4. UNCHANGED <<job_log, job_node>>
  <2>1. job_log \in [Jobs -> [JobEvents -> -1..now]] /\ job_node \in [Jobs -> Nodes \cup {0}]
    BY <1>1 DEF TypeOK
  <2>2. job_log' = job_log
    BY <1>1, <2>1 DEF Record
  <2>3. \A j \in Jobs : phase[j] = "download" => host[j] = job_node[j]
    BY <1>1, <1>3 DEF JobOnNode, TypeOK, ClusterTypeOK, Active
  <2>4. job_node' = job_node
    BY <1>1, <2>1, <2>3 DEF Record
  <2>. QED  BY <2>2, <2>4
<1>5. \A n \in Nodes, e \in NodeEvents :
        node_log'[n][e] = IF e = "TERMINATED" /\ state[n] \notin {"none", "TERMINATED"}
                          THEN now ELSE node_log[n][e]
  <2>1. \A n \in Nodes : /\ state'[n] # state[n] <=> state[n] \notin {"none", "TERMINATED"}
                         /\ state'[n] # state[n] => state'[n] = "TERMINATED"
    BY <1>1
  <2>2. \A n \in Nodes, e \in NodeEvents :
          node_log'[n][e] = IF state'[n] # state[n] /\ e = state'[n] THEN now ELSE node_log[n][e]
    BY <1>1, NodeRecorded
  <2>. QED  BY <2>1, <2>2
<1>6. TypeOK'
  <2>1. node_log' \in [Nodes -> [NodeEvents -> -1..now]]
    BY <1>1, <1>2 DEF Record
  <2>2. ClusterTypeOK'
    BY <1>1 DEF TypeOK, ClusterTypeOK, States
  <2>. QED  BY <1>1, <1>4, <2>1, <2>2 DEF TypeOK
<1>7. ASSUME NEW n \in Nodes PROVE NodeLogged(n)'
  <2> DEFINE at == node_log[n]
             new == node_log'[n]
  <2>1. /\ new["LAUNCHING"] = at["LAUNCHING"] /\ new["READY"] = at["READY"] /\ new["IDLE"] = at["IDLE"]
        /\ new["TERMINATED"] = IF state[n] \in {"none", "TERMINATED"} THEN at["TERMINATED"] ELSE now
    BY <1>1, <1>5 DEF NodeEvents, TypeOK, ClusterTypeOK, States
  <2>2. /\ at["LAUNCHING"] # Never <=> state[n] # "none"
        /\ at["TERMINATED"] # Never <=> state[n] = "TERMINATED"
        /\ at["READY"] # Never => at["LAUNCHING"] # Never /\ at["LAUNCHING"] <= at["READY"]
        /\ at["IDLE"] # Never => at["READY"] # Never /\ at["READY"] <= at["IDLE"]
        /\ at["TERMINATED"] # Never =>
             (\A e \in NodeEvents : at[e] <= at["TERMINATED"]) /\ at["IDLE"] # Never
    BY <1>1, <1>3 DEF NodeLogged
  <2>3. /\ state'[n] # "none" <=> state[n] # "none"
        /\ state'[n] = "TERMINATED" <=> state[n] # "none"
        /\ state'[n] \in {"none", "TERMINATED"}
    BY <1>1
  <2>4. at["LAUNCHING"] <= now /\ at["READY"] <= now /\ at["IDLE"] <= now
    BY <1>2 DEF NodeEvents
  <2> HIDE DEF at, new
  <2>5. new["TERMINATED"] # Never <=> state'[n] = "TERMINATED"
    BY <1>2, <2>1, <2>2, <2>3
  <2>6. ASSUME new["TERMINATED"] # Never
        PROVE  /\ \A e \in NodeEvents : new[e] <= new["TERMINATED"]
               /\ new["IDLE"] # Never \/ new["TERMINATED"] = now
    BY <1>2, <2>1, <2>2, <2>4, <2>6 DEF NodeEvents
  <2>. QED  BY <1>1, <2>1, <2>2, <2>3, <2>5, <2>6 DEF NodeLogged, at, new
<1>8. \A n \in Nodes : /\ node_log'[n]["READY"] = node_log[n]["READY"]
                       /\ node_log'[n]["IDLE"] = node_log[n]["IDLE"]
                       /\ node_log'[n]["LAUNCHING"] = node_log[n]["LAUNCHING"]
  BY <1>5 DEF NodeEvents
<1>9. \A j \in Jobs : JobLogged(j)' /\ JobOnNode(j)'
  <2>1. \A j \in Jobs : JobLogged(j)'
    BY <1>1, <1>3, <1>4 DEF JobLogged
  <2>2. ASSUME NEW j \in Jobs PROVE JobOnNode(j)'
    <3>1. job_node[j] \in Nodes \cup {0}
      BY <1>1, LogTimes
    <3>. QED  BY <1>1, <1>3, <1>4, <1>8, <3>1 DEF JobOnNode
  <2>. QED  BY <2>1, <2>2
<1>10. \A n \in Nodes : NodeBusy(n)'
  BY <1>1, <1>3, <1>4, <1>8 DEF NodeBusy, NodeUsed, NodeHad, Had, Ran
<1>11. SamplesLogged'
  <2>1. ASSUME NEW t \in 0..(now-1) PROVE SampleAt(t)' = SampleAt(t)
    <3>1. \A n \in Nodes : NodeHad(n, "TERMINATED", t)' <=> NodeHad(n, "TERMINATED", t)
      <4> TAKE n \in Nodes
      <4>1. \/ node_log'[n]["TERMINATED"] = node_log[n]["TERMINATED"]
            \/ node_log'[n]["TERMINATED"] = now /\ node_log[n]["TERMINATED"] = Never
        BY <1>1, <1>3, <1>5 DEF NodeEvents, NodeLogged
      <4>. QED  BY <1>2, <4>1 DEF NodeHad
    <3>2. \A n \in Nodes : /\ NodeHad(n, "READY", t)' <=> NodeHad(n, "READY", t)
                           /\ NodeHad(n, "LAUNCHING", t)' <=> NodeHad(n, "LAUNCHING", t)
      BY <1>8 DEF NodeHad
    <3>3. SampleAt(t)'.alive = SampleAt(t).alive
      BY <3>1, <3>2 DEF SampleAt
    <3>4. SampleAt(t)'.idle = SampleAt(t).idle
      BY <1>4, <3>1, <3>2 DEF SampleAt, Ran, Had
    <3>. QED  BY <1>4, <3>3, <3>4 DEF SampleAt, Ran, PhaseAt, Had
  <2>2. \A i \in 1..now : SampleAt(i-1)' = SampleAt(i-1)
    BY <1>2, <2>1
  <2>. QED  BY <1>1, <2>2 DEF SamplesLogged
<1>. QED  BY <1>1, <1>6, <1>7, <1>9, <1>10, <1>11 DEF RunInv, LogInv

LEMMA RunStart ==
  ASSUME Init
  PROVE  RunInv
<1>1. /\ IInv /\ now = 0 /\ ended = FALSE /\ samples = <<>>
      /\ phase = [j \in Jobs |-> "absent"] /\ host = [j \in Jobs |-> 0]
      /\ state = [n \in Nodes |-> "none"]
      /\ job_log = [j \in Jobs |-> [e \in JobEvents |-> Never]]
      /\ node_log = [n \in Nodes |-> [e \in NodeEvents |-> Never]]
      /\ job_node = [j \in Jobs |-> 0]
  BY ClusterStart DEF Init, ClusterInit
<1>2. until \in Nat /\ events \subseteq Jobs
  BY ReportAssumption DEF Init
<1>3. TypeOK
  <2>1. Never \in -1..now /\ now \in 0..until /\ ClusterTypeOK
    BY <1>1, <1>2 DEF Never, IInv
  <2>2. /\ job_log \in [Jobs -> [JobEvents -> -1..now]]
        /\ node_log \in [Nodes -> [NodeEvents -> -1..now]]
    BY <1>1, <2>1
  <2>3. job_node \in [Jobs -> Nodes \cup {0}] /\ Len(samples) = now
    BY <1>1
  <2>. QED  BY <1>1, <1>2, <2>1, <2>2, <2>3 DEF TypeOK
<1>4. ASSUME NEW j \in Jobs PROVE JobLogged(j) /\ JobOnNode(j)
  <2>1. \A e \in JobEvents : job_log[j][e] = Never /\ Rank[e] \in 1..6
    BY <1>1, RankType
  <2>2. phase[j] = "absent" /\ Rank[phase[j]] = 0 /\ \A e \in JobEvents : ~(Rank[e] <= 0)
    BY <1>1, <2>1, RankValues
  <2>4. JobLogged(j)
    BY <2>1, <2>2 DEF JobLogged
  <2>3. JobOnNode(j)
    BY <1>1 DEF JobOnNode
  <2>. QED  BY <2>3, <2>4
<1>5. ASSUME NEW n \in Nodes PROVE NodeLogged(n) /\ NodeBusy(n)
  <2>1. \A e \in NodeEvents : node_log[n][e] = Never
    BY <1>1
  <2>2. NodeLogged(n)
    BY <1>1, <2>1 DEF NodeLogged, NodeEvents
  <2>3. NodeBusy(n)
    BY <1>1, <2>1 DEF NodeBusy, NodeEvents
  <2>. QED  BY <2>2, <2>3
<1>6. SamplesLogged
  BY <1>1 DEF SamplesLogged
<1>. QED  BY <1>1, <1>3, <1>4, <1>5, <1>6 DEF RunInv, LogInv

(* The log of a run tells at every time what has happened by then, and the *)
(* samples say the same.                                                   *)
THEOREM RunInvariant == Spec => []RunInv
<1>1. RunInv /\ [Next]_vars => RunInv'
  <2> SUFFICES ASSUME RunInv, [Next]_vars PROVE RunInv'
    OBVIOUS
  <2>1. \/ Provision
        \/ \E j \in Jobs : Arrive(j) \/ NextPhase(j) \/ Complete(j)
        \/ \E n \in Nodes : NodeReady(n) \/ IdleFires(n)
        => ClusterNext
    BY DEF ClusterNext
  <2>2. CASE Run(Provision)
    BY <2>1, <2>2, RunStep DEF Run
  <2>3. ASSUME NEW j \in events, Run(Arrive(j)) PROVE RunInv'
    <3>1. j \in Jobs
      BY DEF RunInv, TypeOK
    <3>. QED  BY <2>1, <2>3, <3>1, RunStep DEF Run
  <2>4. ASSUME NEW j \in Jobs, Run(NextPhase(j)) \/ Run(Complete(j)) PROVE RunInv'
    BY <2>1, <2>4, RunStep DEF Run
  <2>5. ASSUME NEW n \in Nodes, Run(NodeReady(n)) \/ Run(IdleFires(n)) PROVE RunInv'
    BY <2>1, <2>5, RunStep DEF Run
  <2>6. CASE UNCHANGED vars
    <3>1. UNCHANGED clusterVars /\ UNCHANGED logVars
      BY <2>6 DEF vars
    <3>2. ~ended' => IInv'
      BY <3>1, ClusterStays DEF RunInv, logVars
    <3>3. TypeOK'
      BY <3>1 DEF RunInv, TypeOK, ClusterTypeOK, clusterVars, logVars
    <3>4. LogInv'
      BY <3>1 DEF RunInv, LogInv, JobLogged, JobOnNode, NodeLogged, NodeBusy, NodeUsed, NodeHad,
                  Had, Ran, On, clusterVars, logVars
    <3>5. SamplesLogged'
      BY <3>1 DEF RunInv, SamplesLogged, SampleAt, Ran, PhaseAt, Had, NodeHad, logVars
    <3>. QED  BY <3>1, <3>2, <3>3, <3>4, <3>5 DEF RunInv, logVars
  <2>. QED  BY <2>2, <2>3, <2>4, <2>5, <2>6, TickStep, FinalizeStep DEF Next
<1>. QED  BY <1>1, RunStart, PTL DEF Spec

(* The variables keep their types: a log has no time that is still to      *)
(* come, and there is one sample for each tick that has passed.            *)
THEOREM RunTypes == Spec => []TypeOK
<1>1. RunInv => TypeOK
  BY DEF RunInv
<1>. QED  BY <1>1, RunInvariant, PTL

-----------------------------------------------------------------------------
(* The log of a run that has ended: of a node that was launched, from its  *)
(* launch to its end,                                                      *)
LEMMA NodeTimes ==
  ASSUME RunInv, ended, NEW n \in Nodes
  PROVE  LET at == node_log[n]
         IN  /\ at["LAUNCHING"] = Never =>
                  at["READY"] = Never /\ at["IDLE"] = Never /\ at["TERMINATED"] = Never
             /\ at["LAUNCHING"] # Never =>
                  /\ at["LAUNCHING"] \in 0..now /\ at["TERMINATED"] \in 0..now
                  /\ at["LAUNCHING"] <= at["TERMINATED"] /\ TermTime(n) = at["TERMINATED"]
                  /\ at["READY"] # Never =>
                       /\ at["READY"] \in 0..now
                       /\ at["LAUNCHING"] <= at["READY"] /\ at["READY"] <= at["TERMINATED"]
                  /\ at["IDLE"] # Never =>
                       /\ at["READY"] # Never /\ at["IDLE"] \in 0..now
                       /\ at["READY"] <= at["IDLE"] /\ at["IDLE"] <= at["TERMINATED"]
                  /\ at["IDLE"] = Never => at["TERMINATED"] = now
<1> DEFINE at == node_log[n]
<1>1. /\ now \in Nat /\ Never = -1 /\ \A e \in NodeEvents : at[e] \in -1..now
  BY LogTimes DEF RunInv, Never
<1>2. NodeLogged(n)
  BY DEF RunInv, LogInv
<1>3. /\ at["LAUNCHING"] # Never <=> at["TERMINATED"] # Never
      /\ at["READY"] # Never => at["LAUNCHING"] # Never /\ at["LAUNCHING"] <= at["READY"]
      /\ at["IDLE"] # Never => at["READY"] # Never /\ at["READY"] <= at["IDLE"]
      /\ at["TERMINATED"] # Never =>
           /\ \A e \in NodeEvents : at[e] <= at["TERMINATED"]
           /\ at["IDLE"] # Never \/ at["TERMINATED"] = now
  BY <1>2 DEF NodeLogged
<1>4. at["TERMINATED"] # Never => TermTime(n) = at["TERMINATED"]
  BY DEF TermTime
<1> HIDE DEF at
<1>5. \A e \in NodeEvents : at[e] # Never => at[e] \in 0..now
  BY <1>1
<1>. QED  BY <1>1, <1>3, <1>4, <1>5 DEF NodeEvents, at

(* and of a job that has started: it has a node that was ready before, and *)
(* that ended after it, or at the horizon.                                 *)
LEMMA JobTimes ==
  ASSUME RunInv, ended, NEW j \in Jobs, job_log[j]["download"] # Never
  PROVE  LET n == job_node[j]
             at == node_log[n]
         IN  /\ n \in Nodes /\ at["READY"] # Never /\ at["LAUNCHING"] # Never
             /\ job_log[j]["download"] \in 0..now
             /\ at["READY"] <= job_log[j]["download"]
             /\ job_log[j]["download"] <= at["TERMINATED"]
             /\ at["IDLE"] # Never =>
                  /\ job_log[j]["done"] \in 0..now
                  /\ job_log[j]["download"] <= job_log[j]["done"]
                  /\ job_log[j]["done"] <= at["IDLE"]
<1> DEFINE n == job_node[j]
           at == node_log[n]
<1>1. /\ now \in Nat /\ Never = -1 /\ n \in Nodes \cup {0}
      /\ job_log[j]["download"] \in -1..now /\ job_log[j]["done"] \in -1..now
  BY LogTimes DEF RunInv, Never, JobEvents, Active
<1>2. JobLogged(j) /\ JobOnNode(j)
  BY DEF RunInv, LogInv
<1>3. phase[j] \notin {"absent", "queued"}
  BY <1>2, RankValues DEF JobLogged, JobEvents, Active
<1>4. /\ n # 0 /\ at["READY"] # Never /\ at["READY"] <= job_log[j]["download"]
      /\ at["IDLE"] # Never => phase[j] = "done" /\ job_log[j]["done"] <= at["IDLE"]
  BY <1>2, <1>3 DEF JobOnNode
<1>5. ASSUME phase[j] = "done"
      PROVE  job_log[j]["done"] # Never /\ job_log[j]["download"] <= job_log[j]["done"]
  BY <1>2, <1>5, RankValues DEF JobLogged, JobEvents, Active
<1>6. n \in Nodes
  BY <1>1, <1>4
<1>7. /\ at["LAUNCHING"] # Never /\ at["TERMINATED"] \in 0..now /\ at["READY"] \in 0..now
      /\ at["IDLE"] # Never => at["IDLE"] \in 0..now /\ at["IDLE"] <= at["TERMINATED"]
      /\ at["IDLE"] = Never => at["TERMINATED"] = now
  BY <1>4, <1>6, NodeTimes
<1> HIDE DEF n, at
<1>8. job_log[j]["download"] <= at["TERMINATED"]
  BY <1>1, <1>4, <1>5, <1>7
<1>. QED  BY <1>1, <1>4, <1>5, <1>6, <1>7, <1>8 DEF n, at

LEMMA SamplesAt ==
  ASSUME RunInv, ended
  PROVE  /\ now \in Nat /\ until = now /\ now > 0 /\ Len(samples) = now
         /\ \A i \in 1..now : samples[i] = SampleAt(i-1)
         /\ \A t \in 0..(now-1) : samples[t+1] = SampleAt(t)
<1>1. now \in Nat /\ until = now /\ now > 0 /\ Len(samples) = now
  BY LogTimes DEF RunInv, TypeOK
<1>2. \A i \in 1..now : samples[i] = SampleAt(i-1)
  BY DEF RunInv, SamplesLogged
<1>3. \A t \in 0..(now-1) : t+1 \in 1..now /\ (t+1)-1 = t
  BY <1>1
<1>4. \A t \in 0..(now-1) : samples[t+1] = SampleAt(t)
  BY <1>2, <1>3
<1>. QED  BY <1>1, <1>2, <1>4

(* The nodes drawn at t are those that were live then.                     *)
LEMMA NodesDrawn ==
  ASSUME RunInv, ended, NEW t \in 0..(now-1)
  PROVE  DrawnNodes(t) = SampleAt(t).alive
<1>1. now \in Nat
  BY SamplesAt
<1>2. ASSUME NEW n \in Nodes
      PROVE  node_log[n]["LAUNCHING"] # Never /\ node_log[n]["LAUNCHING"] <= t /\ t < TermTime(n)
               <=> NodeHad(n, "LAUNCHING", t) /\ ~NodeHad(n, "TERMINATED", t)
  <2>1. CASE node_log[n]["LAUNCHING"] = Never
    BY <2>1 DEF NodeHad
  <2>2. CASE node_log[n]["LAUNCHING"] # Never
    <3>1. node_log[n]["TERMINATED"] \in 0..now /\ TermTime(n) = node_log[n]["TERMINATED"]
      BY <2>2, NodeTimes
    <3>2. node_log[n]["TERMINATED"] # Never
      BY <3>1, <1>1 DEF Never
    <3>. QED  BY <1>1, <2>2, <3>1, <3>2 DEF NodeHad
  <2>. QED  BY <2>1, <2>2
<1>. QED  BY <1>2 DEF DrawnNodes, SampleAt

(* A job that ran at t did so on a node that is drawn.                     *)
LEMMA RanOnDrawn ==
  ASSUME RunInv, ended, NEW t \in 0..(now-1), NEW j \in Jobs, Ran(j, t)
  PROVE  job_node[j] \in DrawnNodes(t)
<1> DEFINE n == job_node[j]
           at == node_log[n]
<1>1. now \in Nat
  BY SamplesAt
<1>2. job_log[j]["download"] # Never /\ job_log[j]["download"] <= t
  BY DEF Ran, Had
<1>3. /\ n \in Nodes /\ at["READY"] # Never /\ at["LAUNCHING"] # Never
      /\ job_log[j]["download"] \in 0..now /\ at["READY"] <= job_log[j]["download"]
      /\ at["IDLE"] # Never => job_log[j]["done"] \in 0..now /\ job_log[j]["done"] <= at["IDLE"]
  BY <1>2, JobTimes
<1>4. /\ at["LAUNCHING"] \in 0..now /\ at["TERMINATED"] \in 0..now /\ at["READY"] \in 0..now
      /\ at["LAUNCHING"] <= at["READY"] /\ TermTime(n) = at["TERMINATED"]
      /\ at["IDLE"] # Never => at["IDLE"] \in 0..now /\ at["IDLE"] <= at["TERMINATED"]
      /\ at["IDLE"] = Never => at["TERMINATED"] = now
  BY <1>3, NodeTimes
<1>5. at["LAUNCHING"] <= t
  BY <1>1, <1>2, <1>3, <1>4
<1>6. t < at["TERMINATED"]
  <2>1. CASE at["IDLE"] = Never
    BY <1>1, <1>4, <2>1
  <2>2. CASE at["IDLE"] # Never
    <3>1. job_log[j]["done"] \in 0..now /\ job_log[j]["done"] <= at["IDLE"]
      BY <1>3, <2>2
    <3>2. t < job_log[j]["done"]
      BY <1>1, <3>1 DEF Ran, Had, Never
    <3>. QED  BY <1>1, <1>4, <2>2, <3>1, <3>2
  <2>. QED  BY <2>1, <2>2
<1>. QED  BY <1>3, <1>4, <1>5, <1>6 DEF DrawnNodes

(* A job's events, one after the other.                                    *)
LEMMA JobOrder ==
  ASSUME RunInv, NEW j \in Jobs
  PROVE  LET at == job_log[j]
         IN  /\ \A e \in JobEvents : at[e] = Never \/ at[e] \in 0..now
             /\ at["download"] # Never => at["queued"] # Never /\ at["queued"] <= at["download"]
             /\ at["preprocess"] # Never =>
                  at["download"] # Never /\ at["download"] <= at["preprocess"]
             /\ at["workhorse"] # Never =>
                  at["preprocess"] # Never /\ at["preprocess"] <= at["workhorse"]
             /\ at["upload"] # Never => at["workhorse"] # Never /\ at["workhorse"] <= at["upload"]
             /\ at["done"] # Never => at["upload"] # Never /\ at["upload"] <= at["done"]
<1> DEFINE at == job_log[j]
<1>1. \A e \in JobEvents : at[e] = Never \/ at[e] \in 0..now
  <2>1. now \in Nat /\ \A e \in JobEvents : at[e] \in -1..now
    BY LogTimes DEF RunInv
  <2>. QED  BY <2>1 DEF Never
<1>2. JobLogged(j) /\ Rank[phase[j]] \in 0..6
  BY RankType DEF RunInv, LogInv, TypeOK, ClusterTypeOK
<1>3. ASSUME NEW d \in JobEvents, NEW e \in JobEvents, Rank[d] <= Rank[e], at[e] # Never
      PROVE  at[d] # Never /\ at[d] <= at[e]
  <2>1. Rank[d] \in 1..6 /\ Rank[e] \in 1..6
    BY RankType
  <2>. QED  BY <1>2, <1>3, <2>1 DEF JobLogged
<1>4. {"queued", "download", "preprocess", "workhorse", "upload", "done"} \subseteq JobEvents
  BY DEF JobEvents, Active
<1> HIDE DEF at
<1>5. /\ at["download"] # Never => at["queued"] # Never /\ at["queued"] <= at["download"]
      /\ at["preprocess"] # Never => at["download"] # Never /\ at["download"] <= at["preprocess"]
      /\ at["workhorse"] # Never => at["preprocess"] # Never /\ at["preprocess"] <= at["workhorse"]
      /\ at["upload"] # Never => at["workhorse"] # Never /\ at["workhorse"] <= at["upload"]
      /\ at["done"] # Never => at["upload"] # Never /\ at["upload"] <= at["done"]
  BY <1>3, <1>4, RankValues
<1>. QED  BY <1>1, <1>5 DEF at

(* The windows kept of a job are the phases it was in, and of a job that   *)
(* is done all of them are kept.                                           *)
LEMMA WindowsTrue ==
  ASSUME RunInv, ended, NEW t \in 0..(now-1), NEW j \in Jobs
  PROVE  /\ \A ph \in Windows(j) :
              Start(j, ph) <= t /\ t < Close(j, ph) => Ran(j, t) /\ ph = PhaseAt(j, t)
         /\ Bar(j, t) => Ran(j, t)
         /\ job_log[j]["done"] # Never /\ Ran(j, t) =>
              /\ PhaseAt(j, t) \in Windows(j) /\ Bar(j, t)
              /\ Start(j, PhaseAt(j, t)) <= t /\ t < Close(j, PhaseAt(j, t))
<1> DEFINE at == job_log[j]
           d == at["download"]
           p == at["preprocess"]
           w == at["workhorse"]
           u == at["upload"]
           x == at["done"]
<1>1. /\ now \in Nat /\ t \in Int /\ 0 <= t /\ Never = -1
      /\ d = -1 \/ d \in 0..now
      /\ p = -1 \/ (p \in 0..now /\ d # -1 /\ d <= p)
      /\ w = -1 \/ (w \in 0..now /\ p # -1 /\ p <= w)
      /\ u = -1 \/ (u \in 0..now /\ w # -1 /\ w <= u)
      /\ x = -1 \/ (x \in 0..now /\ u # -1 /\ u <= x)
  BY SamplesAt, JobOrder DEF Never, JobEvents, Active
<1>2. /\ Ran(j, t) <=> (d # -1 /\ d <= t) /\ ~(x # -1 /\ x <= t)
      /\ PhaseAt(j, t) = IF u # -1 /\ u <= t THEN "upload"
                         ELSE IF w # -1 /\ w <= t THEN "workhorse"
                         ELSE IF p # -1 /\ p <= t THEN "preprocess" ELSE "download"
  BY <1>1 DEF Ran, PhaseAt, Had
<1>3. /\ \A ph : ph \in Windows(j) <=> \/ ph = "download" /\ d # -1 /\ p # -1
                                       \/ ph = "preprocess" /\ p # -1 /\ w # -1
                                       \/ ph = "workhorse" /\ w # -1 /\ u # -1
                                       \/ ph = "upload" /\ u # -1 /\ x # -1
      /\ Start(j, "download") = d /\ Close(j, "download") = p
      /\ Start(j, "preprocess") = p /\ Close(j, "preprocess") = w
      /\ Start(j, "workhorse") = w /\ Close(j, "workhorse") = u
      /\ Start(j, "upload") = u /\ Close(j, "upload") = x
  BY <1>1 DEF Windows, Active, Closes, Start, Close
<1> HIDE DEF at, d, p, w, u, x
<1>4. ASSUME NEW ph \in Windows(j), Start(j, ph) <= t, t < Close(j, ph)
      PROVE  Ran(j, t) /\ ph = PhaseAt(j, t)
  <2>1. CASE ph = "download"
    BY <1>1, <1>2, <1>3, <1>4, <2>1
  <2>2. CASE ph = "preprocess"
    BY <1>1, <1>2, <1>3, <1>4, <2>2
  <2>3. CASE ph = "workhorse"
    BY <1>1, <1>2, <1>3, <1>4, <2>3
  <2>4. CASE ph = "upload"
    BY <1>1, <1>2, <1>3, <1>4, <2>4
  <2>. QED  BY <1>3, <2>1, <2>2, <2>3, <2>4
<1>5. ASSUME Bar(j, t) PROVE Ran(j, t)
  <2>1. PICK ph \in Windows(j) : d <= t /\ t < Close(j, ph)
    BY <1>3, <1>5 DEF Bar
  <2>2. CASE ph = "download"
    BY <1>1, <1>2, <1>3, <2>1, <2>2
  <2>3. CASE ph = "preprocess"
    BY <1>1, <1>2, <1>3, <2>1, <2>3
  <2>4. CASE ph = "workhorse"
    BY <1>1, <1>2, <1>3, <2>1, <2>4
  <2>5. CASE ph = "upload"
    BY <1>1, <1>2, <1>3, <2>1, <2>5
  <2>. QED  BY <1>3, <2>2, <2>3, <2>4, <2>5
<1>6. ASSUME x # -1, Ran(j, t)
      PROVE  /\ PhaseAt(j, t) \in Windows(j) /\ Bar(j, t)
             /\ Start(j, PhaseAt(j, t)) <= t /\ t < Close(j, PhaseAt(j, t))
  <2>1. /\ u # -1 /\ w # -1 /\ p # -1 /\ d # -1 /\ d <= t /\ t < x
        /\ d \in 0..now /\ p \in 0..now /\ w \in 0..now /\ u \in 0..now /\ x \in 0..now
    BY <1>1, <1>2, <1>6
  <2>2. /\ PhaseAt(j, t) \in Windows(j)
        /\ Start(j, PhaseAt(j, t)) <= t /\ t < Close(j, PhaseAt(j, t))
    <3>1. CASE PhaseAt(j, t) = "download"
      BY <1>1, <1>2, <1>3, <2>1, <3>1
    <3>2. CASE PhaseAt(j, t) = "preprocess"
      BY <1>1, <1>2, <1>3, <2>1, <3>2
    <3>3. CASE PhaseAt(j, t) = "workhorse"
      BY <1>1, <1>2, <1>3, <2>1, <3>3
    <3>4. CASE PhaseAt(j, t) = "upload"
      BY <1>1, <1>2, <1>3, <2>1, <3>4
    <3>. QED  BY <1>2, <3>1, <3>2, <3>3, <3>4
  <2>3. Bar(j, t)
    BY <1>3, <2>1, <2>2 DEF Bar
  <2>. QED  BY <2>2, <2>3
<1>. QED  BY <1>1, <1>4, <1>5, <1>6 DEF x, at

(* _build_usage_series shows no more than was used, and all of it when     *)
(* every job is done.                                                      *)
LEMMA UsageTrue ==
  ASSUME RunInv, ended, NEW t \in 0..(now-1)
  PROVE  /\ UsedRam(t) <= SampleAt(t).util1 /\ SoftReserved(t) <= SampleAt(t).reserved
         /\ AllDone => UsedRam(t) = SampleAt(t).util1 /\ SoftReserved(t) = SampleAt(t).reserved
<1> DEFINE drawn(j) == {ph \in Windows(j) : Start(j, ph) <= t /\ t < Close(j, ph)}
           shown(j) == CHOOSE ph \in drawn(j) : TRUE
           f == [j \in Jobs |-> IF job_node[j] \in DrawnNodes(t) /\ drawn(j) # {}
                                THEN Use[j][shown(j)] ELSE 0]
           g == [j \in Jobs |-> IF Ran(j, t) THEN Use[j][PhaseAt(j, t)] ELSE 0]
           c == [j \in Jobs |-> IF job_node[j] \in DrawnNodes(t) /\ Bar(j, t) THEN Peak[j] ELSE 0]
           r == [j \in Jobs |-> IF Ran(j, t) THEN Peak[j] ELSE 0]
<1>1. Jobs = 1..NumJobs /\ NumJobs \in Nat
  BY NumJobsAssumption DEF Jobs
<1>2. ASSUME NEW j \in Jobs
      PROVE  Use[j][PhaseAt(j, t)] \in Nat /\ Peak[j] \in Nat
  <2>1. PhaseAt(j, t) \in Active
    BY DEF PhaseAt, Active
  <2>. QED  BY <2>1, BatchAssumption
<1>3. \A j \in Jobs : drawn(j) # {} => Ran(j, t) /\ shown(j) = PhaseAt(j, t)
  <2> TAKE j \in Jobs
  <2> HAVE drawn(j) # {}
  <2>1. shown(j) \in drawn(j)
    OBVIOUS
  <2>2. \A ph \in drawn(j) : Ran(j, t) /\ ph = PhaseAt(j, t)
    BY WindowsTrue
  <2> HIDE DEF drawn, shown
  <2>. QED  BY <2>1, <2>2
<1>4. \A j \in Jobs : Bar(j, t) => Ran(j, t)
  BY WindowsTrue
<1> HIDE DEF drawn, shown
<1>5. /\ f \in [1..NumJobs -> Int] /\ g \in [1..NumJobs -> Int]
      /\ c \in [1..NumJobs -> Int] /\ r \in [1..NumJobs -> Int]
  BY <1>1, <1>2, <1>3
<1>6. \A j \in 1..NumJobs : f[j] <= g[j] /\ c[j] <= r[j]
  BY <1>1, <1>2, <1>3, <1>4
<1>7. ASSUME AllDone PROVE f = g /\ c = r
  <2>1. ASSUME NEW j \in Jobs, Ran(j, t)
        PROVE  job_node[j] \in DrawnNodes(t) /\ drawn(j) # {} /\ Bar(j, t)
    <3>1. job_log[j]["download"] # Never /\ JobLogged(j)
      BY <2>1 DEF Ran, Had, RunInv, LogInv
    <3>2. phase[j] = "done"
      BY <1>7, <3>1, RankValues DEF AllDone, JobLogged, JobEvents, Active
    <3>3. job_log[j]["done"] # Never
      BY <3>1, <3>2, RankValues DEF JobLogged, JobEvents, Active
    <3>. QED  BY <2>1, <3>3, RanOnDrawn, WindowsTrue DEF drawn
  <2>. QED  BY <1>3, <1>4, <2>1
<1>8. /\ UsedRam(t) = Total(f, NumJobs) /\ SampleAt(t).util1 = Total(g, NumJobs)
      /\ SoftReserved(t) = Total(c, NumJobs) /\ SampleAt(t).reserved = Total(r, NumJobs)
  BY DEF UsedRam, SoftReserved, SampleAt, drawn, shown
<1> HIDE DEF f, g, c, r
<1>9. Total(f, NumJobs) <= Total(g, NumJobs) /\ Total(c, NumJobs) <= Total(r, NumJobs)
  BY <1>1, <1>5, <1>6, TotalLe
<1>. QED  BY <1>7, <1>8, <1>9

(* The time billed is the time the nodes were live.                        *)
LEMMA BilledTrue ==
  ASSUME RunInv, ended
  PROVE  BilledTime = Total([k \in 1..now |-> Cardinality(SampleAt(k-1).alive)], now)
<1> DEFINE L(n) == node_log[n]["LAUNCHING"]
           T(n) == node_log[n]["TERMINATED"]
           S == [k \in 1..now |-> SampleAt(k-1).alive]
           from == [n \in Nodes |-> IF L(n) = Never THEN 0 ELSE L(n)]
           to == [n \in Nodes |-> IF L(n) = Never THEN 0 ELSE T(n)]
<1>1. now \in Nat /\ Never = -1 /\ Nodes = 1..MaxNodes /\ MaxNodes \in Nat
  BY SamplesAt, BatchAssumption DEF Never, Nodes
<1>2. \A n \in Nodes : IF L(n) = Never THEN T(n) = Never
                       ELSE L(n) \in 0..now /\ T(n) \in 0..now /\ L(n) <= T(n)
  BY NodeTimes
<1>3. \A k \in 1..now : S[k] = {n \in Nodes : /\ NodeHad(n, "LAUNCHING", k-1)
                                              /\ ~NodeHad(n, "TERMINATED", k-1)}
  BY DEF SampleAt
<1>4. S \in [1..now -> SUBSET Nodes]
  BY DEF SampleAt
<1>5. ASSUME NEW n \in Nodes, NEW k \in 1..now
      PROVE  n \in S[k] <=> from[n] < k /\ k <= to[n]
  <2>1. n \in S[k] <=> (L(n) # Never /\ L(n) <= k-1) /\ ~(T(n) # Never /\ T(n) <= k-1)
    BY <1>3 DEF NodeHad
  <2>2. from[n] = (IF L(n) = Never THEN 0 ELSE L(n)) /\ to[n] = (IF L(n) = Never THEN 0 ELSE T(n))
    OBVIOUS
  <2> HIDE DEF L, T, S, from, to
  <2>. QED  BY <1>1, <1>2, <2>1, <2>2
<1>6. from \in [Nodes -> 0..now] /\ to \in [Nodes -> 0..now] /\ \A n \in Nodes : from[n] <= to[n]
  BY <1>1, <1>2
<1>7. \A n \in Nodes : (to[n] - from[n]) + (to[n] - to[n])
                         = IF L(n) = Never THEN 0 ELSE T(n) - L(n)
  BY <1>1, <1>2
<1>8. BilledTime = Total([n \in Nodes |-> (to[n] - from[n]) + (to[n] - to[n])], MaxNodes)
  BY <1>7 DEF BilledTime
<1>9. Total([k \in 1..now |-> Cardinality(S[k])], now)
        = Total([n \in Nodes |-> (to[n] - from[n]) + (to[n] - to[n])], MaxNodes)
  <2>1. \A n \in Nodes, k \in 1..now :
          n \in S[k] <=> (from[n] < k /\ k <= to[n]) \/ (to[n] < k /\ k <= to[n])
    <3>1. \A n \in Nodes : to[n] \in Int
      BY <1>1, <1>6
    <3> HIDE DEF S, from, to
    <3>. QED  BY <1>1, <1>5, <3>1
  <2>2. \A n \in Nodes : from[n] <= to[n] /\ to[n] <= to[n]
    <3> HIDE DEF from, to
    <3>1. \A n \in Nodes : to[n] \in Int
      BY <1>1, <1>6
    <3>. QED  BY <1>6, <3>1
  <2> HIDE DEF S, from, to
  <2>. QED  BY <1>1, <1>4, <1>6, <2>1, <2>2, TimeCounted
<1>10. [k \in 1..now |-> Cardinality(S[k])] = [k \in 1..now |-> Cardinality(SampleAt(k-1).alive)]
  OBVIOUS
<1>. QED  BY <1>8, <1>9, <1>10

(* The time that jobs waited is the time they were in the queue.           *)
LEMMA QueueTrue ==
  ASSUME RunInv, ended, AllDone
  PROVE  Total([j \in Jobs |-> IF phase[j] = "done" THEN QueueWait(j) ELSE 0], NumJobs)
           = Total([k \in 1..now |-> Cardinality(SampleAt(k-1).queued)], now)
<1> DEFINE q(j) == job_log[j]["queued"]
           d(j) == job_log[j]["download"]
           S == [k \in 1..now |-> SampleAt(k-1).queued]
           from == [j \in Jobs |-> IF phase[j] = "done" THEN q(j) ELSE 0]
           to == [j \in Jobs |-> IF phase[j] = "done" THEN d(j) ELSE 0]
<1>1. now \in Nat /\ Never = -1 /\ Jobs = 1..NumJobs /\ NumJobs \in Nat
  BY SamplesAt, NumJobsAssumption DEF Never, Jobs
<1>2. ASSUME NEW j \in Jobs
      PROVE  IF phase[j] = "done" THEN q(j) \in 0..now /\ d(j) \in 0..now /\ q(j) <= d(j)
             ELSE q(j) = Never /\ d(j) = Never
  <2>1. JobLogged(j) /\ {"queued", "download"} \subseteq JobEvents
    BY DEF RunInv, LogInv, JobEvents, Active
  <2>2. CASE phase[j] = "done"
    <3>1. q(j) # Never /\ d(j) # Never
      BY <2>1, <2>2, RankValues DEF JobLogged
    <3>. QED  BY <2>1, <2>2, <3>1, JobOrder
  <2>3. CASE phase[j] = "absent"
    <3>1. q(j) = Never /\ d(j) = Never
      BY <2>1, <2>3, RankValues DEF JobLogged
    <3>. QED  BY <2>3, <3>1
  <2>. QED  BY <2>2, <2>3 DEF AllDone
<1>3. \A k \in 1..now : S[k] = {j \in Jobs : Had(j, "queued", k-1) /\ ~Had(j, "download", k-1)}
  BY DEF SampleAt
<1>4. S \in [1..now -> SUBSET Jobs]
  BY DEF SampleAt
<1>5. ASSUME NEW j \in Jobs, NEW k \in 1..now
      PROVE  j \in S[k] <=> from[j] < k /\ k <= to[j]
  <2>1. j \in S[k] <=> (q(j) # Never /\ q(j) <= k-1) /\ ~(d(j) # Never /\ d(j) <= k-1)
    BY <1>3 DEF Had
  <2>2. /\ from[j] = IF phase[j] = "done" THEN q(j) ELSE 0
        /\ to[j] = IF phase[j] = "done" THEN d(j) ELSE 0
    OBVIOUS
  <2> HIDE DEF q, d, S, from, to
  <2>. QED  BY <1>1, <1>2, <2>1, <2>2
<1>6. from \in [Jobs -> 0..now] /\ to \in [Jobs -> 0..now] /\ \A j \in Jobs : from[j] <= to[j]
  BY <1>1, <1>2
<1>7. \A j \in Jobs : (to[j] - from[j]) + (to[j] - to[j])
                        = IF phase[j] = "done" THEN QueueWait(j) ELSE 0
  BY <1>1, <1>2 DEF QueueWait, Start
<1>8. [j \in Jobs |-> IF phase[j] = "done" THEN QueueWait(j) ELSE 0]
        = [j \in Jobs |-> (to[j] - from[j]) + (to[j] - to[j])]
  BY <1>7
<1>9. Total([k \in 1..now |-> Cardinality(S[k])], now)
        = Total([j \in Jobs |-> (to[j] - from[j]) + (to[j] - to[j])], NumJobs)
  <2> HIDE DEF S, from, to
  <2>0. \A j \in Jobs : to[j] \in Int
    BY <1>1, <1>6
  <2>1. \A j \in Jobs, k \in 1..now :
          j \in S[k] <=> (from[j] < k /\ k <= to[j]) \/ (to[j] < k /\ k <= to[j])
    BY <1>1, <1>5, <2>0
  <2>2. \A j \in Jobs : from[j] <= to[j] /\ to[j] <= to[j]
    BY <1>6, <2>0
  <2>. QED  BY <1>1, <1>4, <1>6, <2>1, <2>2, TimeCounted
<1>10. [k \in 1..now |-> Cardinality(S[k])] = [k \in 1..now |-> Cardinality(SampleAt(k-1).queued)]
  OBVIOUS
<1>. QED  BY <1>8, <1>9, <1>10

(* The figures the report computes from the log are those of the nodes     *)
(* while they were live: the memory in use and reserved, the nodes drawn,  *)
(* the time billed, the time jobs waited.                                  *)
THEOREM ReportMatches == Spec => []ReportMatchesRun
<1>1. RunInv => ReportMatchesRun
  <2> SUFFICES ASSUME RunInv, ended PROVE ReportMatchesRun
    BY DEF ReportMatchesRun
  <2>1. /\ until = now /\ Len(samples) = now
        /\ \A i \in 1..now : samples[i] = SampleAt(i-1)
        /\ \A t \in 0..(now-1) : samples[t+1] = SampleAt(t)
    BY SamplesAt
  <2>2. \A t \in 0..(until-1) :
          /\ UsedRam(t) <= samples[t+1].util1 /\ SoftReserved(t) <= samples[t+1].reserved
          /\ AllDone => UsedRam(t) = samples[t+1].util1 /\ SoftReserved(t) = samples[t+1].reserved
          /\ DrawnNodes(t) = samples[t+1].alive
    BY <2>1, UsageTrue, NodesDrawn
  <2>3. BilledTime = SampleSum(LAMBDA s : Cardinality(s.alive))
    <3>1. [i \in 1..now |-> Cardinality(samples[i].alive)]
            = [k \in 1..now |-> Cardinality(SampleAt(k-1).alive)]
      BY <2>1
    <3>. QED  BY <2>1, <3>1, BilledTrue DEF SampleSum
  <2>4. AllDone => Total([j \in Jobs |-> IF phase[j] = "done" THEN QueueWait(j) ELSE 0], NumJobs)
                     = SampleSum(LAMBDA s : Cardinality(s.queued))
    <3>1. [i \in 1..now |-> Cardinality(samples[i].queued)]
            = [k \in 1..now |-> Cardinality(SampleAt(k-1).queued)]
      BY <2>1
    <3>. QED  BY <2>1, <3>1, QueueTrue DEF SampleSum
  <2>. QED  BY <2>2, <2>3, <2>4 DEF ReportMatchesRun
<1>. QED  BY <1>1, RunInvariant, PTL

(* When node n's first job started, and the instants from which it was up  *)
(* without a job, once before its first job and once after its last.       *)
LEMMA FirstStart ==
  ASSUME RunInv, ended, NEW n \in Nodes, NodeUsed(n)
  PROVE  \E f \in 0..now :
           /\ PreFirstJob(n) = f - node_log[n]["READY"] /\ node_log[n]["READY"] <= f
           /\ \E j \in Jobs : job_node[j] = n /\ job_log[j]["download"] = f
           /\ \A j \in Jobs : job_node[j] = n =>
                job_log[j]["download"] # Never /\ f <= job_log[j]["download"]
<1> DEFINE starts == {Start(j, "download") : j \in {k \in Jobs : job_node[k] = n}}
           f == CHOOSE t \in starts : \A u \in starts : t <= u
<1>1. now \in Nat /\ Never = -1
  BY SamplesAt DEF Never
<1>2. ASSUME NEW j \in Jobs, job_node[j] = n
      PROVE  /\ job_log[j]["download"] # Never /\ job_log[j]["download"] \in 0..now
             /\ node_log[n]["READY"] <= job_log[j]["download"]
  <2>1. JobLogged(j) /\ JobOnNode(j) /\ phase[j] \in Phases
    BY DEF RunInv, LogInv, TypeOK, ClusterTypeOK
  <2>2. phase[j] \notin {"absent", "queued"}
    BY <1>2, <2>1 DEF JobOnNode, Nodes
  <2>3. job_log[j]["download"] # Never
    BY <2>1, <2>2, RankValues DEF JobLogged, JobEvents, Active, Phases
  <2>. QED  BY <1>2, <2>3, JobTimes
<1>3. starts \in SUBSET Nat /\ starts # {}
  BY <1>1, <1>2 DEF NodeUsed, Start
<1>4. \A j \in Jobs : job_node[j] = n => job_log[j]["download"] \in starts
  BY DEF Start
<1>5. \A t \in starts : \E j \in Jobs : job_node[j] = n /\ job_log[j]["download"] = t
  BY DEF Start
<1>6. PreFirstJob(n) = IF starts = {} \/ f < node_log[n]["READY"] THEN 0
                       ELSE f - node_log[n]["READY"]
  BY DEF PreFirstJob
<1> HIDE DEF starts
<1>7. \E t \in starts : \A u \in starts : t <= u
  BY <1>3, LeastNat
<1>8. f \in starts /\ \A u \in starts : f <= u
  BY <1>7
<1> HIDE DEF f
<1>9. PICK j \in Jobs : job_node[j] = n /\ job_log[j]["download"] = f
  BY <1>5, <1>8
<1>10. f \in 0..now /\ node_log[n]["READY"] <= f /\ node_log[n]["READY"] \in 0..now
  <2>1. f \in 0..now /\ node_log[n]["READY"] <= f /\ node_log[n]["READY"] # Never
    BY <1>2, <1>9, JobTimes
  <2>2. node_log[n]["READY"] \in -1..now
    BY LogTimes DEF RunInv, NodeEvents
  <2>. QED  BY <1>1, <2>1, <2>2
<1>11. PreFirstJob(n) = f - node_log[n]["READY"]
  <2>1. ~(f < node_log[n]["READY"])
    BY <1>1, <1>10
  <2>. QED  BY <1>3, <1>6, <2>1, Zenon
<1>12. \A k \in Jobs : job_node[k] = n =>
         job_log[k]["download"] # Never /\ f <= job_log[k]["download"]
  BY <1>2, <1>4, <1>8
<1>. QED  BY <1>9, <1>10, <1>11, <1>12

LEMMA IdleWindows ==
  ASSUME RunInv, ended, NEW n \in Nodes, NodeUsed(n), NEW f \in 0..now,
         node_log[n]["READY"] <= f,
         \E j \in Jobs : job_node[j] = n /\ job_log[j]["download"] = f,
         \A j \in Jobs : job_node[j] = n =>
           job_log[j]["download"] # Never /\ f <= job_log[j]["download"]
  PROVE  LET at == node_log[n]
             again == IF at["IDLE"] = Never THEN at["TERMINATED"] ELSE at["IDLE"]
         IN  /\ at["READY"] \in 0..now /\ again \in 0..now /\ at["TERMINATED"] \in 0..now
             /\ f <= again /\ again <= at["TERMINATED"]
             /\ IdleDuration(n) = at["TERMINATED"] - again
             /\ \A t \in 0..(now-1) :
                  n \in SampleAt(t).idle
                    <=> (at["READY"] <= t /\ t < f) \/ (again <= t /\ t < at["TERMINATED"])
<1> DEFINE at == node_log[n]
           again == IF at["IDLE"] = Never THEN at["TERMINATED"] ELSE at["IDLE"]
<1>1. now \in Nat /\ Never = -1
  BY SamplesAt DEF Never
<1>2. PICK j \in Jobs : job_node[j] = n /\ job_log[j]["download"] = f
  OBVIOUS
<1>3. /\ at["READY"] # Never /\ at["LAUNCHING"] # Never /\ f <= at["TERMINATED"]
      /\ at["IDLE"] # Never => job_log[j]["done"] \in 0..now /\ f <= job_log[j]["done"]
                               /\ job_log[j]["done"] <= at["IDLE"]
  BY <1>2, JobTimes
<1>4. /\ at["TERMINATED"] \in 0..now /\ at["READY"] \in 0..now
      /\ at["IDLE"] # Never => at["IDLE"] \in 0..now /\ at["READY"] <= at["IDLE"]
                               /\ at["IDLE"] <= at["TERMINATED"]
  BY <1>3, NodeTimes
<1>5. again \in 0..now /\ f <= again /\ again <= at["TERMINATED"]
  <2>1. f \in Int
    BY <1>1
  <2>2. CASE at["IDLE"] = Never
    BY <1>1, <1>3, <1>4, <2>1, <2>2
  <2>3. CASE at["IDLE"] # Never
    BY <1>1, <1>3, <1>4, <2>1, <2>3
  <2>. QED  BY <2>2, <2>3
<1>6. IdleDuration(n) = at["TERMINATED"] - again
  BY <1>1, <1>4 DEF IdleDuration
<1>7. ASSUME NEW t \in 0..(now-1)
      PROVE  n \in SampleAt(t).idle
               <=> (at["READY"] <= t /\ t < f) \/ (again <= t /\ t < at["TERMINATED"])
  <2> DEFINE free == \A k \in Jobs : job_node[k] = n => ~Ran(k, t)
  <2>1. n \in SampleAt(t).idle
          <=> NodeHad(n, "READY", t) /\ ~NodeHad(n, "TERMINATED", t) /\ free
    BY DEF SampleAt
  <2>2. /\ NodeHad(n, "READY", t) <=> at["READY"] <= t
        /\ NodeHad(n, "TERMINATED", t) <=> ~(t < at["TERMINATED"])
        /\ NodeHad(n, "IDLE", t) <=> at["IDLE"] # Never /\ at["IDLE"] <= t
    BY <1>1, <1>3, <1>4 DEF NodeHad
  <2>3. ASSUME t < f PROVE free
    <3>1. \A k \in Jobs : job_node[k] = n => job_log[k]["download"] \in 0..now
      BY JobTimes
    <3>. QED  BY <1>1, <2>3, <3>1 DEF Ran, Had
  <2>4. ASSUME at["IDLE"] # Never, at["IDLE"] <= t PROVE free
    <3>1. \A k \in Jobs : job_node[k] = n =>
            job_log[k]["done"] \in 0..now /\ job_log[k]["done"] <= at["IDLE"]
      BY <2>4, JobTimes
    <3>. QED  BY <1>1, <1>4, <2>4, <3>1 DEF Ran, Had
  <2>5. ASSUME f <= t, ~NodeHad(n, "IDLE", t) PROVE ~free
    <3>1. Had(j, "download", t)
      BY <1>2, <2>5 DEF Had
    <3>2. NodeBusy(n)
      BY DEF RunInv, LogInv
    <3>. QED  BY <1>2, <2>5, <3>1, <3>2 DEF NodeBusy
  <2> HIDE DEF free
  <2>6. f \in Int /\ t \in Int /\ (t < f \/ f <= t)
    BY <1>1
  <2>7. CASE t < f
    BY <1>1, <1>4, <1>5, <2>1, <2>2, <2>3, <2>6, <2>7
  <2>8. CASE f <= t
    <3>1. CASE at["IDLE"] = Never
      BY <1>1, <1>4, <2>1, <2>2, <2>5, <2>6, <2>8, <3>1
    <3>2. CASE at["IDLE"] # Never
      BY <1>1, <1>4, <2>1, <2>2, <2>4, <2>5, <2>6, <2>8, <3>2
    <3>. QED  BY <3>1, <3>2
  <2>. QED  BY <2>6, <2>7, <2>8
<1>. QED  BY <1>4, <1>5, <1>6, <1>7

(* The idle time that the report has is the time that nodes which have had *)
(* a job were up without one.                                              *)
THEOREM IdleTime == Spec => []IdleTimeTrue
<1> DEFINE used == {job_node[j] : j \in Jobs}
           at(n) == node_log[n]
<1>1. ASSUME RunInv, ended
      PROVE  TotalIdle = Total([k \in 1..now |-> Cardinality(SampleAt(k-1).idle \cap used)], now)
  <2> DEFINE S == [k \in 1..now |-> SampleAt(k-1).idle \cap used]
             Free(n, r, f, a, t) ==
               /\ r <= f /\ f <= a /\ a <= t
               /\ \A k \in 1..now : n \in S[k] <=> (r < k /\ k <= f) \/ (a < k /\ k <= t)
               /\ (f - r) + (t - a) = IF at(n)["READY"] = Never THEN 0
                                      ELSE PreFirstJob(n) + IdleDuration(n)
  <2>1. now \in Nat /\ Never = -1 /\ Nodes = 1..MaxNodes /\ MaxNodes \in Nat
    BY <1>1, SamplesAt, BatchAssumption DEF Never, Nodes
  <2>2. \A n \in Nodes : n \in used <=> NodeUsed(n)
    BY DEF NodeUsed
  <2>3. S \in [1..now -> SUBSET Nodes]
    BY DEF SampleAt
  <2>4. \A k \in 1..now : S[k] = SampleAt(k-1).idle \cap used
    OBVIOUS
  <2> HIDE DEF S, used
  <2>5. ASSUME NEW n \in Nodes
        PROVE  \E r, f, a, t \in 0..now : Free(n, r, f, a, t)
    <3>1. CASE NodeUsed(n)
      <4>1. PICK f \in 0..now :
              /\ PreFirstJob(n) = f - at(n)["READY"] /\ at(n)["READY"] <= f
              /\ \E j \in Jobs : job_node[j] = n /\ job_log[j]["download"] = f
              /\ \A j \in Jobs : job_node[j] = n =>
                   job_log[j]["download"] # Never /\ f <= job_log[j]["download"]
        BY <1>1, <3>1, FirstStart
      <4> DEFINE r == at(n)["READY"]
                 t == at(n)["TERMINATED"]
                 a == IF at(n)["IDLE"] = Never THEN at(n)["TERMINATED"] ELSE at(n)["IDLE"]
      <4>2. /\ r \in 0..now /\ a \in 0..now /\ t \in 0..now /\ r <= f /\ f <= a /\ a <= t
            /\ PreFirstJob(n) = f - r /\ IdleDuration(n) = t - a
            /\ \A u \in 0..(now-1) :
                 n \in SampleAt(u).idle <=> (r <= u /\ u < f) \/ (a <= u /\ u < t)
        BY <1>1, <3>1, <4>1, IdleWindows
      <4> HIDE DEF at, r, t, a
      <4>3. ASSUME NEW k \in 1..now
            PROVE  n \in S[k] <=> (r < k /\ k <= f) \/ (a < k /\ k <= t)
        <5>1. k-1 \in 0..(now-1)
          BY <2>1
        <5>2. n \in S[k] <=> (r <= k-1 /\ k-1 < f) \/ (a <= k-1 /\ k-1 < t)
          BY <2>2, <2>4, <3>1, <4>2, <5>1
        <5>. QED  BY <2>1, <4>2, <5>2
      <4>4. (f - r) + (t - a) = IF at(n)["READY"] = Never THEN 0
                                ELSE PreFirstJob(n) + IdleDuration(n)
        <5>1. at(n)["READY"] # Never
          BY <2>1, <4>2 DEF r
        <5>. QED  BY <4>2, <5>1
      <4>5. Free(n, r, f, a, t)
        BY <4>2, <4>3, <4>4
      <4> HIDE DEF Free
      <4>. QED  BY <4>2, <4>5
    <3>2. CASE ~NodeUsed(n)
      <4>1. PreFirstJob(n) = 0
        BY <3>2 DEF NodeUsed, PreFirstJob
      <4>2. NodeBusy(n)
        BY <1>1 DEF RunInv, LogInv
      <4>3. IdleDuration(n) = 0
        BY <3>2, <4>2 DEF IdleDuration, NodeBusy
      <4>4. \A k \in 1..now : n \notin S[k]
        BY <2>2, <2>4, <3>2
      <4>5. 0 \in 0..now /\ Free(n, 0, 0, 0, 0)
        BY <2>1, <4>1, <4>3, <4>4
      <4> HIDE DEF Free
      <4>. QED  BY <4>5
    <3>. QED  BY <3>1, <3>2
  <2> DEFINE w == [n \in Nodes |-> CHOOSE x \in (0..now) \X (0..now) \X (0..now) \X (0..now) :
                                     Free(n, x[1], x[2], x[3], x[4])]
             r == [n \in Nodes |-> w[n][1]]
             f == [n \in Nodes |-> w[n][2]]
             a == [n \in Nodes |-> w[n][3]]
             t == [n \in Nodes |-> w[n][4]]
  <2>6. \A n \in Nodes : /\ r[n] \in 0..now /\ f[n] \in 0..now /\ a[n] \in 0..now /\ t[n] \in 0..now
                         /\ Free(n, r[n], f[n], a[n], t[n])
    <3> HIDE DEF Free
    <3>1. ASSUME NEW n \in Nodes
          PROVE  \E x \in (0..now) \X (0..now) \X (0..now) \X (0..now) :
                   Free(n, x[1], x[2], x[3], x[4])
      <4>1. PICK b \in 0..now, c \in 0..now, d \in 0..now, e \in 0..now : Free(n, b, c, d, e)
        BY <2>5
      <4>2. /\ <<b, c, d, e>> \in (0..now) \X (0..now) \X (0..now) \X (0..now)
            /\ <<b, c, d, e>>[1] = b /\ <<b, c, d, e>>[2] = c
            /\ <<b, c, d, e>>[3] = d /\ <<b, c, d, e>>[4] = e
        OBVIOUS
      <4>. QED  BY <4>1, <4>2
    <3>2. \A n \in Nodes : /\ w[n] \in (0..now) \X (0..now) \X (0..now) \X (0..now)
                           /\ Free(n, w[n][1], w[n][2], w[n][3], w[n][4])
      BY <3>1
    <3> HIDE DEF w
    <3>. QED  BY <3>2
  <2> HIDE DEF w, r, f, a, t
  <2>7. /\ r \in [Nodes -> 0..now] /\ f \in [Nodes -> 0..now]
        /\ a \in [Nodes -> 0..now] /\ t \in [Nodes -> 0..now]
    BY <2>6 DEF r, f, a, t
  <2>8. Total([k \in 1..now |-> Cardinality(S[k])], now)
          = Total([n \in Nodes |-> (f[n] - r[n]) + (t[n] - a[n])], MaxNodes)
    <3>1. \A n \in 1..MaxNodes : r[n] <= f[n] /\ f[n] <= a[n] /\ a[n] <= t[n]
      BY <2>1, <2>6
    <3>2. \A n \in 1..MaxNodes, k \in 1..now :
            n \in S[k] <=> (r[n] < k /\ k <= f[n]) \/ (a[n] < k /\ k <= t[n])
      BY <2>1, <2>6
    <3>3. /\ MaxNodes \in Nat /\ now \in Nat /\ S \in [1..now -> SUBSET (1..MaxNodes)]
          /\ r \in [1..MaxNodes -> 0..now] /\ f \in [1..MaxNodes -> 0..now]
          /\ a \in [1..MaxNodes -> 0..now] /\ t \in [1..MaxNodes -> 0..now]
      BY <2>1, <2>3, <2>7
    <3> HIDE DEF Free, at
    <3>4. Total([k \in 1..now |-> Cardinality(S[k])], now)
            = Total([n \in 1..MaxNodes |-> (f[n] - r[n]) + (t[n] - a[n])], MaxNodes)
      BY <3>1, <3>2, <3>3, TimeCounted, ZenonT(60)
    <3>. QED  BY <2>1, <3>4
  <2>9. [n \in Nodes |-> (f[n] - r[n]) + (t[n] - a[n])]
          = [n \in Nodes |-> IF node_log[n]["READY"] = Never THEN 0
                             ELSE PreFirstJob(n) + IdleDuration(n)]
    BY <2>6
  <2>10. [k \in 1..now |-> Cardinality(S[k])]
           = [k \in 1..now |-> Cardinality(SampleAt(k-1).idle \cap used)]
    BY <2>4
  <2>. QED  BY <2>8, <2>9, <2>10 DEF TotalIdle
<1>2. RunInv => IdleTimeTrue
  <2> SUFFICES ASSUME RunInv, ended PROVE TotalIdle = SampleSum(LAMBDA s : Cardinality(s.idle \cap used))
    BY DEF IdleTimeTrue
  <2>1. Len(samples) = now /\ \A i \in 1..now : samples[i] = SampleAt(i-1)
    BY SamplesAt
  <2>2. [i \in 1..now |-> Cardinality(samples[i].idle \cap used)]
          = [k \in 1..now |-> Cardinality(SampleAt(k-1).idle \cap used)]
    BY <2>1
  <2>. QED  BY <1>1, <2>1, <2>2 DEF SampleSum
<1>. QED  BY <1>2, RunInvariant, PTL

-----------------------------------------------------------------------------
(* The refinement of ClusterContract.  What a node has room for, what the  *)
(* jobs of every node are within, and what no queued job finds: the second *)
(* part of the inductive invariant.                                        *)
RoomOf(n) == Rooms[<<storage, type[n]>>]

Hosted == \A n \in Nodes : On(host, n) # {} => On(host, n) \in RoomOf(n)

NothingWaits ==
  \A j \in Jobs, n \in Nodes : phase[j] = "queued" /\ state[n] = "READY" =>
    On(host, n) \cup {j} \notin RoomOf(n)

(* What the sets of a room are.                                            *)
LEMMA RoomIs ==
  ASSUME NEW S \in SUBSET Jobs, NEW t \in Types, NEW s \in StorageModels
  PROVE  S \in Rooms[<<s, t>>] <=>
           /\ Asked(S, Peak, NumJobs) <= Instances[t].ram - Overhead
           /\ Asked(S, Vcpu, NumJobs) <= Instances[t].vcpu
           /\ s = "pool" => Within(Asked(S, Peak, NumJobs), MaxVolumes)
           /\ s = "dedicated" => Cardinality(S) <= MaxVolumes
<1> DEFINE k == <<s, t>>
           Room(x, T) == /\ Asked(T, Peak, NumJobs) <= Instances[x[2]].ram - Overhead
                         /\ Asked(T, Vcpu, NumJobs) <= Instances[x[2]].vcpu
                         /\ x[1] = "pool" => Within(Asked(T, Peak, NumJobs), MaxVolumes)
                         /\ x[1] = "dedicated" => Cardinality(T) <= MaxVolumes
<1>1. k \in StorageModels \X Types /\ k[1] = s /\ k[2] = t
  OBVIOUS
<1>2. Rooms = [x \in StorageModels \X Types |-> {T \in SUBSET Jobs : Room(x, T)}]
  BY DEF Rooms
<1>3. Room(k, S) <=>
           /\ Asked(S, Peak, NumJobs) <= Instances[t].ram - Overhead
           /\ Asked(S, Vcpu, NumJobs) <= Instances[t].vcpu
           /\ s = "pool" => Within(Asked(S, Peak, NumJobs), MaxVolumes)
           /\ s = "dedicated" => Cardinality(S) <= MaxVolumes
  BY <1>1
<1>4. S \in Rooms[k] <=> Room(k, S)
  <2> HIDE DEF Room, k
  <2>. QED  BY <1>1, <1>2
<1>. QED  BY <1>3, <1>4 DEF k

(* A node has room for a job when its jobs are, with that one, within its  *)
(* room.                                                                   *)
LEMMA FitsIsRoom ==
  ASSUME NEW h, NEW n, NEW j \in Jobs, h[j] # n, type[n] \in Types, storage \in StorageModels
  PROVE  FitsOn(h, n, j) <=> On(h, n) \cup {j} \in RoomOf(n)
<1> DEFINE T == On(h, n)
           S == T \cup {j}
<1>1. j \notin T /\ j \in 1..NumJobs /\ NumJobs \in Nat /\ T \in SUBSET Jobs
  BY NumJobsAssumption DEF On, Jobs
<1>2. Peak \in [1..NumJobs -> Nat]
  BY BatchAssumption DEF Jobs
<1>3. Vcpu \in [1..NumJobs -> Nat]
  BY BatchAssumption DEF Jobs
<1>4. LoadOf(h, n, Peak) = Asked(T, Peak, NumJobs) /\ LoadOf(h, n, Vcpu) = Asked(T, Vcpu, NumJobs)
  BY DEF LoadOf
<1>5. FitsOn(h, n, j) <=>
        /\ LoadOf(h, n, Peak) + Peak[j] <= Instances[type[n]].ram - Overhead
        /\ LoadOf(h, n, Vcpu) + Vcpu[j] <= Instances[type[n]].vcpu
        /\ storage = "pool" => Within(LoadOf(h, n, Peak) + Peak[j], MaxVolumes)
        /\ storage = "dedicated" => Cardinality(T) < MaxVolumes
  BY DEF FitsOn, RamFits, HasRoomFor, PoolHasRoom
<1> HIDE DEF T
<1>6. Asked(T \cup {j}, Peak, NumJobs) = Asked(T, Peak, NumJobs) + Peak[j]
  BY <1>1, <1>2, SumAdd, ZenonT(60)
<1>7. Asked(T \cup {j}, Vcpu, NumJobs) = Asked(T, Vcpu, NumJobs) + Vcpu[j]
  BY <1>1, <1>3, SumAdd, ZenonT(60)
<1>8. Cardinality(T) < MaxVolumes <=> Cardinality(T \cup {j}) <= MaxVolumes
  <2>1. IsFiniteSet(T)
    <3>1. IsFiniteSet(Jobs)
      BY NumJobsAssumption, FS_Interval DEF Jobs
    <3>. QED  BY <1>1, <3>1, FS_Subset
  <2>2. Cardinality(T \cup {j}) = Cardinality(T) + 1 /\ Cardinality(T) \in Nat
    BY <1>1, <2>1, FS_AddElement, FS_CardinalityType
  <2>. QED  BY <2>2, StorageAssumption
<1>9. T \cup {j} \in SUBSET Jobs
  BY <1>1
<1>10. T \cup {j} \in RoomOf(n) <=>
           /\ Asked(T \cup {j}, Peak, NumJobs) <= Instances[type[n]].ram - Overhead
           /\ Asked(T \cup {j}, Vcpu, NumJobs) <= Instances[type[n]].vcpu
           /\ storage = "pool" => Within(Asked(T \cup {j}, Peak, NumJobs), MaxVolumes)
           /\ storage = "dedicated" => Cardinality(T \cup {j}) <= MaxVolumes
  BY <1>9, RoomIs DEF RoomOf
<1>11. FitsOn(h, n, j) <=> T \cup {j} \in RoomOf(n)
  BY <1>4, <1>5, <1>6, <1>7, <1>8, <1>10
<1>. QED  BY <1>11 DEF T

(* Fewer jobs are within the room of a node too.                           *)
LEMMA RoomsShrink ==
  ASSUME NEW t \in Types, NEW s \in StorageModels,
         NEW T \in SUBSET Jobs, T \in Rooms[<<s, t>>], NEW S \in SUBSET T
  PROVE  S \in Rooms[<<s, t>>]
<1> DEFINE a == Asked(S, Peak, NumJobs)
           b == Asked(T, Peak, NumJobs)
           c == Asked(S, Vcpu, NumJobs)
           d == Asked(T, Vcpu, NumJobs)
           ram == Instances[t].ram - Overhead
           vcpu == Instances[t].vcpu
<1>1. /\ NumJobs \in Nat
      /\ Peak \in [1..NumJobs -> Nat] /\ Vcpu \in [1..NumJobs -> Nat]
  BY NumJobsAssumption, BatchAssumption DEF Jobs
<1>2. a <= b /\ c <= d /\ a \in Nat /\ b \in Nat /\ c \in Nat /\ d \in Nat
  BY <1>1, SumMonotone, SumType
<1>3. ram \in Int /\ vcpu \in Int
  BY InstanceType, BatchAssumption
<1>4. Cardinality(S) <= Cardinality(T) /\ Cardinality(S) \in Nat /\ Cardinality(T) \in Nat
  <2>1. IsFiniteSet(Jobs)
    BY NumJobsAssumption, FS_Interval DEF Jobs
  <2>2. IsFiniteSet(T) /\ IsFiniteSet(S)
    BY <2>1, FS_Subset
  <2>. QED  BY <2>2, FS_Subset, FS_CardinalityType
<1>5. S \in SUBSET Jobs
  OBVIOUS
<1>6. /\ b <= ram /\ d <= vcpu
      /\ s = "pool" => Within(b, MaxVolumes)
      /\ s = "dedicated" => Cardinality(T) <= MaxVolumes
  BY RoomIs
<1>7. (/\ a <= ram /\ c <= vcpu
       /\ s = "pool" => Within(a, MaxVolumes)
       /\ s = "dedicated" => Cardinality(S) <= MaxVolumes) => S \in Rooms[<<s, t>>]
  BY <1>5, RoomIs
<1> HIDE DEF a, b, c, d, ram, vcpu
<1>8. Within(b, MaxVolumes) => Within(a, MaxVolumes)
  <2> DEFINE m == TriggerPct * MaxVolumes * VolumeGb
  <2>1. m \in Int
    BY StorageAssumption
  <2> HIDE DEF m
  <2>2. 100 * b <= m => 100 * a <= m
    BY <1>2, <2>1
  <2>. QED  BY <2>2 DEF m, Within
<1>9. Cardinality(T) <= MaxVolumes => Cardinality(S) <= MaxVolumes
  BY <1>4, StorageAssumption
<1>. QED  BY <1>2, <1>3, <1>6, <1>7, <1>8, <1>9

(* What _try_schedule makes of the nodes, when the jobs stand at ph and    *)
(* run on h.                                                               *)
LEMMA ScheduledRooms ==
  ASSUME NEW ph \in [Jobs -> Phases], NEW h \in [Jobs -> Nodes \cup {0}],
         NEW st \in [Nodes -> States], ClusterTypeOK,
         \A j \in Jobs : h[j] # 0 <=> ph[j] \in Active,
         \A n \in Nodes : type[n] # 0 <=> st[n] # "none",
         \A n \in Nodes : On(h, n) # {} => On(h, n) \in RoomOf(n),
         TrySchedule(ph, h, st)
  PROVE  /\ \A n \in Nodes : On(host', n) # {} => On(host', n) \in RoomOf(n)
         /\ \A j \in Jobs, n \in Nodes : phase'[j] = "queued" /\ st[n] = "READY" =>
              {k \in On(host', n) : ph[k] = "queued" => k < j} \cup {j} \notin RoomOf(n)
<1> DEFINE Q == Queued(ph)
           Pick(g, j) == BestFit(Ready(st), g, j)
<1>1. PICK placed \in [Q -> Ready(st) \cup {0}] :
        /\ GreedyPass(Q, h, placed, Pick)
        /\ host' = [j \in Jobs |-> IF j \in Q THEN placed[j] ELSE h[j]]
        /\ phase' = [j \in Jobs |-> IF j \in Q /\ placed[j] # 0 THEN "download" ELSE ph[j]]
  BY DEF TrySchedule
<1> DEFINE Before(j) == Until(j, Q, h, placed)
<1>2. Ready(st) \subseteq Nodes /\ 0 \notin Nodes /\ Q \in SUBSET Jobs
  BY DEF Ready, Nodes, Queued
<1>3. \A j \in Jobs : j \in Q <=> ph[j] = "queued"
  BY DEF Queued
<1>4. \A j \in Q : placed[j] = BestFit(Ready(st), Before(j), j)
  BY <1>1 DEF GreedyPass
<1>5. \A j \in Q : h[j] = 0
  BY <1>2, <1>3 DEF Active
<1>6. \A j \in Q, k \in Jobs : Before(j)[k] = IF k \in Q THEN IF k < j THEN placed[k] ELSE 0 ELSE h[k]
  BY DEF Until
<1>7. /\ storage \in StorageModels
      /\ \A n \in Ready(st) : n \in Nodes /\ type[n] \in Types
  BY DEF ClusterTypeOK, Ready
<1> HIDE DEF Before, Q
<1>8. ASSUME NEW n \in Nodes, NEW j \in Q
      PROVE  Before(j)[j] = 0 /\ j \in Jobs /\ Before(j)[j] # n
  <2>1. j \in Jobs /\ j \in Int
    BY <1>2 DEF Jobs
  <2>. QED  BY <1>2, <1>6, <2>1
<1>9. \A n \in Nodes : On(host', n) # {} => On(host', n) \in RoomOf(n)
  <2> SUFFICES ASSUME NEW n \in Nodes
               PROVE  On(host', n) # {} => On(host', n) \in RoomOf(n)
    OBVIOUS
  <2>1. \A j \in Q : placed[j] = n => On(Before(j), n) \cup {j} \in RoomOf(n)
    <3> SUFFICES ASSUME NEW j \in Q, placed[j] = n
                 PROVE  On(Before(j), n) \cup {j} \in RoomOf(n)
      OBVIOUS
    <3>1. n \in Ready(st) /\ FitsOn(Before(j), n, j)
      BY <1>2, <1>4, BestFitFits
    <3>. QED  BY <1>7, <1>8, <3>1, FitsIsRoom
  <2> DEFINE N == NumJobs
             after == host'
             room == RoomOf(n)
  <2>2. FillsWithin(N, Q, h, placed, after, n, room)
    BY <1>1, <1>2, <1>5, <2>1, NumJobsAssumption DEF Jobs, On, Before, FillsWithin
  <2> HIDE DEF N, after, room
  <2>3. {k \in 1..N : after[k] = n} # {} => {k \in 1..N : after[k] = n} \in room
    BY <2>2, PassWithin
  <2>. QED  BY <2>3 DEF N, after, room, On, Jobs
<1>10. ASSUME NEW j \in Jobs, NEW n \in Nodes, phase'[j] = "queued", st[n] = "READY"
       PROVE  {k \in On(host', n) : ph[k] = "queued" => k < j} \cup {j} \notin RoomOf(n)
  <2>1. j \in Q /\ placed[j] = 0 /\ n \in Ready(st)
    BY <1>1, <1>3, <1>10 DEF Ready
  <2>2. ~FitsOn(Before(j), n, j)
    BY <1>2, <1>4, <2>1, BestFitFits
  <2>3. On(Before(j), n) \cup {j} \notin RoomOf(n)
    BY <1>7, <1>8, <2>1, <2>2, FitsIsRoom
  <2>4. On(Before(j), n) = {k \in On(host', n) : ph[k] = "queued" => k < j}
    <3>1. \A k \in Jobs : host'[k] = IF k \in Q THEN placed[k] ELSE h[k]
      BY <1>1
    <3>2. \A k \in Jobs : Before(j)[k] = n <=> host'[k] = n /\ (ph[k] = "queued" => k < j)
      BY <1>2, <1>3, <1>6, <2>1, <3>1
    <3>. QED  BY <3>2 DEF On
  <2>. QED  BY <2>3, <2>4
<1>. QED  BY <1>9, <1>10

(* The jobs that arrive or end in a step, and the nodes that get ready.    *)
Comes(k) == \/ phase[k] = "absent" /\ phase'[k] # "absent"
            \/ phase[k] \in Active /\ phase'[k] \notin Active

GetsReady(n) == state[n] = "LAUNCHING" /\ state'[n] = "READY"

(* One thing happens at a time, jobs arrive in their order, and nodes get  *)
(* ready in theirs.                                                        *)
InTurn ==
  /\ storage' = storage
  /\ \A n \in Nodes : state[n] # "none" => type'[n] = type[n]
  /\ \A i, k \in Jobs : Comes(i) /\ Comes(k) => i = k
  /\ \A n, m \in Nodes : GetsReady(n) /\ GetsReady(m) => n = m
  /\ \A k \in Jobs, n \in Nodes : ~(Comes(k) /\ GetsReady(n))
  /\ \A j \in Jobs : phase[j] = "absent" /\ phase'[j] # "absent" =>
       \A k \in 1..(j-1) : phase[k] # "absent"
  /\ \A n \in Nodes : GetsReady(n) => \A m \in 1..(n-1) : state[m] # "LAUNCHING"

LEMMA ClusterInTurn ==
  ASSUME IInv, ClusterNext
  PROVE  InTurn
<1>1. ASSUME NEW j \in Jobs, Arrive(j) PROVE InTurn
  <2> DEFINE ph == [phase EXCEPT ![j] = "queued"]
  <2>1. /\ phase[j] = "absent" /\ TrySchedule(ph, host, state) /\ UNCHANGED <<storage, type>>
        /\ \A k \in 1..(j-1) : phase[k] # "absent"
    BY <1>1 DEF Arrive
  <2>2. /\ ph \in [Jobs -> Phases] /\ host \in [Jobs -> Nodes \cup {0}] /\ state \in [Nodes -> States]
        /\ \A k \in Jobs : k # j => ph[k] = phase[k]
    BY DEF IInv, ClusterTypeOK, Phases
  <2> HIDE DEF ph
  <2>3. /\ \A n \in Nodes : state'[n] = state[n]
        /\ \A k \in Jobs : ph[k] # "queued" => phase'[k] = ph[k]
    BY <2>1, <2>2, ScheduledMoves
  <2>4. \A k \in Jobs : Comes(k) => k = j
    BY <2>2, <2>3 DEF Comes, Active
  <2>5. \A n \in Nodes : ~GetsReady(n)
    BY <2>3 DEF GetsReady
  <2>6. \A k \in Jobs : phase[k] = "absent" /\ phase'[k] # "absent" => k = j
    BY <2>4 DEF Comes
  <2>. QED  BY <2>1, <2>4, <2>5, <2>6 DEF InTurn
<1>2. ASSUME NEW j \in Jobs, Complete(j) PROVE InTurn
  <2> DEFINE n == host[j]
             h == [host EXCEPT ![j] = 0]
             ph == [phase EXCEPT ![j] = "done"]
             st == IF On(h, n) = {} THEN [state EXCEPT ![n] = "IDLE"] ELSE state
  <2>1. phase[j] = "upload" /\ TrySchedule(ph, h, st) /\ UNCHANGED <<storage, type>>
    BY <1>2 DEF Complete
  <2>2. n \in Nodes /\ state[n] = "READY"
    BY <2>1 DEF IInv, ClusterTypeOK, JobsOnReady, Active
  <2>3. /\ ph \in [Jobs -> Phases] /\ h \in [Jobs -> Nodes \cup {0}] /\ st \in [Nodes -> States]
        /\ \A k \in Jobs : k # j => ph[k] = phase[k]
        /\ \A m \in Nodes : state[m] = "LAUNCHING" => st[m] = "LAUNCHING"
    BY <2>2 DEF IInv, ClusterTypeOK, Phases, States
  <2> HIDE DEF h, ph, st
  <2>4. /\ \A m \in Nodes : state'[m] = st[m]
        /\ \A k \in Jobs : ph[k] # "queued" => phase'[k] = ph[k]
    BY <2>1, <2>3, ScheduledMoves
  <2>5. \A k \in Jobs : Comes(k) => k = j
    BY <2>3, <2>4 DEF Comes, Active
  <2>6. \A m \in Nodes : ~GetsReady(m)
    BY <2>3, <2>4 DEF GetsReady
  <2>7. \A k \in Jobs : phase[k] # "absent" \/ phase'[k] = "absent"
    BY <2>1, <2>5 DEF Comes
  <2>. QED  BY <2>1, <2>5, <2>6, <2>7 DEF InTurn
<1>3. ASSUME NEW n \in Nodes, NodeReady(n) PROVE InTurn
  <2> DEFINE st == [state EXCEPT ![n] = "READY"]
  <2>1. /\ TrySchedule(phase, host, st) /\ UNCHANGED <<storage, type>>
        /\ \A m \in 1..(n-1) : state[m] # "LAUNCHING"
    BY <1>3 DEF NodeReady
  <2>2. /\ st \in [Nodes -> States] /\ phase \in [Jobs -> Phases] /\ host \in [Jobs -> Nodes \cup {0}]
        /\ \A m \in Nodes : m # n => st[m] = state[m]
    BY DEF IInv, ClusterTypeOK, States
  <2> HIDE DEF st
  <2>3. /\ \A m \in Nodes : state'[m] = st[m]
        /\ \A k \in Jobs : phase[k] # "queued" => phase'[k] = phase[k]
    BY <2>1, <2>2, ScheduledMoves
  <2>4. \A k \in Jobs : ~Comes(k)
    BY <2>3 DEF Comes, Active
  <2>5. \A m \in Nodes : GetsReady(m) => m = n
    BY <2>2, <2>3 DEF GetsReady
  <2>6. \A k \in Jobs : phase[k] # "absent" \/ phase'[k] = "absent"
    BY <2>4 DEF Comes
  <2>. QED  BY <2>1, <2>4, <2>5, <2>6 DEF InTurn
<1>4. ASSUME \A n \in Nodes : ~GetsReady(n), \A k \in Jobs : ~Comes(k), storage' = storage,
             \A n \in Nodes : state[n] # "none" => type'[n] = type[n]
      PROVE  InTurn
  BY <1>4 DEF InTurn, Comes
<1>5. ASSUME NEW j \in Jobs, NextPhase(j) PROVE InTurn
  <2>1. \A n \in Nodes : ~GetsReady(n)
    BY <1>5 DEF NextPhase, GetsReady
  <2>2. \A k \in Jobs : ~Comes(k)
    BY <1>5 DEF NextPhase, Comes, IInv, ClusterTypeOK, Active
  <2>3. storage' = storage /\ type' = type
    BY <1>5 DEF NextPhase
  <2>. QED  BY <1>4, <2>1, <2>2, <2>3
<1>6. ASSUME NEW n \in Nodes, IdleFires(n) PROVE InTurn
  <2>1. \A m \in Nodes : ~GetsReady(m)
    BY <1>6 DEF IdleFires, GetsReady, IInv, ClusterTypeOK
  <2>2. \A k \in Jobs : ~Comes(k)
    BY <1>6 DEF IdleFires, Comes
  <2>3. storage' = storage /\ type' = type
    BY <1>6 DEF IdleFires
  <2>. QED  BY <1>4, <2>1, <2>2, <2>3
<1>7. ASSUME Provision PROVE InTurn
  <2>1. /\ UNCHANGED <<storage, phase, host>>
        /\ \A n \in Nodes :
             \/ state'[n] = state[n] /\ type'[n] = type[n]
             \/ state[n] = "none" /\ state'[n] = "LAUNCHING" /\ type'[n] \in Types
    BY <1>7, ProvisionLaunches
  <2>2. \A m \in Nodes : ~GetsReady(m)
    BY <2>1 DEF GetsReady
  <2>3. \A k \in Jobs : ~Comes(k)
    BY <2>1 DEF Comes
  <2>. QED  BY <1>4, <2>1, <2>2, <2>3
<1>. QED  BY <1>1, <1>2, <1>3, <1>5, <1>6, <1>7 DEF ClusterNext

(* Where job k stands, as the contract sees it.                            *)
Status(ph, k) == IF ph[k] \in Active THEN "running" ELSE ph[k]

(* The moves of jobs and nodes, in turn, are those of the contract.        *)
LEMMA MovesKeepContract ==
  ASSUME IInv, IInv', InTurn, \A j \in Jobs : JobMoves(j), \A n \in Nodes : NodeMoves(n)
  PROVE  /\ Contract!OneEvent
         /\ \A j \in Jobs : Contract!JobStep(j)
         /\ \A n \in Nodes : Contract!NodeStep(n)
<1>1. \A k \in Jobs : /\ Contract!Moves(k) <=> Status(phase', k) # Status(phase, k)
                      /\ Contract!Starts(k) <=> Status(phase, k) # "running" /\ Status(phase', k) = "running"
  BY DEF Contract!Moves, Contract!Starts, Status
<1>2. \A k \in Jobs : /\ phase[k] = "absent" <=> Status(phase, k) = "absent"
                      /\ phase[k] \in Active <=> Status(phase, k) = "running"
                      /\ host[k] # 0 <=> phase[k] \in Active
                      /\ phase'[k] \in Active <=> Status(phase', k) = "running"
                      /\ host'[k] # 0 <=> phase'[k] \in Active
                      /\ phase[k] \in Phases /\ phase'[k] \in Phases
  BY DEF Status, Active, Phases, IInv, ClusterTypeOK
<1>3. ASSUME NEW k \in Jobs PROVE Contract!JobStep(k)
  <2>1. Status(phase', k) # Status(phase, k) =>
          <<Status(phase, k), Status(phase', k)>> \in Contract!JobMoves
    BY DEF JobMoves, Status, Active, Contract!JobMoves
  <2>2. Status(phase', k) # Status(phase, k) /\ Status(phase, k) = "absent" =>
          \A i \in 1..(k-1) : Status(phase, i) # "absent"
    <3>1. \A i \in 1..(k-1) : i \in Jobs
      BY NumJobsAssumption DEF Jobs
    <3>2. Status(phase', k) # Status(phase, k) /\ Status(phase, k) = "absent" =>
            \A i \in 1..(k-1) : phase[i] # "absent"
      BY <1>2 DEF InTurn, Status
    <3>. QED  BY <1>2, <3>1, <3>2
  <2>3. Status(phase, k) = "running" /\ Status(phase', k) = "running" => host'[k] = host[k]
    BY <1>2 DEF JobMoves, Active
  <2>4. Status(phase, k) # "running" /\ Status(phase', k) = "running" =>
          host'[k] \in Nodes /\ state'[host'[k]] = "READY"
    BY <1>2 DEF IInv, ClusterTypeOK, JobsOnReady
  <2>5. \A i \in 1..(k-1) : i \in Jobs
    BY NumJobsAssumption DEF Jobs
  <2>. QED  BY <1>1, <1>2, <2>1, <2>2, <2>3, <2>4, <2>5
            DEF Contract!JobStep, Contract!Nodes, Nodes, Status
<1>4. ASSUME NEW n \in Nodes PROVE Contract!NodeStep(n)
  <2>1. state'[n] # state[n] => <<state[n], state'[n]>> \in Contract!NodeMoves
    BY DEF NodeMoves, Contract!NodeMoves
  <2>2. state[n] = "none" /\ state'[n] # "none" => \A m \in 1..(n-1) : state'[m] # "none"
    <3>1. \A m \in 1..(n-1) : m \in Nodes /\ m < n
      BY BatchAssumption DEF Nodes
    <3>. QED  BY <3>1 DEF IInv, LaunchOrder
  <2>3. state[n] = "LAUNCHING" /\ state'[n] = "READY" => \A m \in 1..(n-1) : state[m] # "LAUNCHING"
    BY DEF InTurn, GetsReady
  <2>4. state'[n] = "IDLE" /\ state[n] # "IDLE" =>
          \E j \in Jobs : host[j] = n /\ Status(phase', j) = "done"
    <3> SUFFICES ASSUME state'[n] = "IDLE", state[n] # "IDLE"
                 PROVE  \E j \in Jobs : host[j] = n /\ Status(phase', j) = "done"
      OBVIOUS
    <3>1. On(host, n) # {} /\ On(host', n) = {}
      BY DEF NodeMoves
    <3>2. PICK j \in Jobs : host[j] = n /\ host'[j] # n
      BY <3>1 DEF On
    <3>3. phase[j] \in Active
      BY <1>2, <3>2 DEF Nodes
    <3>4. phase'[j] = "done"
      BY <3>2, <3>3 DEF JobMoves, Active
    <3>. QED  BY <3>2, <3>4 DEF Status, Active
  <2>5. state'[n] \in {"IDLE", "TERMINATED"} => Contract!OnAfter(n) = {}
    <3>1. \A j \in Jobs : host'[j] = n => state'[n] = "READY"
      BY DEF IInv, JobsOnReady, Nodes
    <3>. QED  BY <3>1 DEF Contract!OnAfter, Contract!Jobs, Jobs
  <2>6. state[n] # "none" => <<storage, type[n]>>' = <<storage, type[n]>>
    BY DEF InTurn
  <2>. QED  BY <2>1, <2>2, <2>3, <2>4, <2>5, <2>6 DEF Contract!NodeStep, Contract!Jobs, Jobs, Status
<1>5. Contract!OneEvent
  <2>1. \A k \in Jobs : Contract!Moves(k) /\ Status(phase, k) \in {"absent", "running"} => Comes(k)
    BY <1>1, <1>2 DEF Status, Comes
  <2>2. /\ \A i, k \in Jobs : Comes(i) /\ Comes(k) => i = k
        /\ \A n, m \in Nodes : GetsReady(n) /\ GetsReady(m) => n = m
        /\ \A k \in Jobs, n \in Nodes : ~(Comes(k) /\ GetsReady(n))
    BY DEF InTurn
  <2>3. \A k \in Jobs : Contract!Moves(k) /\ (IF phase[k] \in Active THEN "running" ELSE phase[k]) \in {"absent", "running"}
                          => Comes(k)
    BY <2>1 DEF Status
  <2>. QED  BY <2>2, <2>3 DEF Contract!OneEvent, Contract!Jobs, Contract!Nodes, Jobs, Nodes, GetsReady
<1>. QED  BY <1>3, <1>4, <1>5

(* What the contract says of the jobs of a node, and of a job that waits   *)
(* beside one, as it is proved below.                                      *)
RoomsKept ==
  /\ Hosted' /\ NothingWaits'
  /\ \A n \in Nodes : Contract!WithinRoom(n)
  /\ \A j \in Jobs, n \in Nodes : Contract!FirstComeFirstServed(j, n)

LEMMA RoomsKeptIf ==
  ASSUME IInv, IInv', storage' = storage,
         \A n \in Nodes : On(host', n) # {} => On(host', n) \in RoomOf(n)',
         \A j \in Jobs, n \in Nodes : phase'[j] = "queued" /\ state'[n] = "READY" =>
           {k \in On(host', n) : phase[k] \notin Active => k < j} \cup {j} \notin RoomOf(n)'
  PROVE  RoomsKept
<1>1. Hosted'
  BY DEF Hosted, On
<1>2. ASSUME NEW n \in Nodes, state'[n] # "none"
      PROVE  type'[n] \in Types /\ storage' \in StorageModels
  BY <1>2 DEF IInv, ClusterTypeOK
<1>3. NothingWaits'
  <2> SUFFICES ASSUME NEW j \in Jobs, NEW n \in Nodes, phase'[j] = "queued", state'[n] = "READY",
                      (On(host, n) \cup {j} \in RoomOf(n))'
               PROVE  FALSE
    BY DEF NothingWaits
  <2> DEFINE few == {k \in On(host', n) : phase[k] \notin Active => k < j} \cup {j}
             all == On(host', n) \cup {j}
  <2>1. few \subseteq all /\ all \in SUBSET Jobs
    BY DEF On
  <2>2. all \in Rooms[<<storage', type'[n]>>] /\ few \notin Rooms[<<storage', type'[n]>>]
    BY DEF RoomOf, On
  <2>3. type'[n] \in Types /\ storage' \in StorageModels
    BY <1>2
  <2> HIDE DEF few, all
  <2>. QED  BY <2>1, <2>2, <2>3, RoomsShrink
<1>4. ASSUME NEW n \in Nodes PROVE Contract!WithinRoom(n)
  <2>1. Contract!OnAfter(n) = On(host', n)
    BY DEF Contract!OnAfter, Contract!Jobs, Jobs, On
  <2>2. On(host', n) # {} => type'[n] \in Types /\ storage' \in StorageModels
    <3>1. On(host', n) # {} => state'[n] = "READY"
      BY DEF IInv, JobsOnReady, On, Nodes
    <3>. QED  BY <1>2, <3>1
  <2>3. On(host', n) \subseteq Jobs
    BY DEF On
  <2>4. On(host', n) # {} => On(host', n) \in Rooms[<<storage', type'[n]>>]
    BY DEF RoomOf
  <2>. QED  BY <2>1, <2>2, <2>3, <2>4 DEF Contract!WithinRoom
<1>5. ASSUME NEW j \in Jobs, NEW n \in Nodes PROVE Contract!FirstComeFirstServed(j, n)
  <2> SUFFICES ASSUME Status(phase', j) = "queued", state'[n] = "READY"
               PROVE  Contract!Ahead(j, n) \cup {j} \notin Rooms[<<storage', type'[n]>>]
    BY DEF Contract!FirstComeFirstServed, Status
  <2>1. phase'[j] = "queued"
    BY DEF Status
  <2>2. \A k \in Jobs : host'[k] = n => (Contract!Starts(k) <=> phase[k] \notin Active)
    <3>1. \A k \in Jobs : host'[k] = n => phase'[k] \in Active
      BY DEF IInv, ClusterTypeOK, Nodes
    <3>2. \A k \in Jobs : Status(phase, k) = "running" <=> phase[k] \in Active
      BY DEF IInv, ClusterTypeOK, Status, Phases, Active
    <3>3. \A k \in Jobs : Contract!Starts(k) <=> Status(phase, k) # "running" /\ Status(phase', k) = "running"
      BY DEF Contract!Starts, Status
    <3>. QED  BY <3>1, <3>2, <3>3 DEF Status
  <2>3. Contract!Ahead(j, n) = {k \in On(host', n) : phase[k] \notin Active => k < j}
    BY <2>2 DEF Contract!Ahead, Contract!OnAfter, Contract!Jobs, Jobs, On
  <2>. QED  BY <2>1, <2>3 DEF RoomOf
<1>. QED  BY <1>1, <1>3, <1>4, <1>5 DEF RoomsKept

(* A pass of _try_schedule, when the jobs stand at ph and run on h: at     *)
(* most one has come to the queue, and at most one has left its node.      *)
LEMMA PassKeepsRooms ==
  ASSUME IInv, IInv', Hosted,
         NEW ph \in [Jobs -> Phases], NEW h \in [Jobs -> Nodes \cup {0}],
         NEW st \in [Nodes -> States], TrySchedule(ph, h, st), UNCHANGED <<storage, type>>,
         \A k \in Jobs : h[k] # 0 <=> ph[k] \in Active,
         \A n \in Nodes : type[n] # 0 <=> st[n] # "none",
         \A k \in Jobs : ph[k] = "queued" => phase[k] \notin Active,
         \A k \in Jobs : ph[k] \in Active => phase[k] \in Active /\ h[k] = host[k]
  PROVE  RoomsKept
<1>1. ClusterTypeOK
  BY DEF IInv
<1>2. \A n \in Nodes : On(h, n) # {} => On(h, n) \in RoomOf(n)
  <2> SUFFICES ASSUME NEW n \in Nodes, On(h, n) # {} PROVE On(h, n) \in RoomOf(n)
    OBVIOUS
  <2>1. On(h, n) \subseteq On(host, n)
    BY DEF On, Nodes
  <2>2. state[n] = "READY" /\ On(host, n) # {}
    BY <2>1 DEF IInv, JobsOnReady, On, Nodes
  <2>3. type[n] \in Types /\ storage \in StorageModels
    BY <1>1, <2>2 DEF ClusterTypeOK
  <2>4. On(host, n) \in RoomOf(n) /\ On(host, n) \in SUBSET Jobs
    BY <2>2 DEF Hosted, On
  <2>. QED  BY <2>1, <2>3, <2>4, RoomsShrink DEF RoomOf
<1>3. /\ \A n \in Nodes : On(host', n) # {} => On(host', n) \in RoomOf(n)
      /\ \A j \in Jobs, n \in Nodes : phase'[j] = "queued" /\ st[n] = "READY" =>
           {k \in On(host', n) : ph[k] = "queued" => k < j} \cup {j} \notin RoomOf(n)
  BY <1>1, <1>2, ScheduledRooms
<1>4. /\ \A n \in Nodes : state'[n] = st[n]
      /\ \A k \in Jobs : ph[k] # "queued" => phase'[k] = ph[k] /\ host'[k] = h[k]
  BY ScheduledMoves
<1>5. \A n \in Nodes : RoomOf(n)' = RoomOf(n)
  BY DEF RoomOf
<1>7. \A n \in Nodes : \A k \in On(host', n) : ph[k] = "queued" <=> phase[k] \notin Active
  <2>1. \A k \in Jobs : host'[k] # 0 <=> phase'[k] \in Active
    BY DEF IInv, ClusterTypeOK
  <2>. QED  BY <1>4, <2>1 DEF On, Nodes
<1>8. \A n \in Nodes, j \in Jobs :
        {k \in On(host', n) : ph[k] = "queued" => k < j} =
        {k \in On(host', n) : phase[k] \notin Active => k < j}
  BY <1>7
<1>9. \A n \in Nodes : On(host', n) # {} => On(host', n) \in RoomOf(n)'
  BY <1>3, <1>5
<1>10. \A j \in Jobs, n \in Nodes : phase'[j] = "queued" /\ state'[n] = "READY" =>
         {k \in On(host', n) : phase[k] \notin Active => k < j} \cup {j} \notin RoomOf(n)'
  BY <1>3, <1>4, <1>5, <1>8
<1>. QED  BY <1>9, <1>10, RoomsKeptIf

(* A step in which no job comes, goes or starts, and no node gets ready.   *)
LEMMA QuietKeepsRooms ==
  ASSUME IInv, IInv', Hosted, NothingWaits, UNCHANGED <<storage, host>>,
         \A n \in Nodes : state'[n] = "READY" => state[n] = "READY",
         \A n \in Nodes : state[n] # "none" => type'[n] = type[n],
         \A k \in Jobs : phase'[k] = "queued" => phase[k] = "queued"
  PROVE  RoomsKept
<1>1. \A n \in Nodes : state[n] # "none" => RoomOf(n)' = RoomOf(n)
  BY DEF RoomOf
<1>2. \A n \in Nodes : On(host', n) # {} => On(host', n) \in RoomOf(n)'
  <2>1. \A n \in Nodes : On(host', n) # {} => state[n] = "READY"
    BY DEF IInv, JobsOnReady, On, Nodes
  <2>. QED  BY <1>1, <2>1 DEF Hosted
<1>3. \A j \in Jobs, n \in Nodes : phase'[j] = "queued" /\ state'[n] = "READY" =>
        {k \in On(host', n) : phase[k] \notin Active => k < j} \cup {j} \notin RoomOf(n)'
  <2> SUFFICES ASSUME NEW j \in Jobs, NEW n \in Nodes, phase'[j] = "queued", state'[n] = "READY"
               PROVE  {k \in On(host', n) : phase[k] \notin Active => k < j} \cup {j} \notin RoomOf(n)'
    OBVIOUS
  <2>1. On(host, n) \cup {j} \notin RoomOf(n) /\ RoomOf(n)' = RoomOf(n)
    BY <1>1 DEF NothingWaits
  <2>2. {k \in On(host', n) : phase[k] \notin Active => k < j} = On(host, n)
    <3>1. \A k \in Jobs : host[k] = n => phase[k] \in Active
      BY DEF IInv, ClusterTypeOK, Nodes
    <3>. QED  BY <3>1 DEF On
  <2>. QED  BY <2>1, <2>2
<1>. QED  BY <1>2, <1>3, RoomsKeptIf

LEMMA StepKeepsRooms ==
  ASSUME IInv, IInv', Hosted, NothingWaits, ClusterNext
  PROVE  RoomsKept
<1>1. ClusterTypeOK
  BY DEF IInv
<1>2. ASSUME NEW j \in Jobs, Arrive(j) PROVE RoomsKept
  <2> DEFINE ph == [phase EXCEPT ![j] = "queued"]
  <2>1. /\ phase[j] = "absent" /\ TrySchedule(ph, host, state) /\ UNCHANGED <<storage, type>>
    BY <1>2 DEF Arrive
  <2>2. /\ ph \in [Jobs -> Phases] /\ host \in [Jobs -> Nodes \cup {0}] /\ state \in [Nodes -> States]
        /\ \A k \in Jobs : k # j => ph[k] = phase[k]
        /\ ph[j] = "queued"
    BY <1>1 DEF ClusterTypeOK, Phases
  <2> HIDE DEF ph
  <2>3. \A k \in Jobs : /\ ph[k] \in Active <=> phase[k] \in Active
                        /\ ph[k] = "queued" => phase[k] \notin Active
    BY <2>1, <2>2 DEF Active
  <2>. QED  BY <1>1, <2>1, <2>2, <2>3, PassKeepsRooms DEF ClusterTypeOK
<1>3. ASSUME NEW j \in Jobs, Complete(j) PROVE RoomsKept
  <2> DEFINE n == host[j]
             h == [host EXCEPT ![j] = 0]
             ph == [phase EXCEPT ![j] = "done"]
             st == IF On(h, n) = {} THEN [state EXCEPT ![n] = "IDLE"] ELSE state
  <2>1. phase[j] = "upload" /\ TrySchedule(ph, h, st) /\ UNCHANGED <<storage, type>>
    BY <1>3 DEF Complete
  <2>2. n \in Nodes /\ state[n] = "READY"
    BY <2>1 DEF IInv, ClusterTypeOK, JobsOnReady, Active
  <2>3. /\ ph \in [Jobs -> Phases] /\ h \in [Jobs -> Nodes \cup {0}] /\ st \in [Nodes -> States]
        /\ \A k \in Jobs : k # j => ph[k] = phase[k] /\ h[k] = host[k]
        /\ ph[j] = "done" /\ h[j] = 0
        /\ \A m \in Nodes : st[m] # "none" <=> state[m] # "none"
    BY <1>1, <2>2 DEF ClusterTypeOK, Phases, States
  <2> HIDE DEF h, ph, st
  <2>4. \A k \in Jobs : h[k] # 0 <=> ph[k] \in Active
    BY <1>1, <2>3 DEF ClusterTypeOK, Active
  <2>5. \A k \in Jobs : ph[k] = "queued" => phase[k] \notin Active
    BY <2>3 DEF Active
  <2>6. \A k \in Jobs : ph[k] \in Active => phase[k] \in Active /\ h[k] = host[k]
    BY <2>3 DEF Active
  <2>7. \A m \in Nodes : type[m] # 0 <=> st[m] # "none"
    BY <1>1, <2>3 DEF ClusterTypeOK
  <2>. QED  BY <2>1, <2>3, <2>4, <2>5, <2>6, <2>7, PassKeepsRooms
<1>4. ASSUME NEW n \in Nodes, NodeReady(n) PROVE RoomsKept
  <2> DEFINE st == [state EXCEPT ![n] = "READY"]
  <2>1. TrySchedule(phase, host, st) /\ UNCHANGED <<storage, type>> /\ state[n] = "LAUNCHING"
    BY <1>4 DEF NodeReady
  <2>2. /\ st \in [Nodes -> States] /\ phase \in [Jobs -> Phases] /\ host \in [Jobs -> Nodes \cup {0}]
        /\ \A m \in Nodes : st[m] # "none" <=> state[m] # "none"
    BY <1>1, <2>1 DEF ClusterTypeOK, States
  <2> HIDE DEF st
  <2>3. \A m \in Nodes : type[m] # 0 <=> st[m] # "none"
    BY <1>1, <2>2 DEF ClusterTypeOK
  <2>4. \A k \in Jobs : /\ host[k] # 0 <=> phase[k] \in Active
                        /\ phase[k] = "queued" => phase[k] \notin Active
    BY <1>1 DEF ClusterTypeOK, Active
  <2>. QED  BY <2>1, <2>2, <2>3, <2>4, PassKeepsRooms
<1>5. ASSUME NEW j \in Jobs, NextPhase(j) PROVE RoomsKept
  <2>1. UNCHANGED <<storage, host, state, type>>
    BY <1>5 DEF NextPhase
  <2>2. \A k \in Jobs : phase'[k] = "queued" => phase[k] = "queued"
    BY <1>1, <1>5 DEF NextPhase, ClusterTypeOK, Active
  <2>. QED  BY <2>1, <2>2, QuietKeepsRooms
<1>6. ASSUME NEW n \in Nodes, IdleFires(n) PROVE RoomsKept
  <2>1. UNCHANGED <<storage, host, phase, type>>
    BY <1>6 DEF IdleFires
  <2>2. \A m \in Nodes : state'[m] = "READY" => state[m] = "READY"
    BY <1>1, <1>6 DEF IdleFires, ClusterTypeOK
  <2>. QED  BY <2>1, <2>2, QuietKeepsRooms
<1>7. ASSUME Provision PROVE RoomsKept
  <2>1. /\ UNCHANGED <<storage, phase, host>>
        /\ \A m \in Nodes :
             \/ state'[m] = state[m] /\ type'[m] = type[m]
             \/ state[m] = "none" /\ state'[m] = "LAUNCHING" /\ type'[m] \in Types
    BY <1>7, ProvisionLaunches
  <2>. QED  BY <2>1, QuietKeepsRooms
<1>. QED  BY <1>2, <1>3, <1>4, <1>5, <1>6, <1>7 DEF ClusterNext

(* Every step of the cluster is one of the contract.                       *)
LEMMA StepKeepsContract ==
  ASSUME IInv, Hosted, NothingWaits, ClusterNext
  PROVE  IInv' /\ Hosted' /\ NothingWaits' /\ Contract!Next
<1>1. IInv'
  BY ClusterStep
<1>2. RoomsKept
  BY <1>1, StepKeepsRooms
<1>3. InTurn
  BY ClusterInTurn
<1>4. /\ Contract!OneEvent
      /\ \A j \in Jobs : Contract!JobStep(j)
      /\ \A n \in Nodes : Contract!NodeStep(n)
  BY <1>1, <1>3, ClusterMoves, MovesKeepContract
<1>. QED  BY <1>1, <1>2, <1>4 DEF RoomsKept, Contract!Next, Contract!Jobs, Contract!Nodes, Jobs, Nodes

LEMMA StartKeepsContract ==
  ASSUME ClusterInit
  PROVE  IInv /\ Hosted /\ NothingWaits /\ Contract!Init
<1>1. IInv
  BY ClusterStart
<1>2. Hosted /\ NothingWaits
  BY DEF ClusterInit, Hosted, NothingWaits, On, Nodes
<1>3. Contract!Init
  BY DEF ClusterInit, Contract!Init, Contract!Jobs, Contract!Nodes, Jobs, Nodes, Active
<1>. QED  BY <1>1, <1>2, <1>3

LEMMA StaysKeepsContract ==
  ASSUME IInv, Hosted, NothingWaits, UNCHANGED clusterVars
  PROVE  IInv' /\ Hosted' /\ NothingWaits' /\ UNCHANGED Contract!vars
<1>1. IInv'
  BY ClusterStays
<1>2. (Hosted /\ NothingWaits)'
  BY DEF clusterVars, Hosted, NothingWaits, RoomOf, On
<1>3. UNCHANGED Contract!vars
  BY DEF clusterVars, Contract!vars
<1>. QED  BY <1>1, <1>2, <1>3

(* The Batch scheduler keeps the contract of ClusterContract: whatever     *)
(* steps _try_schedule, _scale_out_monitor, the launches, the phases and   *)
(* the idle timers take, each job runs once, on one node, with memory,     *)
(* vCPUs and volumes for its peak, and none is passed over for one that    *)
(* has waited less.                                                        *)
THEOREM BatchKeepsContract == ClusterSpec => KeepsContract
<1> DEFINE CInv == IInv /\ Hosted /\ NothingWaits
<1>1. ClusterInit => CInv /\ Contract!Init
  BY StartKeepsContract
<1>2. CInv /\ [ClusterNext]_clusterVars => CInv' /\ [Contract!Next]_(Contract!vars)
  BY StepKeepsContract, StaysKeepsContract
<1> HIDE DEF CInv
<1>. QED  BY <1>1, <1>2, PTL DEF ClusterSpec, KeepsContract, Contract!Spec

(* So does the cluster of a run that is reported on, up to finalize, which *)
(* terminates every node whatever is on it: RunReport.                     *)
THEOREM RunKeepsContract == Spec => ContractUntilEnd
<1> DEFINE CInv == ~ended => IInv /\ Hosted /\ NothingWaits
           Kept == ~ended' => Contract!Next
<1>1. Init => CInv /\ Contract!Init
  BY StartKeepsContract DEF Init
<1>2. CInv /\ events \subseteq Jobs /\ [Next]_vars => CInv' /\ [Kept]_(Contract!vars)
  <2> SUFFICES ASSUME CInv, events \subseteq Jobs, [Next]_vars PROVE CInv' /\ [Kept]_(Contract!vars)
    OBVIOUS
  <2>1. ASSUME ~ended, ended' = ended, ClusterNext PROVE CInv' /\ [Kept]_(Contract!vars)
    BY <2>1, StepKeepsContract
  <2>2. ASSUME UNCHANGED clusterVars, ended' = ended PROVE CInv' /\ [Kept]_(Contract!vars)
    <3>1. CASE ended
      <4>1. UNCHANGED Contract!vars
        BY <2>2 DEF clusterVars, Contract!vars
      <4>. QED  BY <2>2, <3>1, <4>1
    <3>2. CASE ~ended
      BY <2>2, <3>2, StaysKeepsContract
    <3>. QED  BY <3>1, <3>2
  <2>3. CASE Tick
    BY <2>2, <2>3 DEF Tick
  <2>4. CASE Finalize
    BY <2>4 DEF Finalize
  <2>5. CASE Run(Provision)
    <3>1. ~ended /\ ended' = ended /\ ClusterNext
      BY <2>5 DEF Run, ClusterNext
    <3>. QED  BY <2>1, <3>1
  <2>6. ASSUME NEW j \in Jobs, Run(Arrive(j)) \/ Run(NextPhase(j)) \/ Run(Complete(j))
        PROVE  CInv' /\ [Kept]_(Contract!vars)
    <3>1. ~ended /\ ended' = ended /\ ClusterNext
      BY <2>6 DEF Run, ClusterNext
    <3>. QED  BY <2>1, <3>1
  <2>7. ASSUME NEW n \in Nodes, Run(NodeReady(n)) \/ Run(IdleFires(n))
        PROVE  CInv' /\ [Kept]_(Contract!vars)
    <3>1. ~ended /\ ended' = ended /\ ClusterNext
      BY <2>7 DEF Run, ClusterNext
    <3>. QED  BY <2>1, <3>1
  <2>8. CASE UNCHANGED vars
    BY <2>2, <2>8 DEF vars, logVars
  <2>. QED  BY <2>3, <2>4, <2>5, <2>6, <2>7, <2>8 DEF Next
<1>3. RunInv => events \subseteq Jobs
  BY DEF RunInv, TypeOK
<1> HIDE DEF CInv
<1>. QED  BY <1>1, <1>2, <1>3, RunInvariant, PTL DEF Spec, ContractUntilEnd, Kept
=============================================================================
