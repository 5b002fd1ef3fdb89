------------------------- MODULE PlusClusterProofs -------------------------
(***************************************************************************)
(* Proofs about PlusCluster, for any jobs, any instance types and any      *)
(* number of nodes: its types, that no node goes from under a job, that a  *)
(* draining node has a job left, that timers match the load, that no job   *)
(* waits beside room, that a provisioning pass settles, and that the       *)
(* cluster implements ClusterContract.                                     *)
(***************************************************************************)
EXTENDS PlusCluster, PackingProofs

PlusPhases == {"absent", "queued", "running", "done"}

(* Nodes are launched in their order, each with an instance type, before   *)
(* they age.                                                               *)
LaunchOrder ==
  /\ \A n, m \in Nodes : state[n] # "none" /\ m < n => state[m] # "none"
  /\ \A n \in Nodes : state[n] # "none" => type[n] # 0
  /\ \A n \in ageing : state[n] # "none"

(* The inductive invariant.                                                *)
IInv ==
  /\ TypeOK /\ LaunchOrder
  /\ JobsOnLiveNodes /\ DrainingHasJobs /\ TimersMatchLoad /\ NoIdleRoom

-----------------------------------------------------------------------------
(* Jobs per dollar are compared crosswise; that is transitive.             *)
LEMMA RatioTransitive ==
  ASSUME NEW a \in Nat, NEW b \in Nat, NEW c \in Nat,
         NEW p \in Nat \ {0}, NEW q \in Nat \ {0}, NEW r \in Nat \ {0},
         a * q >= b * p, b * r >= c * q
  PROVE  a * r >= c * p /\ (a * r = c * p => a * q = b * p /\ b * r = c * q)
<1> DEFINE A == a * q
           B == b * p
           C == b * r
           D == c * q
           E == a * r
           F == c * p
<1>1. A * r = E * q /\ B * r = C * p /\ D * p = F * q
  BY SMT
<1>2. A \in Int /\ B \in Int /\ C \in Int /\ D \in Int /\ E \in Int /\ F \in Int
  BY SMT
<1>3. A >= B /\ C >= D
  OBVIOUS
<1> HIDE DEF A, B, C, D, E, F
<1>4. A * r >= B * r /\ C * p >= D * p
  BY <1>2, <1>3, TimesMonotone
<1>5. A * r \in Int /\ B * r \in Int /\ C * p \in Int /\ D * p \in Int
  BY <1>2
<1>6. E * q >= F * q
  BY <1>1, <1>4, <1>5
<1>7. E >= F
  <2>1. E < F => E * q < F * q
    BY <1>2, TimesStrict
  <2>2. E * q \in Int /\ F * q \in Int
    BY <1>2
  <2>. QED  BY <1>2, <1>6, <2>1, <2>2
<1>8. A > B \/ C > D => E * q > F * q
  <2>1. A > B => A * r > B * r
    BY <1>2, TimesStrict
  <2>2. C > D => C * p > D * p
    BY <1>2, TimesStrict
  <2>. QED  BY <1>1, <1>4, <1>5, <2>1, <2>2
<1>9. E = F => A = B /\ C = D
  <2>1. SUFFICES ASSUME E = F PROVE ~(A > B) /\ ~(C > D)
    BY <1>2, <1>3
  <2>2. E * q = F * q /\ E * q \in Int
    BY <1>2, <2>1
  <2>. QED  BY <1>8, <2>2
<1>. QED  BY <1>7, <1>9 DEF A, B, C, D, E, F

-----------------------------------------------------------------------------
(* _best_fit_node: a candidate that has room, or none has.                 *)
LEMMA BestFitFits ==
  ASSUME NEW candidates \in SUBSET Nodes, NEW h, NEW j
  PROVE  \/ /\ BestFit(candidates, h, j) = 0
            /\ \A n \in candidates : ~FitsOn(h, n, j)
         \/ /\ BestFit(candidates, h, j) \in candidates
            /\ FitsOn(h, BestFit(candidates, h, j), j)
<1> DEFINE fit == {n \in candidates : FitsOn(h, n, j)}
           Better(n, m) == \/ LoadOf(h, n, Soft) > LoadOf(h, m, Soft)
                           \/ LoadOf(h, n, Soft) = LoadOf(h, m, Soft) /\ n <= m
           R == {p \in fit \X fit : Better(p[1], p[2])}
<1>1. CASE fit = {}
  BY <1>1 DEF BestFit
<1>2. CASE fit # {}
  <2>1. IsFiniteSet(fit)
    <3>1. IsFiniteSet(Nodes)
      BY ClusterAssumption, FS_Interval DEF Nodes
    <3>. QED  BY <3>1, FS_Subset
  <2>2. \A n \in fit : LoadOf(h, n, Soft) \in Nat /\ n \in Nat
    <3> TAKE n \in fit
    <3>1. LoadOf(h, n, Soft) \in Nat
      BY ClusterAssumption, SumType DEF LoadOf, Jobs
    <3>. QED  BY <3>1 DEF Nodes
  <2>3. \A n, m \in fit : <<n, m>> \in R <=> Better(n, m)
    <3> HIDE DEF Better, fit
    <3>. QED  OBVIOUS
  <2> HIDE DEF R, fit
  <2>4. \A x, y \in fit : <<x, y>> \in R \/ <<y, x>> \in R
    <3>1. \A x, y \in fit : Better(x, y) \/ Better(y, x)
      BY <2>2
    <3> HIDE DEF Better
    <3>. QED  BY <2>3, <3>1
  <2>5. \A x, y, z \in fit : <<x, y>> \in R /\ <<y, z>> \in R => <<x, z>> \in R
    BY <2>2, <2>3
  <2>6. \E x \in fit : \A y \in fit : <<x, y>> \in R
    BY <1>2, <2>1, <2>4, <2>5, GreatestExists
  <2>7. \E x \in fit : \A y \in fit : Better(x, y)
    BY <2>3, <2>6
  <2> DEFINE b == CHOOSE x \in fit : \A y \in fit : Better(x, y)
  <2>8. b \in fit
    <3> HIDE DEF Better
    <3>. QED  BY <2>7
  <2>9. BestFit(candidates, h, j) = b
    BY <1>2 DEF BestFit, fit
  <2>. QED  BY <2>8, <2>9 DEF fit
<1>. QED  BY <1>1, <1>2

(* Jobs that are added to a node leave no more room on it.                 *)
LEMMA FitsIsMonotone ==
  ASSUME NEW g, NEW h, NEW n, NEW j \in Jobs, On(g, n) \subseteq On(h, n), FitsOn(h, n, j),
         Effective(type[n]) \in Int, Instances[type[n]].vcpu \in Int
  PROVE  FitsOn(g, n, j)
<1>1. LoadOf(g, n, Soft) <= LoadOf(h, n, Soft) /\ LoadOf(g, n, Vcpu) <= LoadOf(h, n, Vcpu)
  BY ClusterAssumption, SumMonotone DEF LoadOf, Jobs
<1>2. /\ LoadOf(g, n, Soft) \in Nat /\ LoadOf(h, n, Soft) \in Nat
      /\ LoadOf(g, n, Vcpu) \in Nat /\ LoadOf(h, n, Vcpu) \in Nat
  BY ClusterAssumption, SumType DEF LoadOf, Jobs
<1>3. Soft[j] \in Nat /\ Vcpu[j] \in Nat
  BY ClusterAssumption
<1>. QED  BY <1>1, <1>2, <1>3 DEF FitsOn

(* The vCPUs a node's jobs reserve are none exactly when it has no jobs.   *)
LEMMA LoadOfEmpty ==
  ASSUME NEW h, NEW n
  PROVE  /\ LoadOf(h, n, Vcpu) \in Nat
         /\ LoadOf(h, n, Vcpu) = 0 <=> On(h, n) = {}
<1>1. NumJobs \in Nat /\ Vcpu \in [1..NumJobs -> Nat] /\ \A j \in Jobs : Vcpu[j] > 0
  BY ClusterAssumption DEF Jobs
<1>2. LoadOf(h, n, Vcpu) \in Nat
  BY <1>1, SumType DEF LoadOf
<1>3. CASE On(h, n) = {}
  BY <1>1, <1>3, <1>2, SumEmpty DEF LoadOf
<1>4. CASE On(h, n) # {}
  <2>1. PICK j \in Jobs : j \in On(h, n)
    BY <1>4 DEF On
  <2>2. Vcpu[j] <= LoadOf(h, n, Vcpu) /\ Vcpu[j] \in Nat
    BY <1>1, <2>1, SumAtLeast DEF LoadOf, Jobs
  <2>. QED  BY <1>1, <1>2, <1>4, <2>2
<1>. QED  BY <1>2, <1>3, <1>4

-----------------------------------------------------------------------------
(* Every type of the list has its sizes and its price.                     *)
LEMMA InstanceType ==
  ASSUME NEW t \in Types
  PROVE  Instances[t] \in [ram : Nat, vcpu : Nat \ {0}, price : Nat \ {0}]
<1> DEFINE R == [ram : Nat, vcpu : Nat \ {0}, price : Nat \ {0}]
<1>1. Instances \in Seq(R) /\ t \in 1..Len(Instances)
  BY ClusterAssumption DEF Types
<1> HIDE DEF R
<1>2. Instances[t] \in R
  BY <1>1
<1>. QED  BY <1>2 DEF R

(* The timers of the nodes of N are in step with the load h.               *)
InStep(N, h, st, dr) ==
  \A n \in N :
    st[n] # "TERMINATED" /\ n \notin dr =>
      /\ n \in empty <=> st[n] \in {"READY", "IDLE"} /\ LoadOf(h, n, Vcpu) = 0
      /\ n \in under => st[n] \in {"READY", "IDLE"} /\ LoadOf(h, n, Vcpu) > 0

(* What an action hands to _try_schedule.                                  *)
Schedulable(ph, h, st, dr, touched) ==
  /\ ph \in [Jobs -> PlusPhases] /\ h \in [Jobs -> Nodes \cup {0}]
  /\ st \in [Nodes -> States] /\ dr \subseteq Nodes /\ touched \subseteq Nodes
  /\ \A j \in Jobs : h[j] # 0 <=> ph[j] = "running"
  /\ \A j \in Jobs : ph[j] = "running" => st[h[j]] = "READY"
  /\ \A n \in dr : st[n] = "READY" /\ On(h, n) # {}
  /\ \A n \in touched : st[n] \in {"READY", "IDLE"}
  /\ InStep(Nodes \ touched, h, st, dr)
  /\ \A n \in Nodes : st[n] = "READY" => type[n] # 0

(* _try_schedule leaves the jobs on open nodes, the timers in step, and no *)
(* queued job beside room.                                                 *)
LEMMA Scheduled ==
  ASSUME NEW ph, NEW h, NEW st, NEW dr, NEW touched,
         TypeOK, Schedulable(ph, h, st, dr, touched),
         TrySchedule(ph, h, st, dr, touched), type' = type,
         ageing' \subseteq Nodes
  PROVE  (TypeOK /\ JobsOnLiveNodes /\ DrainingHasJobs /\ TimersMatchLoad /\ NoIdleRoom)'
<1> DEFINE Pick(g, j) == BestFit(Open(st, dr), g, j)
<1>1. PICK placed \in [Queued(ph) -> Open(st, dr) \cup {0}] :
        /\ GreedyPass(Queued(ph), h, placed, Pick)
        /\ host' = [j \in Jobs |-> IF j \in Queued(ph) THEN placed[j] ELSE h[j]]
        /\ phase' = [j \in Jobs |-> IF j \in Queued(ph) /\ placed[j] # 0
                                    THEN "running" ELSE ph[j]]
        /\ state' = st
        /\ draining' = dr
        /\ Timers(touched \cup (Range(placed) \ {0}), host', st, dr)
  BY DEF TrySchedule
<1> DEFINE updated == touched \cup (Range(placed) \ {0})
<1>2. Open(st, dr) \subseteq Nodes /\ 0 \notin Nodes /\ Queued(ph) \subseteq Jobs
  BY DEF Open, Nodes, Queued
<1>3. \A j \in Jobs :
        /\ j \in Queued(ph) => host'[j] = placed[j] /\ placed[j] \in Open(st, dr) \cup {0}
        /\ j \notin Queued(ph) => host'[j] = h[j] /\ phase'[j] = ph[j]
        /\ j \in Queued(ph) /\ placed[j] # 0 => phase'[j] = "running"
        /\ j \in Queued(ph) /\ placed[j] = 0 => phase'[j] = "queued"
        /\ j \in Queued(ph) <=> ph[j] = "queued"
  BY <1>1 DEF Queued
<1>4. /\ host' \in [Jobs -> Nodes \cup {0}]
      /\ phase' \in [Jobs -> PlusPhases]
      /\ \A j \in Jobs : host'[j] # 0 <=> phase'[j] = "running"
  <2>1. \A j \in Jobs : ph[j] \in PlusPhases /\ h[j] \in Nodes \cup {0}
    BY DEF Schedulable
  <2>2. \A j \in Jobs : host'[j] \in Nodes \cup {0} /\ phase'[j] \in PlusPhases
    BY <1>2, <1>3, <2>1 DEF PlusPhases
  <2>3. \A j \in Jobs : h[j] # 0 <=> ph[j] = "running"
    BY DEF Schedulable
  <2>4. \A j \in Jobs : host'[j] # 0 <=> phase'[j] = "running"
    BY <1>2, <1>3, <2>3
  <2>5. /\ host' = [j \in Jobs |-> host'[j]] /\ phase' = [j \in Jobs |-> phase'[j]]
    BY <1>1
  <2>. QED  BY <2>2, <2>4, <2>5
<1>5. \A j \in Jobs : h[j] # 0 => host'[j] = h[j]
  BY <1>3 DEF Schedulable
<1>6. \A n \in Nodes : On(h, n) \subseteq On(host', n)
  BY <1>2, <1>5 DEF On
<1>7. \A n \in Nodes \ updated : On(host', n) = On(h, n)
  <2> TAKE n \in Nodes \ updated
  <2>1. \A j \in Queued(ph) : placed[j] # n
    <3>1. \A j \in Queued(ph) : placed[j] \in Range(placed)
      BY DEF Range
    <3>. QED  BY <1>2, <3>1
  <2>. QED  BY <1>3, <1>6, <2>1 DEF On
<1>8. updated \subseteq Nodes /\ \A n \in updated : st[n] \in {"READY", "IDLE"}
  <2>1. Range(placed) \subseteq Open(st, dr) \cup {0}
    BY DEF Range
  <2>2. \A n \in Open(st, dr) : st[n] = "READY"
    BY DEF Open
  <2>. QED  BY <1>2, <2>1, <2>2 DEF Schedulable
<1>9. JobsOnLiveNodes'
  <2>1. ASSUME NEW j \in Jobs, phase'[j] = "running" PROVE st[host'[j]] = "READY"
    <3>1. CASE j \in Queued(ph)
      BY <1>3, <2>1, <3>1 DEF Open
    <3>2. CASE j \notin Queued(ph)
      BY <1>3, <2>1, <3>2 DEF Schedulable
    <3>. QED  BY <3>1, <3>2
  <2>. QED  BY <1>1, <2>1 DEF JobsOnLiveNodes
<1>10. DrainingHasJobs'
  <2>1. \A n \in dr : n \in Nodes /\ st[n] = "READY" /\ On(h, n) # {}
    BY DEF Schedulable
  <2>2. \A n \in dr : On(host', n) # {}
    BY <1>6, <2>1
  <2>3. \A n \in draining' : state'[n] = "READY" /\ On(host', n) # {}
    BY <1>1, <2>1, <2>2
  <2>. QED  BY <2>3 DEF DrainingHasJobs, On
<1>11. /\ TimersMatchLoad'
       /\ empty' \subseteq Nodes /\ under' \subseteq Nodes
  <2>1. \A n \in Nodes : LoadOf(host', n, Vcpu) \in Nat
    BY LoadOfEmpty
  <2>2. \A n \in Nodes \ updated : LoadOf(host', n, Vcpu) = LoadOf(h, n, Vcpu)
    BY <1>7 DEF LoadOf
  <2> DEFINE watched == {n \in updated : st[n] # "TERMINATED" /\ n \notin dr}
             Low(n) == 100 * LoadOf(host', n, Vcpu) < UnderutilizedPct * Instances[type[n]].vcpu
  <2>3. /\ empty' = {n \in empty : n \notin watched /\ n \notin dr /\ st[n] # "TERMINATED"}
                      \cup {n \in watched : LoadOf(host', n, Vcpu) = 0}
        /\ under' = {n \in under : n \notin watched /\ n \notin dr /\ st[n] # "TERMINATED"}
                      \cup {n \in watched : LoadOf(host', n, Vcpu) > 0 /\ Low(n)}
    BY <1>1 DEF Timers
  <2> HIDE DEF Low
  <2>4. ASSUME NEW n \in Nodes
        PROVE  LET live == st[n] \in {"READY", "IDLE"} /\ n \notin dr
               IN  /\ n \in empty' <=> live /\ LoadOf(host', n, Vcpu) = 0
                   /\ n \in under' => live /\ LoadOf(host', n, Vcpu) > 0
    <3>1. CASE n \in updated
      BY <1>8, <2>3, <3>1
    <3>2. CASE n \notin updated
      <4>1. st[n] # "TERMINATED" /\ n \notin dr =>
              /\ n \in empty <=> st[n] \in {"READY", "IDLE"} /\ LoadOf(h, n, Vcpu) = 0
              /\ n \in under => st[n] \in {"READY", "IDLE"} /\ LoadOf(h, n, Vcpu) > 0
        <5>1. n \in Nodes \ touched
          BY <3>2
        <5>2. InStep(Nodes \ touched, h, st, dr)
          BY DEF Schedulable
        <5>. QED  BY <5>1, <5>2 DEF InStep
      <4>2. LoadOf(host', n, Vcpu) = LoadOf(h, n, Vcpu)
        BY <2>2, <3>2
      <4>3. n \notin watched
        BY <3>2
      <4> HIDE DEF watched, updated
      <4>4. /\ n \in empty' <=> n \in empty /\ n \notin dr /\ st[n] # "TERMINATED"
            /\ n \in under' <=> n \in under /\ n \notin dr /\ st[n] # "TERMINATED"
        BY <2>3, <4>3
      <4>. QED  BY <4>1, <4>2, <4>4
    <3>. QED  BY <3>1, <3>2
  <2>5. empty' \subseteq Nodes /\ under' \subseteq Nodes
    BY <1>8, <2>3 DEF TypeOK
  <2>. QED  BY <1>1, <2>4, <2>5 DEF TimersMatchLoad, LoadOf, On
<1>12. NoIdleRoom'
  <2> SUFFICES ASSUME NEW j \in Jobs, phase'[j] = "queued", NEW n \in Open(st, dr)
               PROVE  ~FitsOn(host', n, j)
    BY <1>1 DEF NoIdleRoom, Queued, Open, FitsOn, LoadOf, On
  <2>1. j \in Queued(ph) /\ placed[j] = 0
    BY <1>3
  <2> DEFINE g == Until(j, Queued(ph), h, placed)
  <2>2. ~FitsOn(g, n, j)
    <3>1. BestFit(Open(st, dr), g, j) = 0
      BY <1>1, <2>1 DEF GreedyPass
    <3> HIDE DEF g
    <3>. QED  BY <1>2, <3>1, BestFitFits
  <2>3. On(g, n) \subseteq On(host', n)
    <3>1. ASSUME NEW k \in Jobs, g[k] = n PROVE host'[k] = n
      <4>1. DOMAIN h = Jobs
        BY DEF Schedulable
      <4>2. g[k] = IF k \in Queued(ph) THEN IF k < j THEN placed[k] ELSE 0 ELSE h[k]
        BY <4>1 DEF Until
      <4>. QED  BY <1>2, <1>3, <3>1, <4>2
    <3>. QED  BY <3>1 DEF On
  <2>4. Effective(type[n]) \in Int /\ Instances[type[n]].vcpu \in Int
    <3>1. type[n] \in 1..Len(Instances)
      <4>1. type[n] # 0
        BY <1>2 DEF Schedulable, Open
      <4>2. type[n] \in 0..Len(Instances)
        BY <1>2 DEF TypeOK
      <4>3. Len(Instances) \in Nat
        BY ClusterAssumption
      <4>. QED  BY <4>1, <4>2, <4>3
    <3>2. Instances[type[n]] \in [ram : Nat, vcpu : Nat \ {0}, price : Nat \ {0}]
      BY <3>1, InstanceType DEF Types
    <3> DEFINE inst == Instances[type[n]]
    <3>3. inst.ram \in Nat /\ inst.vcpu \in Nat
      BY <3>2
    <3>4. Overhead \in Nat /\ Spike \in Nat
      BY ClusterAssumption
    <3>5. Effective(type[n]) = IF inst.ram - Overhead - Spike > 0
                               THEN inst.ram - Overhead - Spike ELSE 0
      BY DEF Effective
    <3> HIDE DEF inst
    <3>6. Effective(type[n]) \in Int
      BY <3>3, <3>4, <3>5
    <3>. QED  BY <3>3, <3>6 DEF inst
  <2>. QED  BY <2>2, <2>3, <2>4, FitsIsMonotone
<1>13. TypeOK'
  <2>1. state' \in [Nodes -> States] /\ draining' \subseteq Nodes
    BY <1>1 DEF Schedulable
  <2>2. type' \in [Nodes -> 0..Len(Instances)]
    BY DEF TypeOK
  <2>. QED  BY <1>4, <1>11, <2>1, <2>2 DEF TypeOK, PlusPhases
<1>. QED  BY <1>9, <1>10, <1>11, <1>12, <1>13

-----------------------------------------------------------------------------
(* The jobs a type takes are jobs of the queue.                            *)
LEMMA TakenByType ==
  ASSUME NEW t \in Types, NEW S \in SUBSET Jobs
  PROVE  TakenBy[t][S] \in SUBSET S /\ Cardinality(TakenBy[t][S]) \in Nat
<1>1. TakenBy[t][S] = OneNode(S, Effective(t), Instances[t].vcpu, Soft, Vcpu, NumJobs)
  BY DEF TakenBy
<1>2. TakenBy[t][S] \in SUBSET S
  BY <1>1, ClusterAssumption, OneNodeType DEF Jobs
<1>3. IsFiniteSet(TakenBy[t][S])
  <2>1. IsFiniteSet(Jobs)
    BY ClusterAssumption, FS_Interval DEF Jobs
  <2>. QED  BY <1>2, <2>1, FS_Subset
<1>. QED  BY <1>2, <1>3, FS_CardinalityType

(* _select_instance_for_overflow: none, or a type that takes a job.        *)
LEMMA SelectTakes ==
  ASSUME NEW S \in SUBSET Jobs, S # {}
  PROVE  /\ Select[S] \in Types \cup {0}
         /\ Select[S] # 0 => TakenBy[Select[S]][S] # {}
<1> DEFINE first == CHOOSE j \in S : \A k \in S : j <= k
           fit == {t \in Types : /\ Instances[t].ram >= Peak[first] + Overhead
                                 /\ Instances[t].vcpu >= Vcpu[first]
                                 /\ Effective(t) >= Soft[first]
                                 /\ TakenBy[t][S] # {}}
           Score(t, u) == Cardinality(TakenBy[t][S]) * Instances[u].price
           Better(t, u) == Score(t, u) > Score(u, t) \/ (Score(t, u) = Score(u, t) /\ t <= u)
           R == {p \in fit \X fit : Better(p[1], p[2])}
           best == CHOOSE t \in fit : \A u \in fit : Better(t, u)
<1>1. Select[S] = IF fit = {} THEN 0 ELSE best
  <2>1. S \in (SUBSET Jobs) \ {{}}
    OBVIOUS
  <2>. QED  BY <2>1 DEF Select
<1>2. fit \subseteq Types /\ \A t \in fit : TakenBy[t][S] # {}
  OBVIOUS
<1> HIDE DEF fit
<1>3. CASE fit # {}
  <2>1. IsFiniteSet(fit)
    <3>1. IsFiniteSet(Types)
      BY ClusterAssumption, FS_Interval DEF Types
    <3>. QED  BY <1>2, <3>1, FS_Subset
  <2>2. \A t \in fit : /\ Cardinality(TakenBy[t][S]) \in Nat
                       /\ Instances[t].price \in Nat \ {0} /\ t \in Int
    <3> TAKE t \in fit
    <3>1. Instances[t] \in [ram : Nat, vcpu : Nat \ {0}, price : Nat \ {0}]
      BY <1>2, InstanceType
    <3>. QED  BY <1>2, <3>1, TakenByType DEF Types
  <2>3. \A t, u \in fit : Score(t, u) \in Int
    BY <2>2
  <2>4. ASSUME NEW x \in fit, NEW y \in fit, NEW z \in fit, Better(x, y), Better(y, z)
        PROVE  Better(x, z)
    <3>1. Score(x, y) >= Score(y, x) /\ Score(y, z) >= Score(z, y)
      <4> HIDE DEF Score
      <4>. QED  BY <2>3, <2>4
    <3>2. /\ Score(x, z) >= Score(z, x)
          /\ Score(x, z) = Score(z, x) => Score(x, y) = Score(y, x) /\ Score(y, z) = Score(z, y)
      BY <2>2, <3>1, RatioTransitive
    <3> HIDE DEF Score
    <3>. QED  BY <2>2, <2>3, <2>4, <3>2
  <2>5. \A x, y \in fit : Better(x, y) \/ Better(y, x)
    <3> HIDE DEF Score
    <3>. QED  BY <2>2, <2>3
  <2> HIDE DEF Better
  <2>6. \A x, y \in fit : <<x, y>> \in R <=> Better(x, y)
    OBVIOUS
  <2> HIDE DEF R
  <2>7. \E x \in fit : \A y \in fit : <<x, y>> \in R
    <3>1. \A x, y \in fit : <<x, y>> \in R \/ <<y, x>> \in R
      BY <2>5, <2>6
    <3>2. \A x, y, z \in fit : <<x, y>> \in R /\ <<y, z>> \in R => <<x, z>> \in R
      BY <2>4, <2>6
    <3>. QED  BY <1>3, <2>1, <3>1, <3>2, GreatestExists
  <2>8. best \in fit
    BY <2>6, <2>7
  <2>. QED  BY <1>1, <1>2, <1>3, <2>8
<1>4. CASE fit = {}
  BY <1>1, <1>4
<1>. QED  BY <1>3, <1>4

(* _provision_to_demand_karpenter ends: what it launches is what its       *)
(* recursion says, a list of instance types.                               *)
LEMMA LaunchesDef ==
  /\ Launches = [W \in SUBSET Jobs |->
                   IF W = {} THEN <<>> ELSE IF Select[W] = 0 THEN <<>>
                   ELSE <<Select[W]>> \o Launches[W \ TakenBy[Select[W]][W]]]
  /\ \A S \in SUBSET Jobs : Launches[S] \in Seq(Types)
<1> DEFINE choice == [W \in SUBSET Jobs |-> IF W = {} THEN 0 ELSE Select[W]]
           left == [W \in SUBSET Jobs |-> W \ TakenBy[Select[W]][W]]
           Body(f) == [W \in SUBSET Jobs |->
                         IF W = {} THEN <<>> ELSE IF Select[W] = 0 THEN <<>>
                         ELSE <<Select[W]>> \o f[W \ TakenBy[Select[W]][W]]]
<1>1. choice \in [SUBSET Jobs -> Types \cup {0}]
  BY SelectTakes
<1>2. Shrinks(Jobs, choice, left)
  <2> SUFFICES ASSUME NEW W \in SUBSET Jobs, W # {}, choice[W] # 0
               PROVE  left[W] \in SUBSET W /\ left[W] # W
    BY DEF Shrinks
  <2>1. Select[W] # 0 /\ Select[W] \in Types /\ TakenBy[Select[W]][W] # {}
    BY SelectTakes
  <2>2. TakenBy[Select[W]][W] \in SUBSET W
    BY <2>1, TakenByType
  <2>. QED  BY <2>1, <2>2
<1>3. \A f : Pass(f, Jobs, choice, left) = Body(f)
  <2> TAKE f
  <2>1. \A W \in SUBSET Jobs : Pass(f, Jobs, choice, left)[W] = Body(f)[W]
    BY DEF Pass
  <2>. QED  BY <2>1 DEF Pass
<1>4. IsFiniteSet(Jobs)
  BY ClusterAssumption, FS_Interval DEF Jobs
<1>5. Launches = CHOOSE f : f = Body(f)
  BY DEF Launches
<1> HIDE DEF Body, choice, left
<1>6. \E f : f = Body(f)
  <2>1. PICK f : f = Pass(f, Jobs, choice, left)
    BY <1>1, <1>2, <1>4, PassExists
  <2>2. f = Body(f)
    BY <1>3, <2>1
  <2>. QED  BY <2>2
<1>7. Launches = Body(Launches)
  BY <1>5, <1>6
<1>8. \A S \in SUBSET Jobs : Launches[S] \in Seq(Types)
  BY <1>1, <1>2, <1>3, <1>4, <1>7, PassType
<1>. QED  BY <1>7, <1>8 DEF Body

LEMMA LaunchesType ==
  ASSUME NEW S \in SUBSET Jobs
  PROVE  Launches[S] \in Seq(Types)
BY LaunchesDef

-----------------------------------------------------------------------------
(* A node without jobs hosts nobody; one with jobs is ready.               *)
LEMMA NodeWithJobs ==
  ASSUME IInv, NEW n \in Nodes
  PROVE  /\ On(host, n) = {} => \A j \in Jobs : phase[j] = "running" => host[j] # n
         /\ On(host, n) # {} => state[n] = "READY"
         /\ n \in empty => On(host, n) = {} /\ state[n] \in {"READY", "IDLE"}
         /\ n \in under => On(host, n) # {} /\ state[n] = "READY"
<1>1. On(host, n) = {} => \A j \in Jobs : phase[j] = "running" => host[j] # n
  BY DEF On
<1>2. On(host, n) # {} => state[n] = "READY"
  <2> SUFFICES ASSUME NEW j \in Jobs, host[j] = n PROVE state[n] = "READY"
    BY DEF On
  <2>. QED  BY DEF IInv, TypeOK, JobsOnLiveNodes, Nodes
<1>3. LoadOf(host, n, Vcpu) \in Nat /\ (LoadOf(host, n, Vcpu) = 0 <=> On(host, n) = {})
  BY LoadOfEmpty
<1>4. n \in empty => LoadOf(host, n, Vcpu) = 0 /\ state[n] \in {"READY", "IDLE"}
  BY DEF IInv, TimersMatchLoad
<1>5. n \in under => LoadOf(host, n, Vcpu) > 0
  BY DEF IInv, TimersMatchLoad
<1>. QED  BY <1>1, <1>2, <1>3, <1>4, <1>5

(* Letting an empty node go disturbs nobody.                               *)
LEMMA TerminateSafe ==
  ASSUME IInv, NEW n \in Nodes, On(host, n) = {}, state[n] # "none",
         Terminate(n), UNCHANGED <<phase, host, type>>
  PROVE  IInv'
<1>1. /\ state' = [state EXCEPT ![n] = "TERMINATED"] /\ draining' = draining \ {n}
      /\ empty' = empty \ {n} /\ under' = under \ {n} /\ ageing' = ageing \ {n}
      /\ phase' = phase /\ host' = host /\ type' = type
  BY DEF Terminate
<1>2. TypeOK'
  BY <1>1 DEF IInv, TypeOK, States
<1>3. LaunchOrder'
  BY <1>1 DEF IInv, TypeOK, LaunchOrder
<1>4. JobsOnLiveNodes'
  BY <1>1, NodeWithJobs DEF IInv, TypeOK, JobsOnLiveNodes
<1>5. DrainingHasJobs'
  BY <1>1 DEF IInv, TypeOK, DrainingHasJobs, On
<1>6. TimersMatchLoad'
  BY <1>1 DEF IInv, TypeOK, TimersMatchLoad, LoadOf, On
<1>7. NoIdleRoom'
  <2>1. Open(state', draining') \subseteq Open(state, draining)
    BY <1>1 DEF IInv, TypeOK, Open
  <2>. QED  BY <1>1, <2>1 DEF IInv, NoIdleRoom, Queued, Open, FitsOn, LoadOf, On
<1>. QED  BY <1>2, <1>3, <1>4, <1>5, <1>6, <1>7 DEF IInv

(* Setting a node with jobs draining disturbs nobody either.               *)
LEMMA DrainSafe ==
  ASSUME IInv, NEW n \in Nodes, On(host, n) # {}, draining' = draining \cup {n},
         empty' = empty \ {n}, under' = under \ {n}, ageing' \subseteq ageing,
         UNCHANGED <<phase, host, type, state>>
  PROVE  IInv'
<1>1. TypeOK'
  BY DEF IInv, TypeOK
<1>2. LaunchOrder'
  BY DEF IInv, LaunchOrder
<1>3. JobsOnLiveNodes'
  BY DEF IInv, JobsOnLiveNodes
<1>4. DrainingHasJobs'
  BY NodeWithJobs DEF IInv, DrainingHasJobs, On
<1>5. TimersMatchLoad'
  BY DEF IInv, TimersMatchLoad, LoadOf, On
<1>6. NoIdleRoom'
  <2>1. Open(state', draining') \subseteq Open(state, draining)
    BY DEF Open
  <2>. QED  BY <2>1 DEF IInv, NoIdleRoom, Queued, Open, FitsOn, LoadOf, On
<1>. QED  BY <1>1, <1>2, <1>3, <1>4, <1>5, <1>6 DEF IInv

(* A job that arrives.                                                     *)
LEMMA ArriveSchedulable ==
  ASSUME IInv, NEW j \in Jobs, Arrive(j)
  PROVE  LET ph == [phase EXCEPT ![j] = "queued"]
         IN  /\ TrySchedule(ph, host, state, draining, {})
             /\ Schedulable(ph, host, state, draining, {})
<1> DEFINE ph == [phase EXCEPT ![j] = "queued"]
<1>1. phase[j] = "absent" /\ TrySchedule(ph, host, state, draining, {})
  BY DEF Arrive
<1>2. ph \in [Jobs -> PlusPhases]
  BY DEF IInv, TypeOK, PlusPhases
<1>3. \A k \in Jobs : ph[k] = "running" <=> phase[k] = "running"
  BY <1>1 DEF IInv, TypeOK
<1>4. InStep(Nodes \ {}, host, state, draining)
  BY DEF IInv, TimersMatchLoad, InStep
<1> HIDE DEF ph
<1>5. Schedulable(ph, host, state, draining, {})
  BY <1>2, <1>3, <1>4
     DEF Schedulable, IInv, TypeOK, JobsOnLiveNodes, DrainingHasJobs, LaunchOrder
<1>. QED  BY <1>1, <1>5 DEF ph

LEMMA ArriveStep ==
  ASSUME IInv, NEW j \in Jobs, Arrive(j)
  PROVE  IInv'
<1> DEFINE ph == [phase EXCEPT ![j] = "queued"]
<1>1. /\ type' = type /\ ageing' = ageing
      /\ TrySchedule(ph, host, state, draining, {})
      /\ Schedulable(ph, host, state, draining, {})
  BY ArriveSchedulable DEF Arrive
<1> HIDE DEF ph
<1>2. (TypeOK /\ JobsOnLiveNodes /\ DrainingHasJobs /\ TimersMatchLoad /\ NoIdleRoom)'
  BY <1>1, Scheduled DEF IInv, TypeOK
<1>3. LaunchOrder'
  BY <1>1 DEF IInv, LaunchOrder, TrySchedule
<1>. QED  BY <1>2, <1>3 DEF IInv

(* A node that has warmed up.                                              *)
LEMMA ReadySchedulable ==
  ASSUME IInv, NEW n \in Nodes, NodeReady(n)
  PROVE  LET st == [state EXCEPT ![n] = "READY"]
         IN  /\ st \in [Nodes -> States] /\ st[n] = "READY"
             /\ \A m \in Nodes : m # n => st[m] = state[m]
             /\ TrySchedule(phase, host, st, draining, {n})
             /\ Schedulable(phase, host, st, draining, {n})
<1> DEFINE st == [state EXCEPT ![n] = "READY"]
<1>1. state[n] = "LAUNCHING" /\ TrySchedule(phase, host, st, draining, {n})
  BY DEF NodeReady
<1>2. st \in [Nodes -> States] /\ st[n] = "READY" /\ \A m \in Nodes : m # n => st[m] = state[m]
  BY DEF IInv, TypeOK, States
<1> HIDE DEF st
<1>3. \A j \in Jobs : phase[j] = "running" => st[host[j]] = "READY"
  BY <1>1, <1>2 DEF IInv, JobsOnLiveNodes, TypeOK
<1>4. \A m \in draining : st[m] = "READY" /\ On(host, m) # {}
  BY <1>1, <1>2 DEF IInv, DrainingHasJobs, TypeOK
<1>5. InStep(Nodes \ {n}, host, st, draining)
  BY <1>2 DEF IInv, TimersMatchLoad, InStep
<1>6. \A m \in Nodes : st[m] = "READY" => type[m] # 0
  BY <1>1, <1>2 DEF IInv, LaunchOrder
<1>7. Schedulable(phase, host, st, draining, {n})
  BY <1>2, <1>3, <1>4, <1>5, <1>6 DEF Schedulable, IInv, TypeOK, PlusPhases
<1>. QED  BY <1>1, <1>2, <1>7 DEF st

LEMMA NodeReadyStep ==
  ASSUME IInv, NEW n \in Nodes, NodeReady(n)
  PROVE  IInv'
<1> DEFINE st == [state EXCEPT ![n] = "READY"]
<1>1. /\ state[n] = "LAUNCHING" /\ type' = type /\ ageing' = ageing \cup {n}
      /\ st \in [Nodes -> States] /\ st[n] = "READY"
      /\ \A m \in Nodes : m # n => st[m] = state[m]
      /\ TrySchedule(phase, host, st, draining, {n})
      /\ Schedulable(phase, host, st, draining, {n})
  BY ReadySchedulable DEF NodeReady
<1>2. state' = st
  BY <1>1 DEF TrySchedule
<1> HIDE DEF st
<1>3. ageing \subseteq Nodes
  BY DEF IInv, TypeOK
<1>4. (TypeOK /\ JobsOnLiveNodes /\ DrainingHasJobs /\ TimersMatchLoad /\ NoIdleRoom)'
  <2>1. TypeOK /\ ageing' \subseteq Nodes
    BY <1>1, <1>3 DEF IInv
  <2>. QED  BY <1>1, <2>1, Scheduled
<1>5. LaunchOrder'
  <2>1. \A m \in Nodes : st[m] # "none" <=> state[m] # "none"
    BY <1>1
  <2>. QED  BY <1>1, <1>2, <1>3, <2>1 DEF IInv, LaunchOrder
<1>. QED  BY <1>4, <1>5 DEF IInv

(* A job that ends: its node is let go, left idle or kept.                 *)
LEMMA EndJobSchedulable ==
  ASSUME IInv, NEW j \in Jobs, EndJob(j)
  PROVE  LET n == host[j]
             h == [host EXCEPT ![j] = 0]
             ph == [phase EXCEPT ![j] = "done"]
         IN  /\ n \in Nodes /\ state[n] = "READY" /\ phase[j] = "running"
             /\ \E st, dr, touched :
                  /\ TrySchedule(ph, h, st, dr, touched)
                  /\ Schedulable(ph, h, st, dr, touched)
                  /\ st[n] \in {"READY", "IDLE", "TERMINATED"}
                  /\ st[n] # "READY" => n \notin dr
                  /\ st[n] = "READY" /\ n \in draining => n \in dr
                  /\ st[n] = "IDLE" => n \notin draining
                  /\ ageing' = IF st[n] = "TERMINATED" THEN ageing \ {n} ELSE ageing
                  /\ \A m \in Nodes : m # n => st[m] = state[m] /\ (m \in dr <=> m \in draining)
<1> DEFINE n == host[j]
           h == [host EXCEPT ![j] = 0]
           ph == [phase EXCEPT ![j] = "done"]
<1>1. n \in Nodes /\ state[n] = "READY" /\ phase[j] = "running" /\ type[n] # 0
  BY DEF EndJob, IInv, TypeOK, JobsOnLiveNodes, LaunchOrder
<1>2. PICK st, dr, touched :
        /\ TrySchedule(ph, h, st, dr, touched)
        /\ ageing' = IF st[n] = "TERMINATED" THEN ageing \ {n} ELSE ageing
        /\ \/ /\ On(h, n) = {} /\ n \in draining /\ touched = {}
              /\ st = [state EXCEPT ![n] = "TERMINATED"] /\ dr = draining \ {n}
           \/ /\ On(h, n) = {} /\ n \notin draining /\ touched = {n}
              /\ st = [state EXCEPT ![n] = "IDLE"] /\ dr = draining
           \/ /\ On(h, n) # {} /\ touched = {n} /\ st = state
              /\ (dr = draining \/ dr = draining \cup {n})
  <2>1. n \in Nodes /\ DOMAIN state = Nodes
    BY <1>1 DEF IInv, TypeOK
  <2>2. CASE /\ On(h, n) = {} /\ n \in draining
             /\ TrySchedule(ph, h, [state EXCEPT ![n] = "TERMINATED"], draining \ {n}, {})
             /\ ageing' = ageing \ {n}
    BY <2>1, <2>2
  <2>3. CASE /\ On(h, n) = {} /\ n \notin draining
             /\ TrySchedule(ph, h, [state EXCEPT ![n] = "IDLE"], draining, {n})
             /\ UNCHANGED ageing
    BY <2>1, <2>3
  <2>4. CASE /\ On(h, n) # {}
             /\ TrySchedule(ph, h, state,
                  draining \cup (IF Consolidates(n, h, draining) THEN {n} ELSE {}), {n})
             /\ UNCHANGED ageing
    <3> DEFINE dr == draining \cup (IF Consolidates(n, h, draining) THEN {n} ELSE {})
    <3>1. dr = draining \/ dr = draining \cup {n}
      OBVIOUS
    <3>2. TrySchedule(ph, h, state, dr, {n})
      BY <2>4
    <3> HIDE DEF dr
    <3>. QED  BY <1>1, <2>4, <3>1, <3>2
  <2>. QED  BY <2>2, <2>3, <2>4 DEF EndJob
<1>3. /\ h \in [Jobs -> Nodes \cup {0}] /\ ph \in [Jobs -> PlusPhases]
      /\ \A k \in Jobs : k # j => h[k] = host[k] /\ ph[k] = phase[k]
      /\ h[j] = 0 /\ ph[j] = "done"
  BY DEF IInv, TypeOK, PlusPhases
<1>4. state' = st
  BY <1>2 DEF TrySchedule
<1>5. /\ st \in [Nodes -> States] /\ touched \subseteq {n} /\ dr \subseteq draining \cup {n}
      /\ \A m \in Nodes : m # n => st[m] = state[m] /\ (m \in dr <=> m \in draining)
      /\ st[n] \in {"READY", "IDLE", "TERMINATED"}
  BY <1>1, <1>2 DEF IInv, TypeOK, States
<1>6. \A m \in Nodes : m # n => On(h, m) = On(host, m)
  BY <1>3 DEF IInv, TypeOK, On, Nodes
<1>7. \A m \in Nodes : m # n => LoadOf(h, m, Vcpu) = LoadOf(host, m, Vcpu)
  BY <1>6 DEF LoadOf
<1>8. /\ On(h, n) # {} => st[n] = "READY"
      /\ n \in dr => st[n] = "READY" /\ On(h, n) # {}
      /\ n \in touched => st[n] \in {"READY", "IDLE"}
      /\ n \notin touched => st[n] = "TERMINATED"
  BY <1>1, <1>2 DEF IInv, TypeOK, DrainingHasJobs
<1> HIDE DEF h, ph
<1>9. \A k \in Jobs : ph[k] = "running" => st[h[k]] = "READY"
  <2> SUFFICES ASSUME NEW k \in Jobs, ph[k] = "running" PROVE st[h[k]] = "READY"
    OBVIOUS
  <2>1. k # j /\ h[k] = host[k] /\ phase[k] = "running" /\ state[host[k]] = "READY"
    BY <1>3 DEF IInv, JobsOnLiveNodes
  <2>2. host[k] \in Nodes
    BY <2>1 DEF IInv, TypeOK, Nodes
  <2>3. CASE host[k] = n
    BY <1>8, <2>1, <2>3 DEF On
  <2>4. CASE host[k] # n
    BY <1>5, <2>1, <2>2, <2>4
  <2>. QED  BY <2>3, <2>4
<1>10. Schedulable(ph, h, st, dr, touched)
  <2>1. \A k \in Jobs : h[k] # 0 <=> ph[k] = "running"
    BY <1>3 DEF IInv, TypeOK
  <2>2. \A m \in dr : st[m] = "READY" /\ On(h, m) # {}
    BY <1>5, <1>6, <1>8 DEF IInv, DrainingHasJobs, TypeOK
  <2>3. InStep(Nodes \ touched, h, st, dr)
    <3> SUFFICES ASSUME NEW m \in Nodes \ touched, st[m] # "TERMINATED", m \notin dr
                 PROVE  /\ m \in empty <=> st[m] \in {"READY", "IDLE"} /\ LoadOf(h, m, Vcpu) = 0
                        /\ m \in under => st[m] \in {"READY", "IDLE"} /\ LoadOf(h, m, Vcpu) > 0
      BY DEF InStep
    <3>1. m # n
      BY <1>8
    <3>. QED  BY <1>5, <1>7, <3>1 DEF IInv, TimersMatchLoad
  <2>4. \A m \in Nodes : st[m] = "READY" => type[m] # 0
    BY <1>1, <1>5 DEF IInv, LaunchOrder
  <2>5. dr \subseteq Nodes /\ touched \subseteq Nodes /\ \A m \in touched : st[m] \in {"READY", "IDLE"}
    BY <1>1, <1>5, <1>8 DEF IInv, TypeOK
  <2>. QED  BY <1>3, <1>5, <1>9, <2>1, <2>2, <2>3, <2>4, <2>5 DEF Schedulable
<1>11. /\ st[n] # "READY" => n \notin dr
       /\ st[n] = "READY" /\ n \in draining => n \in dr
       /\ st[n] = "IDLE" => n \notin draining
  BY <1>1, <1>2 DEF IInv, TypeOK
<1>12. /\ TrySchedule(ph, h, st, dr, touched)
       /\ ageing' = IF st[n] = "TERMINATED" THEN ageing \ {n} ELSE ageing
  BY <1>2
<1>. QED  BY <1>1, <1>5, <1>10, <1>11, <1>12 DEF h, ph

LEMMA EndJobStep ==
  ASSUME IInv, NEW j \in Jobs, EndJob(j)
  PROVE  IInv'
<1> DEFINE n == host[j]
           h == [host EXCEPT ![j] = 0]
           ph == [phase EXCEPT ![j] = "done"]
<1>1. n \in Nodes /\ state[n] = "READY" /\ type' = type
  BY EndJobSchedulable DEF EndJob
<1>2. PICK st, dr, touched :
        /\ TrySchedule(ph, h, st, dr, touched)
        /\ Schedulable(ph, h, st, dr, touched)
        /\ st[n] \in {"READY", "IDLE", "TERMINATED"}
        /\ ageing' = IF st[n] = "TERMINATED" THEN ageing \ {n} ELSE ageing
        /\ \A m \in Nodes : m # n => st[m] = state[m]
  BY EndJobSchedulable
<1>3. state' = st
  BY <1>2 DEF TrySchedule
<1> HIDE DEF h, ph, n
<1>4. ageing \subseteq Nodes /\ ageing' \subseteq ageing
  BY <1>2 DEF IInv, TypeOK
<1>5. (TypeOK /\ JobsOnLiveNodes /\ DrainingHasJobs /\ TimersMatchLoad /\ NoIdleRoom)'
  <2>1. TypeOK /\ ageing' \subseteq Nodes
    BY <1>4 DEF IInv
  <2>. QED  BY <1>1, <1>2, <2>1, Scheduled
<1>6. LaunchOrder'
  <2>1. \A m \in Nodes : st[m] # "none" <=> state[m] # "none"
    BY <1>1, <1>2
  <2>. QED  BY <1>1, <1>3, <1>4, <2>1 DEF IInv, LaunchOrder
<1>. QED  BY <1>5, <1>6 DEF IInv

(* The nodes launched for the overflow of the queue are the next ones.     *)
LEMMA ProvisionLaunches ==
  ASSUME IInv
  PROVE  LET types == Launches[Overflow]
             from == Cardinality(Launched)
             new == (from+1)..(from+Len(types))
         IN  /\ types \in Seq(Types) /\ from \in Nat /\ Launched = 1..from
             /\ \A n \in new : types[n - from] \in Types
             /\ \A n \in Nodes \cap new : state[n] = "none"
<1> DEFINE types == Launches[Overflow]
           from == Cardinality(Launched)
           new == (from+1)..(from+Len(types))
<1>1. types \in Seq(Types)
  <2>1. Overflow \in SUBSET Jobs
    BY DEF Overflow, Queued
  <2>. QED  BY <2>1, LaunchesType
<1>2. from \in Nat /\ Launched = 1..from
  <2>1. Launched \in SUBSET (1..MaxNodes)
    BY DEF Launched, Nodes
  <2>2. \A x \in Launched, y \in 1..MaxNodes : y < x => y \in Launched
    BY DEF Launched, Nodes, IInv, LaunchOrder
  <2>. QED  BY <2>1, <2>2, ClusterAssumption, PrefixIsInterval
<1> HIDE DEF types, from
<1>3. \A n \in new : n - from \in 1..Len(types)
  BY <1>1, <1>2
<1>4. \A n \in new : types[n - from] \in Types
  BY <1>1, <1>3
<1>5. \A n \in Nodes \cap new : state[n] = "none"
  <2>1. \A n \in new : n \notin Launched
    BY <1>1, <1>2
  <2>. QED  BY <2>1 DEF Launched
<1>. QED  BY <1>1, <1>2, <1>4, <1>5 DEF types, from

LEMMA ProvisionStep ==
  ASSUME IInv, Provision
  PROVE  IInv'
<1> DEFINE types == Launches[Overflow]
           from == Cardinality(Launched)
           new == (from+1)..(from+Len(types))
<1>1. /\ from + Len(types) <= MaxNodes
      /\ state' = [n \in Nodes |-> IF n \in new THEN "LAUNCHING" ELSE state[n]]
      /\ type' = [n \in Nodes |-> IF n \in new THEN types[n - from] ELSE type[n]]
      /\ UNCHANGED <<phase, host, draining, empty, under, ageing>>
  BY DEF Provision
<1>2. types \in Seq(Types)
  BY ProvisionLaunches
<1>3. from \in Nat /\ Launched = 1..from
  BY ProvisionLaunches
<1>4. \A n \in new : types[n - from] \in Types
  BY ProvisionLaunches
<1>5. \A n \in Nodes \cap new : state[n] = "none"
  BY ProvisionLaunches
<1> HIDE DEF types, from
<1>6. \A n \in Nodes : /\ n \in new => state'[n] = "LAUNCHING" /\ state[n] = "none"
                       /\ n \notin new => state'[n] = state[n] /\ type'[n] = type[n]
  BY <1>1, <1>5
<1>7. Open(state', draining') = Open(state, draining)
  BY <1>1, <1>6 DEF Open
<1>8. TypeOK'
  <2>1. state' \in [Nodes -> States]
    BY <1>1 DEF IInv, TypeOK, States
  <2>2. type' \in [Nodes -> 0..Len(Instances)]
    <3>1. Types \subseteq 0..Len(Instances)
      BY ClusterAssumption DEF Types
    <3>. QED  BY <1>1, <1>4, <3>1 DEF IInv, TypeOK
  <2>. QED  BY <1>1, <2>1, <2>2 DEF IInv, TypeOK
<1>9. LaunchOrder'
  <2>1. \A n, m \in Nodes : state'[n] # "none" /\ m < n => state'[m] # "none"
    <3> SUFFICES ASSUME NEW n \in Nodes, NEW m \in Nodes, state'[n] # "none", m < n,
                        state'[m] = "none"
                 PROVE  FALSE
      OBVIOUS
    <3>1. m \notin new /\ state[m] = "none"
      BY <1>6
    <3>2. m \notin Launched
      BY <3>1 DEF Launched
    <3>3. CASE n \in new
      BY <1>2, <1>3, <3>1, <3>2, <3>3 DEF Nodes
    <3>4. CASE n \notin new
      BY <1>6, <3>1, <3>4 DEF IInv, LaunchOrder
    <3>. QED  BY <3>3, <3>4
  <2>2. \A n \in Nodes : state'[n] # "none" => type'[n] # 0
    <3>1. 0 \notin Types
      BY DEF Types
    <3>. QED  BY <1>1, <1>4, <1>6, <3>1 DEF IInv, LaunchOrder
  <2>3. \A n \in ageing : state'[n] # "none"
    BY <1>6 DEF IInv, LaunchOrder, TypeOK
  <2>. QED  BY <1>1, <2>1, <2>2, <2>3 DEF LaunchOrder
<1>10. JobsOnLiveNodes'
  <2>1. \A j \in Jobs : phase[j] = "running" => host[j] \in Nodes /\ state[host[j]] = "READY"
    BY DEF IInv, TypeOK, JobsOnLiveNodes, Nodes
  <2>. QED  BY <1>1, <1>6, <2>1 DEF JobsOnLiveNodes
<1>11. DrainingHasJobs'
  BY <1>1, <1>6 DEF IInv, TypeOK, DrainingHasJobs, On
<1>12. TimersMatchLoad'
  BY <1>1, <1>6 DEF IInv, TimersMatchLoad, LoadOf, On
<1>13. NoIdleRoom'
  <2> SUFFICES ASSUME NEW j \in Queued(phase), NEW n \in Open(state', draining')
               PROVE  ~FitsOn(host, n, j)'
    BY <1>1 DEF NoIdleRoom, Queued, Open
  <2>1. ~FitsOn(host, n, j)
    BY <1>7 DEF IInv, NoIdleRoom
  <2>2. type'[n] = type[n]
    BY <1>6, <1>7 DEF Open
  <2>. QED  BY <1>1, <2>1, <2>2 DEF FitsOn, LoadOf, On
<1>. QED  BY <1>8, <1>9, <1>10, <1>11, <1>12, <1>13 DEF IInv

-----------------------------------------------------------------------------
(* The invariant holds in every reachable state.                           *)
THEOREM PlusClusterInvariant == Spec => []IInv
<1>1. Init => IInv
  <2> SUFFICES ASSUME Init PROVE IInv
    OBVIOUS
  <2>1. TypeOK
    BY ClusterAssumption DEF Init, TypeOK, States, Nodes
  <2>2. LaunchOrder /\ JobsOnLiveNodes /\ DrainingHasJobs /\ TimersMatchLoad
    BY DEF Init, LaunchOrder, JobsOnLiveNodes, DrainingHasJobs, TimersMatchLoad
  <2>3. NoIdleRoom
    BY DEF Init, NoIdleRoom, Queued
  <2>. QED  BY <2>1, <2>2, <2>3 DEF IInv
<1>2. IInv /\ [Next]_vars => IInv'
  <2> SUFFICES ASSUME IInv, [Next]_vars PROVE IInv'
    OBVIOUS
  <2>1. CASE Provision
    BY <2>1, ProvisionStep
  <2>2. ASSUME NEW j \in Jobs, Arrive(j) PROVE IInv'
    BY <2>2, ArriveStep
  <2>3. ASSUME NEW j \in Jobs, EndJob(j) PROVE IInv'
    BY <2>3, EndJobStep
  <2>4. ASSUME NEW n \in Nodes, NodeReady(n) PROVE IInv'
    BY <2>4, NodeReadyStep
  <2>5. ASSUME NEW n \in Nodes, EmptyFires(n) PROVE IInv'
    <3>1. On(host, n) = {} /\ state[n] # "none"
      BY <2>5, NodeWithJobs DEF EmptyFires
    <3>. QED  BY <2>5, <3>1, TerminateSafe DEF EmptyFires
  <2>6. ASSUME NEW n \in Nodes, UnderFires(n) PROVE IInv'
    <3>1. On(host, n) # {}
      BY <2>6, NodeWithJobs DEF UnderFires
    <3>. QED  BY <2>6, <3>1, DrainSafe DEF UnderFires
  <2>7. ASSUME NEW n \in Nodes, AgeFires(n) PROVE IInv'
    <3>1. state[n] # "none"
      BY <2>7 DEF AgeFires, IInv, LaunchOrder
    <3>2. CASE On(host, n) = {}
      BY <2>7, <3>1, <3>2, TerminateSafe DEF AgeFires, TerminateOrDrain
    <3>3. CASE On(host, n) # {}
      BY <2>7, <3>3, DrainSafe DEF AgeFires, TerminateOrDrain
    <3>. QED  BY <3>2, <3>3
  <2>8. CASE UNCHANGED vars
    <3>1. (TypeOK /\ LaunchOrder /\ JobsOnLiveNodes)'
      BY <2>8 DEF vars, IInv, TypeOK, LaunchOrder, JobsOnLiveNodes
    <3>2. (DrainingHasJobs /\ TimersMatchLoad)'
      BY <2>8 DEF vars, IInv, DrainingHasJobs, TimersMatchLoad, LoadOf, On
    <3>3. NoIdleRoom'
      BY <2>8 DEF vars, IInv, NoIdleRoom, Queued, Open, FitsOn, LoadOf, On
    <3>. QED  BY <3>1, <3>2, <3>3 DEF IInv
  <2>. QED  BY <2>1, <2>2, <2>3, <2>4, <2>5, <2>6, <2>7, <2>8 DEF Next, NodeStep
<1>. QED  BY <1>1, <1>2, PTL DEF Spec

(* The variables keep their types, and a job has a host exactly while it   *)
(* runs.                                                                   *)
THEOREM PlusClusterTypes == Spec => []TypeOK
<1>1. IInv => TypeOK
  BY DEF IInv
<1>. QED  BY <1>1, PlusClusterInvariant, PTL

(* No timer, consolidation or completion takes a node from under a job.    *)
THEOREM PlusJobsOnLiveNodes == Spec => []JobsOnLiveNodes
<1>1. IInv => JobsOnLiveNodes
  BY DEF IInv
<1>. QED  BY <1>1, PlusClusterInvariant, PTL

(* A node that drains has a job left whose end terminates it.              *)
THEOREM PlusDrainingHasJobs == Spec => []DrainingHasJobs
<1>1. IInv => DrainingHasJobs
  BY DEF IInv
<1>. QED  BY <1>1, PlusClusterInvariant, PTL

(* The timers of a node are in step with its load.                         *)
THEOREM PlusTimersMatchLoad == Spec => []TimersMatchLoad
<1>1. IInv => TimersMatchLoad
  BY DEF IInv
<1>. QED  BY <1>1, PlusClusterInvariant, PTL

(* No queued job waits beside an open node that has room for it.           *)
THEOREM PlusNoIdleRoom == Spec => []NoIdleRoom
<1>1. IInv => NoIdleRoom
  BY DEF IInv
<1>. QED  BY <1>1, PlusClusterInvariant, PTL

(* Whatever waits, there is a placement of it that the pass yields: no     *)
(* step that schedules is cut off.                                         *)
THEOREM PlusPassExists ==
  ASSUME NEW ph, NEW h \in [Jobs -> Nodes \cup {0}], NEW st, NEW dr
  PROVE  LET Pick(g, j) == BestFit(Open(st, dr), g, j)
         IN  \E placed \in [Queued(ph) -> Open(st, dr) \cup {0}] : GreedyPass(Queued(ph), h, placed, Pick)
<1> DEFINE C == Open(st, dr)
           H == Nodes \cup {0}
           V == C \cup {0}
           Q == Queued(ph)
           pick == [g \in [1..NumJobs -> H] |-> [j \in Q |-> BestFit(C, g, j)]]
<1>1. NumJobs \in Nat /\ Q \in SUBSET (1..NumJobs) /\ h \in [1..NumJobs -> H]
  BY ClusterAssumption DEF Jobs, Queued
<1>2. C \in SUBSET Nodes /\ V \in SUBSET H /\ 0 \in V
  BY DEF Open
<1> HIDE DEF C
<1>3. \A g, j : BestFit(C, g, j) \in V
  BY <1>2, BestFitFits
<1> HIDE DEF Q, H, V
<1>4. \A g \in [1..NumJobs -> H], j \in Q : pick[g][j] = BestFit(C, g, j) /\ pick[g][j] \in V
  BY <1>3
<1> HIDE DEF pick
<1>5. PICK placed \in [Q -> V] : \A j \in Q : placed[j] = pick[Until(j, Q, h, placed)][j]
  <2> DEFINE n == NumJobs
  <2>1. n \in Nat /\ Q \in SUBSET (1..n) /\ h \in [1..n -> H] /\ V \in SUBSET H /\ 0 \in V
    BY <1>1, <1>2
  <2>2. Picks(pick, [1..n -> H], Q, V)
    BY <1>4 DEF Picks
  <2> HIDE DEF n
  <2>3. \E placed \in [Q -> V] : Follows(placed, pick, Q, h)
    BY <2>1, <2>2, GreedyPlaces
  <2>. QED  BY <2>3 DEF Follows
<1>6. \A j \in Q : Until(j, Q, h, placed) \in [1..NumJobs -> H]
  <2>1. \A k \in Q : placed[k] \in H
    BY <1>2
  <2>2. 0 \in H
    BY DEF H
  <2>. QED  BY <1>1, <2>1, <2>2 DEF Until
<1>7. \A j \in Q : placed[j] = BestFit(C, Until(j, Q, h, placed), j)
  BY <1>4, <1>5, <1>6
<1>. QED  BY <1>5, <1>7 DEF GreedyPass, C, Q, V

-----------------------------------------------------------------------------
(* The refinement of ClusterContract.  The jobs of a node are within the   *)
(* room of its type: the second part of the inductive invariant.           *)
Hosted == \A n \in Nodes : On(host, n) # {} => On(host, n) \in Rooms[type[n]]

(* A node has room for a job when its jobs are, with that one, within its  *)
(* room.                                                                   *)
LEMMA FitsIsRoom ==
  ASSUME NEW h, NEW n, NEW j \in Jobs, h[j] # n, type[n] \in Types
  PROVE  FitsOn(h, n, j) <=> On(h, n) \cup {j} \in Rooms[type[n]]
<1> DEFINE S == On(h, n) \cup {j}
<1>1. /\ Asked(S, Soft, NumJobs) = LoadOf(h, n, Soft) + Soft[j]
      /\ Asked(S, Vcpu, NumJobs) = LoadOf(h, n, Vcpu) + Vcpu[j]
  <2>1. j \notin On(h, n)
    BY DEF On
  <2> DEFINE T == On(h, n)
  <2>2. j \notin T /\ j \in 1..NumJobs /\ NumJobs \in Nat
    BY <2>1, ClusterAssumption DEF Jobs
  <2>3. Soft \in [1..NumJobs -> Nat]
    BY ClusterAssumption DEF Jobs
  <2>4. Vcpu \in [1..NumJobs -> Nat]
    BY ClusterAssumption DEF Jobs
  <2> HIDE DEF T
  <2>5. Asked(T \cup {j}, Soft, NumJobs) = Asked(T, Soft, NumJobs) + Soft[j]
    BY <2>2, <2>3, SumAdd, ZenonT(60)
  <2>6. Asked(T \cup {j}, Vcpu, NumJobs) = Asked(T, Vcpu, NumJobs) + Vcpu[j]
    BY <2>2, <2>4, SumAdd, ZenonT(60)
  <2>. QED  BY <2>5, <2>6 DEF LoadOf, T
<1>2. S \in SUBSET Jobs
  BY DEF On
<1> HIDE DEF S
<1>3. S \in Rooms[type[n]] <=> /\ Effective(type[n]) > 0
                               /\ Asked(S, Soft, NumJobs) <= Effective(type[n])
                               /\ Asked(S, Vcpu, NumJobs) <= Instances[type[n]].vcpu
  BY <1>2 DEF Rooms
<1>. QED  BY <1>1, <1>3 DEF FitsOn, S

(* Fewer jobs are within the room of a type too.                           *)
LEMMA RoomsShrink ==
  ASSUME NEW t \in Types, NEW T \in Rooms[t], NEW S \in SUBSET T
  PROVE  S \in Rooms[t]
<1>1. T \in SUBSET Jobs /\ Effective(t) > 0 /\ Asked(T, Soft, NumJobs) <= Effective(t)
      /\ Asked(T, Vcpu, NumJobs) <= Instances[t].vcpu
  BY DEF Rooms
<1>2. /\ NumJobs \in Nat
      /\ Soft \in [1..NumJobs -> Nat] /\ Vcpu \in [1..NumJobs -> Nat]
  BY ClusterAssumption DEF Jobs
<1>3. /\ Asked(S, Soft, NumJobs) <= Asked(T, Soft, NumJobs)
      /\ Asked(S, Vcpu, NumJobs) <= Asked(T, Vcpu, NumJobs)
  BY <1>2, SumMonotone
<1>4. /\ Asked(S, Soft, NumJobs) \in Nat /\ Asked(T, Soft, NumJobs) \in Nat
      /\ Asked(S, Vcpu, NumJobs) \in Nat /\ Asked(T, Vcpu, NumJobs) \in Nat
  BY <1>2, SumType
<1>5. Effective(t) \in Int /\ Instances[t].vcpu \in Int
  <2> DEFINE inst == Instances[t]
  <2>1. inst \in [ram : Nat, vcpu : Nat \ {0}, price : Nat \ {0}]
    BY InstanceType
  <2>2. inst.ram \in Nat /\ inst.vcpu \in Nat /\ Overhead \in Nat /\ Spike \in Nat
    BY <2>1, ClusterAssumption
  <2>3. Effective(t) = IF inst.ram - Overhead - Spike > 0
                       THEN inst.ram - Overhead - Spike ELSE 0
    BY DEF Effective
  <2> HIDE DEF inst
  <2>. QED  BY <2>2, <2>3 DEF inst
<1>. QED  BY <1>1, <1>3, <1>4, <1>5 DEF Rooms

(* What _try_schedule does with the jobs that it finds at ph and on h.     *)
LEMMA ScheduledJobs ==
  ASSUME NEW ph, NEW h, NEW st, NEW dr, NEW touched,
         TypeOK, Schedulable(ph, h, st, dr, touched),
         TrySchedule(ph, h, st, dr, touched),
         \A n \in Nodes : On(h, n) # {} => On(h, n) \in Rooms[type[n]]
  PROVE  /\ \A j \in Jobs : ph[j] # "queued" => phase'[j] = ph[j] /\ host'[j] = h[j]
         /\ \A j \in Jobs : ph[j] = "queued" =>
              \/ phase'[j] = "queued" /\ host'[j] = 0
              \/ phase'[j] = "running" /\ host'[j] \in Open(st, dr)
         /\ state' = st /\ draining' = dr
         /\ \A n \in Nodes : On(host', n) # {} => On(host', n) \in Rooms[type[n]]
         /\ \A j \in Jobs, n \in Open(st, dr) : phase'[j] = "queued" =>
              {k \in On(host', n) : ph[k] = "queued" => k < j} \cup {j} \notin Rooms[type[n]]
<1> DEFINE Q == Queued(ph)
           Pick(g, j) == BestFit(Open(st, dr), g, j)
<1>1. PICK placed \in [Q -> Open(st, dr) \cup {0}] :
        /\ GreedyPass(Q, h, placed, Pick)
        /\ host' = [j \in Jobs |-> IF j \in Q THEN placed[j] ELSE h[j]]
        /\ phase' = [j \in Jobs |-> IF j \in Q /\ placed[j] # 0 THEN "running" ELSE ph[j]]
        /\ state' = st
        /\ draining' = dr
  BY DEF TrySchedule
<1> DEFINE Before(j) == Until(j, Q, h, placed)
<1>2. Open(st, dr) \subseteq Nodes /\ 0 \notin Nodes /\ Q \in SUBSET Jobs
  BY DEF Open, Nodes, Queued
<1>3. \A j \in Jobs : j \in Q <=> ph[j] = "queued"
  BY DEF Queued
<1>4. \A j \in Q : placed[j] = BestFit(Open(st, dr), Before(j), j)
  BY <1>1 DEF GreedyPass
<1>5. h \in [Jobs -> Nodes \cup {0}] /\ \A j \in Q : h[j] = 0
  BY DEF Schedulable, Queued
<1>6. \A j \in Q, k \in Jobs : Before(j)[k] = IF k \in Q THEN IF k < j THEN placed[k] ELSE 0 ELSE h[k]
  BY <1>5 DEF Until
<1>7. \A n \in Open(st, dr) : n \in Nodes /\ type[n] \in Types
  <2> TAKE n \in Open(st, dr)
  <2>1. n \in Nodes /\ type[n] # 0
    BY <1>2 DEF Schedulable, Open
  <2>2. type[n] \in 0..Len(Instances)
    BY <2>1 DEF TypeOK
  <2>3. Len(Instances) \in Nat
    BY ClusterAssumption
  <2>. QED  BY <2>1, <2>2, <2>3 DEF Types
<1> HIDE DEF Before, Q
<1>8. ASSUME NEW n \in Nodes, NEW j \in Q
      PROVE  Before(j)[j] = 0 /\ j \in Jobs /\ Before(j)[j] # n
  <2>1. j \in Jobs /\ j \in Int
    BY <1>2 DEF Jobs
  <2>. QED  BY <1>2, <1>6, <2>1
<1>9. \A n \in Nodes : On(host', n) # {} => On(host', n) \in Rooms[type[n]]
  <2> SUFFICES ASSUME NEW n \in Nodes
               PROVE  On(host', n) # {} => On(host', n) \in Rooms[type[n]]
    OBVIOUS
  <2>1. \A j \in Q : placed[j] = n => On(Before(j), n) \cup {j} \in Rooms[type[n]]
    <3> SUFFICES ASSUME NEW j \in Q, placed[j] = n
                 PROVE  On(Before(j), n) \cup {j} \in Rooms[type[n]]
      OBVIOUS
    <3>1. n \in Open(st, dr) /\ FitsOn(Before(j), n, j)
      BY <1>2, <1>4, BestFitFits
    <3>. QED  BY <1>7, <1>8, <3>1, FitsIsRoom
  <2> DEFINE N == NumJobs
             after == host'
             room == Rooms[type[n]]
  <2>2. FillsWithin(N, Q, h, placed, after, n, room)
    BY <1>1, <1>2, <1>5, <2>1, ClusterAssumption DEF Jobs, On, Before, FillsWithin
  <2> HIDE DEF N, after, room
  <2>3. {k \in 1..N : after[k] = n} # {} => {k \in 1..N : after[k] = n} \in room
    BY <2>2, PassWithin
  <2>. QED  BY <2>3 DEF N, after, room, On, Jobs
<1>10. ASSUME NEW j \in Jobs, NEW n \in Open(st, dr), phase'[j] = "queued"
       PROVE  {k \in On(host', n) : ph[k] = "queued" => k < j} \cup {j} \notin Rooms[type[n]]
  <2>1. j \in Q /\ placed[j] = 0
    BY <1>1, <1>3, <1>10
  <2>2. ~FitsOn(Before(j), n, j)
    BY <1>2, <1>4, <2>1, BestFitFits
  <2>3. On(Before(j), n) \cup {j} \notin Rooms[type[n]]
    BY <1>7, <1>8, <2>1, <2>2, FitsIsRoom
  <2>4. On(Before(j), n) = {k \in On(host', n) : ph[k] = "queued" => k < j}
    <3>1. \A k \in Jobs : host'[k] = IF k \in Q THEN placed[k] ELSE h[k]
      BY <1>1
    <3>2. \A k \in Jobs : Before(j)[k] = n <=> host'[k] = n /\ (ph[k] = "queued" => k < j)
      BY <1>2, <1>3, <1>6, <2>1, <3>1
    <3>. QED  BY <3>2 DEF On
  <2>. QED  BY <2>3, <2>4
<1>11. \A j \in Jobs : /\ ph[j] # "queued" => phase'[j] = ph[j] /\ host'[j] = h[j]
                       /\ ph[j] = "queued" =>
                            \/ phase'[j] = "queued" /\ host'[j] = 0
                            \/ phase'[j] = "running" /\ host'[j] \in Open(st, dr)
  BY <1>1, <1>3
<1>. QED  BY <1>1, <1>9, <1>10, <1>11

(* A node that hosts a job is READY and of a type of the list.             *)
LEMMA HostType ==
  ASSUME IInv, NEW n \in Nodes, state[n] # "none"
  PROVE  type[n] \in Types
<1>1. type[n] \in 0..Len(Instances) /\ type[n] # 0
  BY DEF IInv, TypeOK, LaunchOrder
<1>2. Len(Instances) \in Nat
  BY ClusterAssumption
<1>. QED  BY <1>1, <1>2 DEF Types

(* ph and h are where the jobs stand before _try_schedule and after what   *)
(* made it run: nothing has changed for a job, or it has just arrived, or  *)
(* it has just ended.                                                      *)
JobEvent(k, ph, h) ==
  \/ ph[k] = phase[k] /\ h[k] = host[k]
  \/ /\ phase[k] = "absent" /\ ph[k] = "queued" /\ h[k] = host[k]
     /\ \A i \in 1..(k-1) : phase[i] # "absent"
  \/ phase[k] = "running" /\ ph[k] = "done" /\ h[k] = 0

(* A step that schedules keeps what the contract asks of the jobs.         *)
LEMMA PassKeepsContract ==
  ASSUME IInv, IInv', Hosted, NEW ph, NEW h, NEW st, NEW dr, NEW touched,
         Schedulable(ph, h, st, dr, touched), TrySchedule(ph, h, st, dr, touched),
         type' = type, \A k \in Jobs : JobEvent(k, ph, h)
  PROVE  /\ Hosted'
         /\ \A k \in Jobs : Contract!JobStep(k)
         /\ \A n \in Nodes : Contract!WithinRoom(n)
         /\ \A k \in Jobs, n \in Nodes : Contract!FirstComeFirstServed(k, n)
         /\ \A k \in Jobs : phase'[k] # phase[k] /\ phase[k] \in {"absent", "running"}
                              => ph[k] # phase[k]
<1>1. \A n \in Nodes : On(h, n) # {} => On(h, n) \in Rooms[type[n]]
  <2> SUFFICES ASSUME NEW n \in Nodes, On(h, n) # {} PROVE On(h, n) \in Rooms[type[n]]
    OBVIOUS
  <2>1. On(h, n) \in SUBSET On(host, n)
    BY DEF On, JobEvent, Nodes
  <2>2. type[n] \in Types
    BY <2>1, NodeWithJobs, HostType
  <2>3. On(host, n) \in Rooms[type[n]]
    BY <2>1 DEF Hosted
  <2>. QED  BY <2>1, <2>2, <2>3, RoomsShrink
<1>2. /\ \A j \in Jobs : ph[j] # "queued" => phase'[j] = ph[j] /\ host'[j] = h[j]
      /\ \A j \in Jobs : ph[j] = "queued" =>
           \/ phase'[j] = "queued" /\ host'[j] = 0
           \/ phase'[j] = "running" /\ host'[j] \in Open(st, dr)
      /\ state' = st /\ draining' = dr
      /\ \A n \in Nodes : On(host', n) # {} => On(host', n) \in Rooms[type[n]]
      /\ \A j \in Jobs, n \in Open(st, dr) : phase'[j] = "queued" =>
           {k \in On(host', n) : ph[k] = "queued" => k < j} \cup {j} \notin Rooms[type[n]]
  BY <1>1, ScheduledJobs DEF IInv
<1>3. \A n \in Nodes : NodeState'[n] = "READY" <=> n \in Open(st, dr)
  BY <1>2 DEF NodeState, Open
<1>4. \A k \in Jobs : /\ phase'[k] = "running" => (ph[k] = "queued" <=> phase[k] # "running")
                      /\ phase'[k] # phase[k] /\ phase[k] \in {"absent", "running"} => ph[k] # phase[k]
  BY <1>2 DEF JobEvent
<1>5. \A k \in Jobs : host'[k] # 0 <=> phase'[k] = "running"
  BY DEF IInv, TypeOK
<1>6. ASSUME NEW k \in Jobs PROVE Contract!JobStep(k)
  <2>1. phase'[k] # phase[k] => <<phase[k], phase'[k]>> \in Contract!JobMoves
    BY <1>2 DEF JobEvent, Contract!JobMoves
  <2>2. phase'[k] # phase[k] /\ phase[k] = "absent" => \A i \in 1..(k-1) : phase[i] # "absent"
    BY <1>2 DEF JobEvent
  <2>3. /\ phase'[k] # "running" => host'[k] = 0
        /\ phase'[k] = "running" /\ phase[k] = "running" => host'[k] = host[k]
    BY <1>2, <1>4, <1>5 DEF JobEvent
  <2>4. phase[k] # "running" /\ phase'[k] = "running" =>
          host'[k] \in Nodes /\ NodeState'[host'[k]] = "READY"
    BY <1>2, <1>3, <1>4 DEF Open
  <2>. QED  BY <2>1, <2>2, <2>3, <2>4
            DEF Contract!JobStep, Contract!Moves, Contract!Starts, Contract!Nodes, Nodes
<1>7. ASSUME NEW n \in Nodes PROVE Contract!WithinRoom(n)
  <2>1. Contract!OnAfter(n) = On(host', n)
    BY DEF Contract!OnAfter, Contract!Jobs, Jobs, On
  <2>2. On(host', n) # {} => state'[n] # "none"
    BY DEF IInv, TypeOK, JobsOnLiveNodes, On, Nodes
  <2>3. On(host', n) # {} => type'[n] \in Types
    <3>1. (state[n] # "none" => type[n] \in Types)'
      <4>1. (type[n] \in 0..Len(Instances) /\ (state[n] # "none" => type[n] # 0))'
        BY DEF IInv, TypeOK, LaunchOrder
      <4>2. Len(Instances) \in Nat
        BY ClusterAssumption
      <4>. QED  BY <4>1, <4>2 DEF Types
    <3>. QED  BY <2>2, <3>1
  <2>4. On(host', n) \subseteq Jobs
    BY DEF On
  <2>. QED  BY <1>2, <2>1, <2>3, <2>4 DEF Contract!WithinRoom
<1>8. ASSUME NEW j \in Jobs, NEW n \in Nodes PROVE Contract!FirstComeFirstServed(j, n)
  <2>1. Contract!Ahead(j, n) = {k \in On(host', n) : ph[k] = "queued" => k < j}
    <3>1. Contract!OnAfter(n) = On(host', n)
      BY DEF Contract!OnAfter, Contract!Jobs, Jobs, On
    <3>2. \A k \in On(host', n) : Contract!Starts(k) <=> ph[k] = "queued"
      BY <1>4, <1>5 DEF Contract!Starts, On, Nodes
    <3>. QED  BY <3>1, <3>2 DEF Contract!Ahead
  <2>. QED  BY <1>2, <1>3, <2>1 DEF Contract!FirstComeFirstServed
<1>9. Hosted'
  BY <1>2 DEF Hosted, On
<1>. QED  BY <1>4, <1>6, <1>7, <1>8, <1>9

(* A step that moves no job and opens no node keeps it too.                *)
LEMMA QuietKeepsContract ==
  ASSUME IInv, IInv', Hosted, phase' = phase, host' = host,
         \A n \in Nodes : state[n] # "none" => type'[n] = type[n],
         Open(state', draining') \subseteq Open(state, draining)
  PROVE  /\ Hosted'
         /\ \A k \in Jobs : Contract!JobStep(k)
         /\ \A n \in Nodes : Contract!WithinRoom(n)
         /\ \A k \in Jobs, n \in Nodes : Contract!FirstComeFirstServed(k, n)
<1>1. \A n \in Nodes : On(host, n) # {} => state[n] = "READY" /\ type'[n] = type[n] /\ type[n] \in Types
  BY NodeWithJobs, HostType
<1>2. \A n \in Nodes : Contract!OnAfter(n) = On(host, n)
  BY DEF Contract!OnAfter, Contract!Jobs, Jobs, On
<1>3. Hosted'
  BY <1>1 DEF Hosted, On
<1>4. ASSUME NEW k \in Jobs PROVE Contract!JobStep(k)
  <2>1. host[k] # 0 <=> phase[k] = "running"
    BY DEF IInv, TypeOK
  <2>. QED  BY <2>1 DEF Contract!JobStep, Contract!Moves, Contract!Starts
<1>5. ASSUME NEW n \in Nodes PROVE Contract!WithinRoom(n)
  <2>1. On(host, n) \subseteq Jobs
    BY DEF On
  <2>. QED  BY <1>1, <1>2, <2>1 DEF Contract!WithinRoom, Hosted
<1>6. ASSUME NEW j \in Jobs, NEW n \in Nodes PROVE Contract!FirstComeFirstServed(j, n)
  <2> SUFFICES ASSUME phase[j] = "queued", NodeState'[n] = "READY"
               PROVE  Contract!Ahead(j, n) \cup {j} \notin Rooms[type'[n]]
    BY DEF Contract!FirstComeFirstServed
  <2>1. n \in Open(state, draining) /\ state[n] = "READY"
    BY DEF NodeState, Open
  <2>2. type'[n] = type[n] /\ type[n] \in Types
    BY <2>1, HostType
  <2>3. host[j] # n
    BY DEF IInv, TypeOK, Nodes
  <2>4. ~FitsOn(host, n, j)
    BY <2>1 DEF IInv, NoIdleRoom, Queued
  <2>5. On(host, n) \cup {j} \notin Rooms[type[n]]
    BY <2>2, <2>3, <2>4, FitsIsRoom
  <2>6. Contract!Ahead(j, n) = On(host, n)
    BY <1>2 DEF Contract!Ahead, Contract!Starts
  <2>. QED  BY <2>2, <2>5, <2>6
<1>. QED  BY <1>3, <1>4, <1>5, <1>6

(* What is left to show of a step of a node: its move, and when it is the  *)
(* turn of the node.                                                       *)
LEMMA NodeKeepsContract ==
  ASSUME IInv, IInv', NEW n \in Nodes,
         NodeState'[n] # NodeState[n] => <<NodeState[n], NodeState'[n]>> \in Contract!NodeMoves,
         state[n] = "LAUNCHING" /\ state'[n] = "READY" => \A m \in 1..(n-1) : state[m] # "LAUNCHING",
         state'[n] = "IDLE" /\ state[n] # "IDLE" => \E j \in Jobs : host[j] = n /\ phase'[j] = "done",
         state[n] # "none" => type'[n] = type[n]
  PROVE  Contract!NodeStep(n)
<1>1. /\ \A m \in Nodes : m \in draining => state[m] = "READY"
      /\ \A m \in Nodes : m \in draining' => state'[m] = "READY"
  BY DEF IInv, DrainingHasJobs
<1>2. /\ \A m \in Nodes : NodeState[m] = IF m \in draining THEN "DRAINING" ELSE state[m]
      /\ \A m \in Nodes : NodeState'[m] = IF m \in draining' THEN "DRAINING" ELSE state'[m]
  BY DEF NodeState
<1>3. NodeState[n] = "none" /\ NodeState'[n] # "none" => \A m \in 1..(n-1) : NodeState'[m] # "none"
  <2> SUFFICES ASSUME NodeState'[n] # "none", NEW m \in 1..(n-1) PROVE NodeState'[m] # "none"
    OBVIOUS
  <2>1. m \in Nodes /\ m < n
    BY ClusterAssumption DEF Nodes
  <2>2. state'[n] # "none"
    BY <1>1, <1>2
  <2>3. state'[m] # "none"
    BY <2>1, <2>2 DEF IInv, LaunchOrder
  <2>. QED  BY <1>2, <2>1, <2>3
<1>4. NodeState[n] = "LAUNCHING" /\ NodeState'[n] = "READY" =>
        \A m \in 1..(n-1) : NodeState[m] # "LAUNCHING"
  <2>1. \A m \in 1..(n-1) : m \in Nodes
    BY ClusterAssumption DEF Nodes
  <2>. QED  BY <1>1, <1>2, <2>1
<1>5. NodeState'[n] = "IDLE" /\ NodeState[n] # "IDLE" => \E j \in Jobs : host[j] = n /\ phase'[j] = "done"
  BY <1>1, <1>2
<1>6. NodeState'[n] \in {"IDLE", "TERMINATED"} => Contract!OnAfter(n) = {}
  <2>1. \A j \in Jobs : host'[j] = n => state'[n] = "READY"
    BY DEF IInv, TypeOK, JobsOnLiveNodes, Nodes
  <2>2. Contract!OnAfter(n) # {} => state'[n] = "READY"
    BY <2>1 DEF Contract!OnAfter, Contract!Jobs, Jobs
  <2>. QED  BY <1>2, <2>2
<1>7. NodeState[n] # "none" => type'[n] = type[n]
  BY <1>1, <1>2
<1>. QED  BY <1>3, <1>4, <1>5, <1>6, <1>7
          DEF Contract!NodeStep, Contract!Jobs, Jobs

(* A step that changes one node at most, and no job.                       *)
LEMMA LifeKeepsContract ==
  ASSUME IInv, IInv', Hosted, NEW n \in Nodes,
         UNCHANGED <<phase, host, type>>,
         \A m \in Nodes : m # n => state'[m] = state[m] /\ (m \in draining' <=> m \in draining),
         \/ state'[n] = "TERMINATED" /\ state[n] \in {"READY", "IDLE"}
         \/ state'[n] = state[n] /\ state[n] = "READY" /\ n \in draining'
  PROVE  Hosted' /\ Contract!Next
<1>1. \A m \in Nodes : m \in draining => state[m] = "READY"
  BY DEF IInv, DrainingHasJobs
<1>2. \A m \in Nodes : m \in draining' => state'[m] = "READY"
  BY DEF IInv, DrainingHasJobs
<1>3. Open(state', draining') \subseteq Open(state, draining)
  BY DEF Open
<1>4. /\ Hosted'
      /\ \A k \in Jobs : Contract!JobStep(k)
      /\ \A m \in Nodes : Contract!WithinRoom(m)
      /\ \A k \in Jobs, m \in Nodes : Contract!FirstComeFirstServed(k, m)
  BY <1>3, QuietKeepsContract
<1>5. ASSUME NEW m \in Nodes PROVE Contract!NodeStep(m)
  <2>1. NodeState[m] = (IF m \in draining THEN "DRAINING" ELSE state[m])
        /\ NodeState'[m] = (IF m \in draining' THEN "DRAINING" ELSE state'[m])
    BY DEF NodeState
  <2>2. NodeState'[m] # NodeState[m] => <<NodeState[m], NodeState'[m]>> \in Contract!NodeMoves
    BY <1>1, <1>2, <2>1 DEF Contract!NodeMoves
  <2>3. ~(state[m] = "LAUNCHING" /\ state'[m] = "READY") /\ ~(state'[m] = "IDLE" /\ state[m] # "IDLE")
    OBVIOUS
  <2>4. type'[m] = type[m]
    OBVIOUS
  <2>. QED  BY <2>2, <2>3, <2>4, NodeKeepsContract
<1>6. Contract!OneEvent
  <2>1. \A m \in Nodes : ~(NodeState[m] = "LAUNCHING" /\ NodeState'[m] = "READY")
    BY <1>1 DEF NodeState
  <2>. QED  BY <2>1 DEF Contract!OneEvent, Contract!Moves, Contract!Nodes, Nodes
<1>. QED  BY <1>4, <1>5, <1>6 DEF Contract!Next, Contract!Jobs, Contract!Nodes, Jobs, Nodes

(* A node whose age is timed is up: the third part.                        *)
AgeingLive == \A n \in ageing : state[n] \in {"READY", "IDLE"}

(* A job that arrives.                                                     *)
LEMMA ArriveKeepsContract ==
  ASSUME IInv, IInv', Hosted, AgeingLive, NEW j \in Jobs, Arrive(j)
  PROVE  Hosted' /\ AgeingLive' /\ Contract!Next
<1> DEFINE ph == [phase EXCEPT ![j] = "queued"]
<1>1. /\ type' = type /\ ageing' = ageing /\ phase[j] = "absent"
      /\ \A i \in 1..(j-1) : phase[i] # "absent"
      /\ TrySchedule(ph, host, state, draining, {})
      /\ Schedulable(ph, host, state, draining, {})
  BY ArriveSchedulable DEF Arrive
<1>2. state' = state /\ draining' = draining
  BY <1>1 DEF TrySchedule
<1>3. ph[j] = "queued" /\ \A k \in Jobs : k # j => ph[k] = phase[k]
  BY DEF IInv, TypeOK
<1> HIDE DEF ph
<1>4. \A k \in Jobs : JobEvent(k, ph, host)
  BY <1>1, <1>3 DEF JobEvent
<1>5. /\ Hosted'
      /\ \A k \in Jobs : Contract!JobStep(k)
      /\ \A m \in Nodes : Contract!WithinRoom(m)
      /\ \A k \in Jobs, m \in Nodes : Contract!FirstComeFirstServed(k, m)
      /\ \A k \in Jobs : phase'[k] # phase[k] /\ phase[k] \in {"absent", "running"}
                           => ph[k] # phase[k]
  BY <1>1, <1>4, PassKeepsContract
<1>6. \A m \in Nodes : NodeState'[m] = NodeState[m]
  BY <1>2 DEF NodeState
<1>7. ASSUME NEW m \in Nodes PROVE Contract!NodeStep(m)
  BY <1>1, <1>2, <1>6, NodeKeepsContract
<1>8. Contract!OneEvent
  <2>1. \A k \in Jobs : phase'[k] # phase[k] /\ phase[k] \in {"absent", "running"} => k = j
    BY <1>3, <1>5
  <2>2. \A m \in Nodes : ~(NodeState[m] = "LAUNCHING" /\ NodeState'[m] = "READY")
    BY <1>6
  <2>. QED  BY <2>1, <2>2 DEF Contract!OneEvent, Contract!Moves, Contract!Nodes, Contract!Jobs, Nodes, Jobs
<1>9. AgeingLive'
  BY <1>1, <1>2 DEF AgeingLive
<1>. QED  BY <1>5, <1>7, <1>8, <1>9 DEF Contract!Next, Contract!Jobs, Contract!Nodes, Jobs, Nodes

(* A node that has warmed up.                                              *)
LEMMA ReadyKeepsContract ==
  ASSUME IInv, IInv', Hosted, AgeingLive, NEW n \in Nodes, NodeReady(n)
  PROVE  Hosted' /\ AgeingLive' /\ Contract!Next
<1> DEFINE st == [state EXCEPT ![n] = "READY"]
<1>1. /\ type' = type /\ ageing' = ageing \cup {n} /\ state[n] = "LAUNCHING"
      /\ \A m \in 1..(n-1) : state[m] # "LAUNCHING"
      /\ st[n] = "READY" /\ \A m \in Nodes : m # n => st[m] = state[m]
      /\ TrySchedule(phase, host, st, draining, {n})
      /\ Schedulable(phase, host, st, draining, {n})
  BY ReadySchedulable DEF NodeReady
<1>2. state' = st /\ draining' = draining
  BY <1>1 DEF TrySchedule
<1> HIDE DEF st
<1>3. \A k \in Jobs : JobEvent(k, phase, host)
  BY DEF JobEvent
<1>4. /\ Hosted'
      /\ \A k \in Jobs : Contract!JobStep(k)
      /\ \A m \in Nodes : Contract!WithinRoom(m)
      /\ \A k \in Jobs, m \in Nodes : Contract!FirstComeFirstServed(k, m)
      /\ \A k \in Jobs : ~(phase'[k] # phase[k] /\ phase[k] \in {"absent", "running"})
  BY <1>1, <1>3, PassKeepsContract
<1>5. n \notin draining
  BY <1>1 DEF IInv, DrainingHasJobs
<1>6. /\ NodeState[n] = "LAUNCHING" /\ NodeState'[n] = "READY"
      /\ \A m \in Nodes : m # n => NodeState'[m] = NodeState[m] /\ state'[m] = state[m]
  BY <1>1, <1>2, <1>5 DEF NodeState
<1>7. ASSUME NEW m \in Nodes PROVE Contract!NodeStep(m)
  <2>1. NodeState'[m] # NodeState[m] => <<NodeState[m], NodeState'[m]>> \in Contract!NodeMoves
    BY <1>6 DEF Contract!NodeMoves
  <2>2. state[m] = "LAUNCHING" /\ state'[m] = "READY" => \A i \in 1..(m-1) : state[i] # "LAUNCHING"
    BY <1>1, <1>6
  <2>3. ~(state'[m] = "IDLE" /\ state[m] # "IDLE")
    BY <1>1, <1>2, <1>6
  <2>. QED  BY <1>1, <2>1, <2>2, <2>3, NodeKeepsContract
<1>8. Contract!OneEvent
  <2>1. \A m \in Nodes : NodeState[m] = "LAUNCHING" /\ NodeState'[m] = "READY" => m = n
    BY <1>6
  <2>. QED  BY <1>4, <2>1 DEF Contract!OneEvent, Contract!Moves, Contract!Nodes, Contract!Jobs, Nodes, Jobs
<1>9. AgeingLive'
  BY <1>1, <1>2, <1>6 DEF AgeingLive, IInv, TypeOK
<1>. QED  BY <1>4, <1>7, <1>8, <1>9 DEF Contract!Next, Contract!Jobs, Contract!Nodes, Jobs, Nodes

(* A job that ends: its node drains, stays, is IDLE or is let go.          *)
LEMMA EndKeepsContract ==
  ASSUME IInv, IInv', Hosted, AgeingLive, NEW j \in Jobs, EndJob(j)
  PROVE  Hosted' /\ AgeingLive' /\ Contract!Next
<1> DEFINE n == host[j]
           h == [host EXCEPT ![j] = 0]
           ph == [phase EXCEPT ![j] = "done"]
<1>1. n \in Nodes /\ state[n] = "READY" /\ phase[j] = "running" /\ type' = type
  BY EndJobSchedulable DEF EndJob
<1>2. PICK st, dr, touched :
        /\ TrySchedule(ph, h, st, dr, touched)
        /\ Schedulable(ph, h, st, dr, touched)
        /\ st[n] \in {"READY", "IDLE", "TERMINATED"}
        /\ st[n] # "READY" => n \notin dr
        /\ st[n] = "READY" /\ n \in draining => n \in dr
        /\ st[n] = "IDLE" => n \notin draining
        /\ ageing' = IF st[n] = "TERMINATED" THEN ageing \ {n} ELSE ageing
        /\ \A m \in Nodes : m # n => st[m] = state[m] /\ (m \in dr <=> m \in draining)
  BY EndJobSchedulable
<1>3. state' = st /\ draining' = dr
  BY <1>2 DEF TrySchedule
<1>4. /\ ph[j] = "done" /\ h[j] = 0
      /\ \A k \in Jobs : k # j => ph[k] = phase[k] /\ h[k] = host[k]
  BY DEF IInv, TypeOK
<1> HIDE DEF h, ph
<1>5. \A k \in Jobs : JobEvent(k, ph, h)
  BY <1>1, <1>4 DEF JobEvent
<1>6. /\ Hosted'
      /\ \A k \in Jobs : Contract!JobStep(k)
      /\ \A m \in Nodes : Contract!WithinRoom(m)
      /\ \A k \in Jobs, m \in Nodes : Contract!FirstComeFirstServed(k, m)
      /\ \A k \in Jobs : phase'[k] # phase[k] /\ phase[k] \in {"absent", "running"}
                           => ph[k] # phase[k]
  BY <1>1, <1>2, <1>5, PassKeepsContract
<1>7. phase'[j] = "done"
  BY <1>2, <1>4 DEF TrySchedule, Queued
<1>8. \A m \in Nodes : /\ NodeState[m] = (IF m \in draining THEN "DRAINING" ELSE state[m])
                       /\ NodeState'[m] = (IF m \in dr THEN "DRAINING" ELSE st[m])
  BY <1>3 DEF NodeState
<1> HIDE DEF n
<1>9. ASSUME NEW m \in Nodes PROVE Contract!NodeStep(m)
  <2>1. CASE m # n
    <3>1. NodeState'[m] = NodeState[m] /\ state'[m] = state[m]
      BY <1>2, <1>3, <1>8, <2>1
    <3>. QED  BY <1>1, <3>1, NodeKeepsContract
  <2>2. CASE m = n
    <3>1. NodeState'[m] # NodeState[m] => <<NodeState[m], NodeState'[m]>> \in Contract!NodeMoves
      BY <1>1, <1>2, <1>8, <2>2 DEF Contract!NodeMoves
    <3>2. \E k \in Jobs : host[k] = m /\ phase'[k] = "done"
      BY <1>7, <2>2 DEF n
    <3>. QED  BY <1>1, <2>2, <3>1, <3>2, NodeKeepsContract
  <2>. QED  BY <2>1, <2>2
<1>10. Contract!OneEvent
  <2>1. \A k \in Jobs : phase'[k] # phase[k] /\ phase[k] \in {"absent", "running"} => k = j
    BY <1>4, <1>6
  <2>2. \A m \in Nodes : ~(NodeState[m] = "LAUNCHING" /\ NodeState'[m] = "READY")
    BY <1>1, <1>2, <1>8
  <2>. QED  BY <2>1, <2>2 DEF Contract!OneEvent, Contract!Moves, Contract!Nodes, Contract!Jobs, Nodes, Jobs
<1>11. AgeingLive'
  <2>1. ageing \subseteq Nodes
    BY DEF IInv, TypeOK
  <2>. QED  BY <1>1, <1>2, <1>3, <2>1 DEF AgeingLive
<1>. QED  BY <1>6, <1>9, <1>10, <1>11 DEF Contract!Next, Contract!Jobs, Contract!Nodes, Jobs, Nodes

(* The nodes launched for the overflow of the queue.                       *)
LEMMA ProvisionKeepsContract ==
  ASSUME IInv, IInv', Hosted, AgeingLive, Provision
  PROVE  Hosted' /\ AgeingLive' /\ Contract!Next
<1> DEFINE types == Launches[Overflow]
           from == Cardinality(Launched)
           new == (from+1)..(from+Len(types))
<1>1. /\ state' = [n \in Nodes |-> IF n \in new THEN "LAUNCHING" ELSE state[n]]
      /\ type' = [n \in Nodes |-> IF n \in new THEN types[n - from] ELSE type[n]]
      /\ phase' = phase /\ host' = host /\ draining' = draining /\ ageing' = ageing
  BY DEF Provision
<1>2. \A n \in Nodes \cap new : state[n] = "none"
  BY ProvisionLaunches
<1> HIDE DEF types, from, new
<1>3. \A n \in Nodes : \/ state[n] = "none" /\ state'[n] = "LAUNCHING"
                       \/ state'[n] = state[n] /\ type'[n] = type[n]
  BY <1>1, <1>2
<1>4. \A n \in Nodes : n \in draining => state[n] = "READY"
  BY DEF IInv, DrainingHasJobs
<1>5. Open(state', draining') \subseteq Open(state, draining)
  BY <1>1, <1>3 DEF Open
<1>6. /\ Hosted'
      /\ \A k \in Jobs : Contract!JobStep(k)
      /\ \A m \in Nodes : Contract!WithinRoom(m)
      /\ \A k \in Jobs, m \in Nodes : Contract!FirstComeFirstServed(k, m)
  BY <1>1, <1>3, <1>5, QuietKeepsContract
<1>7. \A m \in Nodes : /\ NodeState[m] = (IF m \in draining THEN "DRAINING" ELSE state[m])
                       /\ NodeState'[m] = (IF m \in draining THEN "DRAINING" ELSE state'[m])
  BY <1>1 DEF NodeState
<1>8. ASSUME NEW m \in Nodes PROVE Contract!NodeStep(m)
  <2>1. NodeState'[m] # NodeState[m] => <<NodeState[m], NodeState'[m]>> \in Contract!NodeMoves
    BY <1>3, <1>4, <1>7 DEF Contract!NodeMoves
  <2>2. /\ ~(state[m] = "LAUNCHING" /\ state'[m] = "READY")
        /\ ~(state'[m] = "IDLE" /\ state[m] # "IDLE")
        /\ state[m] # "none" => type'[m] = type[m]
    BY <1>3
  <2>. QED  BY <2>1, <2>2, NodeKeepsContract
<1>9. Contract!OneEvent
  <2>1. \A m \in Nodes : ~(NodeState[m] = "LAUNCHING" /\ NodeState'[m] = "READY")
    BY <1>3, <1>4, <1>7
  <2>. QED  BY <1>1, <2>1 DEF Contract!OneEvent, Contract!Moves, Contract!Nodes, Nodes
<1>10. AgeingLive'
  BY <1>1, <1>3 DEF AgeingLive, IInv, TypeOK
<1>. QED  BY <1>6, <1>8, <1>9, <1>10 DEF Contract!Next, Contract!Jobs, Contract!Nodes, Jobs, Nodes

(* A timer that fires: its node is let go or drains.                       *)
LEMMA TimerKeepsContract ==
  ASSUME IInv, IInv', Hosted, AgeingLive, NEW n \in Nodes,
         EmptyFires(n) \/ UnderFires(n) \/ AgeFires(n)
  PROVE  Hosted' /\ AgeingLive' /\ Contract!Next
<1>1. UNCHANGED <<phase, host, type>>
  BY DEF EmptyFires, UnderFires, AgeFires
<1>2. /\ n \in empty => On(host, n) = {} /\ state[n] \in {"READY", "IDLE"}
      /\ n \in under => On(host, n) # {} /\ state[n] = "READY"
      /\ On(host, n) # {} => state[n] = "READY"
  BY NodeWithJobs
<1>3. n \in ageing => state[n] \in {"READY", "IDLE"}
  BY DEF AgeingLive
<1>4. \/ Terminate(n) /\ state[n] \in {"READY", "IDLE"}
      \/ /\ state' = state /\ draining' = draining \cup {n} /\ state[n] = "READY"
         /\ ageing' \subseteq ageing
  BY <1>2, <1>3 DEF EmptyFires, UnderFires, AgeFires, TerminateOrDrain
<1>5. /\ \A m \in Nodes : m # n => state'[m] = state[m] /\ (m \in draining' <=> m \in draining)
      /\ \/ state'[n] = "TERMINATED" /\ state[n] \in {"READY", "IDLE"}
         \/ state'[n] = state[n] /\ state[n] = "READY" /\ n \in draining'
  BY <1>4 DEF Terminate, IInv, TypeOK
<1>6. Hosted' /\ Contract!Next
  BY <1>1, <1>5, LifeKeepsContract
<1>7. AgeingLive'
  BY <1>4, <1>5 DEF AgeingLive, Terminate, IInv, TypeOK
<1>. QED  BY <1>6, <1>7

(* The K8S+ scheduler keeps the contract of ClusterContract: each job is   *)
(* run once, in the room of one node that is not let go under it, and no   *)
(* queued job is passed over for one that came after it.                   *)
THEOREM PlusKeepsContract == Spec => KeepsContract
<1>1. Init => Hosted /\ AgeingLive /\ Contract!Init
  <2> SUFFICES ASSUME Init PROVE Hosted /\ AgeingLive /\ Contract!Init
    OBVIOUS
  <2>1. Hosted
    BY DEF Init, Hosted, On, Nodes
  <2>2. AgeingLive
    BY DEF Init, AgeingLive
  <2>3. NodeState = [n \in Nodes |-> "none"]
    BY DEF Init, NodeState
  <2>. QED  BY <2>1, <2>2, <2>3 DEF Init, Contract!Init, Contract!Jobs, Contract!Nodes, Jobs, Nodes
<1>2. /\ IInv /\ IInv' /\ Hosted /\ AgeingLive /\ [Next]_vars
      => Hosted' /\ AgeingLive' /\ [Contract!Next]_(Contract!vars)
  <2> SUFFICES ASSUME IInv, IInv', Hosted, AgeingLive, [Next]_vars
               PROVE  Hosted' /\ AgeingLive' /\ [Contract!Next]_(Contract!vars)
    OBVIOUS
  <2>1. CASE Provision
    BY <2>1, ProvisionKeepsContract
  <2>2. ASSUME NEW j \in Jobs, Arrive(j) PROVE Hosted' /\ AgeingLive' /\ Contract!Next
    BY <2>2, ArriveKeepsContract
  <2>3. ASSUME NEW j \in Jobs, EndJob(j) PROVE Hosted' /\ AgeingLive' /\ Contract!Next
    BY <2>3, EndKeepsContract
  <2>4. ASSUME NEW n \in Nodes, NodeReady(n) PROVE Hosted' /\ AgeingLive' /\ Contract!Next
    BY <2>4, ReadyKeepsContract
  <2>5. ASSUME NEW n \in Nodes, EmptyFires(n) \/ UnderFires(n) \/ AgeFires(n)
        PROVE  Hosted' /\ AgeingLive' /\ Contract!Next
    BY <2>5, TimerKeepsContract
  <2>6. CASE UNCHANGED vars
    <3>1. Hosted' /\ AgeingLive'
      BY <2>6 DEF vars, Hosted, AgeingLive, On
    <3>2. UNCHANGED Contract!vars
      BY <2>6 DEF vars, Contract!vars, NodeState
    <3>. QED  BY <3>1, <3>2
  <2>. QED  BY <2>1, <2>2, <2>3, <2>4, <2>5, <2>6 DEF Next, NodeStep
<1>. QED  BY <1>1, <1>2, PlusClusterInvariant, PTL DEF Spec, KeepsContract, Contract!Spec
-----------------------------------------------------------------------------
(* Provisioning settles.  The first of the nodes of fit, or 0: first fit.  *)
FirstOf(fit) == IF fit = {} THEN 0 ELSE CHOOSE n \in fit : \A m \in fit : n <= m

LEMMA FirstOfIs ==
  ASSUME NEW fit \in SUBSET Nodes
  PROVE  /\ FirstOf(fit) \in fit \cup {0}
         /\ FirstOf(fit) = 0 <=> fit = {}
         /\ \A m \in fit : FirstOf(fit) <= m
         /\ \A n \in fit : (\A m \in fit : n <= m) => FirstOf(fit) = n
<1>1. 0 \notin fit /\ fit \in SUBSET Nat
  BY DEF Nodes
<1>2. CASE fit = {}
  BY <1>2 DEF FirstOf
<1>3. CASE fit # {}
  <2>1. \E n \in fit : \A m \in fit : n <= m
    BY <1>1, <1>3, LeastNat
  <2>2. FirstOf(fit) \in fit /\ \A m \in fit : FirstOf(fit) <= m
    BY <1>3, <2>1 DEF FirstOf
  <2>3. ASSUME NEW n \in fit, \A m \in fit : n <= m
        PROVE  FirstOf(fit) = n
    <3>1. n \in Nat /\ FirstOf(fit) \in Nat
      BY <1>1, <2>2
    <3>2. n <= FirstOf(fit) /\ FirstOf(fit) <= n
      BY <2>2, <2>3
    <3> HIDE DEF FirstOf
    <3>. QED  BY <3>1, <3>2
  <2>. QED  BY <1>1, <1>3, <2>2, <2>3
<1>. QED  BY <1>2, <1>3

(* placed is where the jobs of Q go by first fit, room[g][j] being the     *)
(* nodes with room for j when the jobs are on g.                           *)
Fills(placed, Q, h, room) ==
  \A j \in Q : placed[j] = FirstOf(room[Until(j, Q, h, placed)][j])

(* There is exactly one such placement.                                    *)
LEMMA FillOnce ==
  ASSUME NEW Q \in SUBSET Jobs, NEW h \in [Jobs -> Nodes \cup {0}], NEW V \in SUBSET Nodes,
         NEW room \in [[Jobs -> Nodes \cup {0}] -> [Jobs -> SUBSET V]]
  PROVE  /\ \E p \in [Q -> V \cup {0}] : Fills(p, Q, h, room)
         /\ \A p, q \in [Q -> V \cup {0}] : Fills(p, Q, h, room) /\ Fills(q, Q, h, room) => p = q
<1> DEFINE H == Nodes \cup {0}
           W == V \cup {0}
           n == NumJobs
           pick == [g \in [1..n -> H] |-> [j \in Q |-> FirstOf(room[g][j])]]
<1>1. n \in Nat /\ Q \in SUBSET (1..n) /\ h \in [1..n -> H] /\ W \in SUBSET H /\ 0 \in W
  BY ClusterAssumption DEF Jobs
<1>2. \A g \in [1..n -> H], j \in Q : pick[g][j] = FirstOf(room[g][j]) /\ pick[g][j] \in W
  <2> TAKE g \in [1..n -> H], j \in Q
  <2>1. room[g][j] \in SUBSET V
    BY DEF Jobs
  <2>2. FirstOf(room[g][j]) \in W
    BY <2>1, FirstOfIs
  <2>. QED  BY <2>2
<1> HIDE DEF pick
<1>3. \A p \in [Q -> W] : Fills(p, Q, h, room) <=> Follows(p, pick, Q, h)
  <2> TAKE p \in [Q -> W]
  <2>1. \A j \in Q : Until(j, Q, h, p) \in [1..n -> H]
    <3>1. \A k \in Q : p[k] \in H
      BY <1>1
    <3>. QED  BY <1>1, <3>1 DEF Until
  <2>2. \A j \in Q : pick[Until(j, Q, h, p)][j] = FirstOf(room[Until(j, Q, h, p)][j])
    BY <1>2, <2>1
  <2>. QED  BY <2>2 DEF Fills, Follows
<1> HIDE DEF H, W, n
<1>4. Picks(pick, [1..n -> H], Q, W)
  BY <1>2 DEF Picks
<1>5. \E p \in [Q -> W] : Follows(p, pick, Q, h)
  BY <1>1, <1>4, GreedyPlaces
<1>6. \A p, q \in [Q -> W] : Follows(p, pick, Q, h) /\ Follows(q, pick, Q, h) => p = q
  BY <1>1, GreedyUnique
<1>. QED  BY <1>3, <1>5, <1>6 DEF W

(* The nodes that count as room for j when the jobs are on g.              *)
VirtualRoom ==
  [g \in [Jobs -> Nodes \cup {0}] |-> [j \in Jobs |->
     {n \in Virtual(state, draining) : FitsOn(g, n, j)}]]

(* The overflow is what first fit leaves over.                             *)
OverflowIsLeft ==
  host \in [Jobs -> Nodes \cup {0}]
    => \A p \in [Queued(phase) -> Virtual(state, draining) \cup {0}] :
         Fills(p, Queued(phase), host, VirtualRoom)
           => Overflow = {j \in Queued(phase) : p[j] = 0}

LEMMA OverflowByFirstFit == OverflowIsLeft
<1> DEFINE Q == Queued(phase)
           V == Virtual(state, draining)
           W == V \cup {0}
           H == Nodes \cup {0}
           Pick(g, j) == LET fit == {n \in V : FitsOn(g, n, j)}
                         IN  IF fit = {} THEN 0 ELSE CHOOSE n \in fit : \A m \in fit : n <= m
           filled == CHOOSE placed \in [Q -> W] : GreedyPass(Q, host, placed, Pick)
<1> SUFFICES ASSUME host \in [Jobs -> H], NEW p \in [Q -> W], Fills(p, Q, host, VirtualRoom)
             PROVE  Overflow = {j \in Q : p[j] = 0}
  BY DEF OverflowIsLeft
<1>1. Q \in SUBSET Jobs /\ V \in SUBSET Nodes
  BY DEF Queued, Virtual
<1>2. VirtualRoom \in [[Jobs -> H] -> [Jobs -> SUBSET V]]
  BY DEF VirtualRoom
<1>3. Overflow = {j \in Q : filled[j] = 0}
  BY DEF Overflow
<1>4. \A q \in [Q -> W] : GreedyPass(Q, host, q, Pick) <=> Fills(q, Q, host, VirtualRoom)
  <2> TAKE q \in [Q -> W]
  <2>1. \A j \in Q : Until(j, Q, host, q) \in [Jobs -> H]
    <3>1. \A k \in Q : q[k] \in H
      BY <1>1
    <3>. QED  BY <3>1 DEF Until
  <2>2. \A g \in [Jobs -> H], j \in Q : Pick(g, j) = FirstOf(VirtualRoom[g][j])
    <3> TAKE g \in [Jobs -> H], j \in Q
    <3> DEFINE fit == {n \in V : FitsOn(g, n, j)}
    <3>1. j \in Jobs
      BY <1>1
    <3>2. VirtualRoom[g][j] = fit
      BY <3>1 DEF VirtualRoom
    <3>3. Pick(g, j) = FirstOf(fit)
      BY DEF FirstOf
    <3>. QED  BY <3>2, <3>3
  <2> HIDE DEF Pick
  <2>3. \A j \in Q : Pick(Until(j, Q, host, q), j) = FirstOf(VirtualRoom[Until(j, Q, host, q)][j])
    BY <2>1, <2>2
  <2>. QED  BY <2>3 DEF GreedyPass, Fills
<1> HIDE DEF Pick, Q, V, H
<1>5. filled \in [Q -> W] /\ GreedyPass(Q, host, filled, Pick)
  BY <1>4
<1>6. Fills(filled, Q, host, VirtualRoom)
  BY <1>4, <1>5
<1> HIDE DEF filled
<1>7. filled = p
  BY <1>1, <1>2, <1>5, <1>6, FillOnce DEF H
<1>. QED  BY <1>3, <1>7

LEMMA OverflowByFirstFitNext == OverflowIsLeft'
BY OverflowByFirstFit, PTL

(* A round has room for j on its i-th node beside the jobs before it.      *)
RoundRoom(S, r, types, i, j) ==
  LET before == {k \in S : k < j /\ r[k] = i}
  IN  /\ Asked(before, Soft, NumJobs) + Soft[j] <= Effective(types[i])
      /\ Asked(before, Vcpu, NumJobs) + Vcpu[j] <= Instances[types[i]].vcpu

(* r is the node of types, or 0, that each job of S is launched for: the   *)
(* first with room for it; nothing is launched for what is left.           *)
Rounds(S, r, types) ==
  /\ r \in [S -> 0..Len(types)]
  /\ \A j \in S, i \in 1..Len(types) :
       /\ r[j] = i => RoundRoom(S, r, types, i, j)
       /\ RoundRoom(S, r, types, i, j) => r[j] \in 1..i
  /\ Launches[{j \in S : r[j] = 0}] = <<>>

(* Packing node after node, as the provisioner does, is first fit.         *)
LEMMA RoundStep ==
  ASSUME NEW S \in SUBSET Jobs, S # {}, Select[S] # 0, NEW q,
         Rounds(S \ TakenBy[Select[S]][S], q, Launches[S \ TakenBy[Select[S]][S]])
  PROVE  \E r : Rounds(S, r, Launches[S])
<1> DEFINE t == Select[S]
           T == TakenBy[t][S]
           R == S \ T
           rest == Launches[R]
           r == [j \in S |-> IF j \in T THEN 1 ELSE IF q[j] = 0 THEN 0 ELSE q[j] + 1]
<1>1. t \in Types /\ T \in SUBSET S
  BY SelectTakes, TakenByType
<1>2. rest \in Seq(Types) /\ Launches[S] = <<t>> \o rest
  BY LaunchesDef
<1>3. q \in [R -> 0..Len(rest)]
  BY DEF Rounds
<1>4. \A j \in S : j \in T <=> LET before == {k \in T : k < j}
                               IN  /\ Asked(before, Soft, NumJobs) + Soft[j] <= Effective(t)
                                   /\ Asked(before, Vcpu, NumJobs) + Vcpu[j] <= Instances[t].vcpu
  <2>1. T = OneNode(S, Effective(t), Instances[t].vcpu, Soft, Vcpu, NumJobs)
    BY <1>1 DEF TakenBy
  <2>2. NumJobs \in Nat /\ S \in SUBSET (1..NumJobs)
    BY ClusterAssumption DEF Jobs
  <2> HIDE DEF T, t
  <2>. QED  BY <2>1, <2>2, OneNodeTakes
<1>5. Launches[R] = rest /\ Launches[{j \in R : q[j] = 0}] = <<>>
  BY DEF Rounds
<1>6. \A j \in R, i \in 1..Len(rest) :
        /\ q[j] = i => RoundRoom(R, q, rest, i, j)
        /\ RoundRoom(R, q, rest, i, j) => q[j] \in 1..i
  BY DEF Rounds
<1> HIDE DEF t, T, rest
<1> DEFINE types == <<t>> \o rest
<1>7. /\ Len(rest) \in Nat /\ Len(types) = Len(rest) + 1
      /\ types[1] = t /\ \A i \in 2..Len(types) : types[i] = rest[i-1]
  BY <1>1, <1>2
<1>8. /\ r \in [S -> 0..Len(types)]
      /\ \A j \in T : r[j] = 1
      /\ \A j \in R : (q[j] = 0 => r[j] = 0) /\ (q[j] # 0 => r[j] = q[j] + 1)
  BY <1>1, <1>3, <1>7
<1> HIDE DEF r, types
<1>9. \A j \in S : r[j] = 1 <=> j \in T
  BY <1>3, <1>7, <1>8
<1>10. \A j \in R, i \in 2..Len(types) : r[j] = i <=> q[j] = i-1
  BY <1>3, <1>7, <1>8
<1>11. \A j \in S : RoundRoom(S, r, types, 1, j) <=> r[j] = 1
  <2> TAKE j \in S
  <2>1. {k \in S : k < j /\ r[k] = 1} = {k \in T : k < j}
    BY <1>1, <1>9
  <2>. QED  BY <1>4, <1>7, <1>9, <2>1 DEF RoundRoom
<1>12. \A j \in S, i \in 2..Len(types) :
         RoundRoom(S, r, types, i, j) <=> RoundRoom(R, q, rest, i-1, j)
  <2> TAKE j \in S, i \in 2..Len(types)
  <2>1. {k \in S : k < j /\ r[k] = i} = {k \in R : k < j /\ q[k] = i-1}
    BY <1>8, <1>10
  <2>. QED  BY <1>7, <2>1 DEF RoundRoom
<1>13. ASSUME NEW j \in S, NEW i \in 1..Len(types)
       PROVE  /\ r[j] = i => RoundRoom(S, r, types, i, j)
              /\ RoundRoom(S, r, types, i, j) => r[j] \in 1..i
  <2>1. CASE i = 1
    BY <1>11, <2>1
  <2>2. CASE i # 1 /\ j \in T
    BY <1>8, <2>2
  <2>3. CASE i # 1 /\ j \in R
    <3>1. i \in 2..Len(types) /\ i-1 \in 1..Len(rest) /\ q[j] \in 0..Len(rest)
      BY <1>3, <1>7, <2>3
    <3>2. r[j] = i => RoundRoom(S, r, types, i, j)
      BY <1>6, <1>10, <1>12, <2>3, <3>1
    <3>3. RoundRoom(S, r, types, i, j) => q[j] \in 1..(i-1)
      BY <1>6, <1>12, <2>3, <3>1
    <3>4. RoundRoom(S, r, types, i, j) => r[j] \in 1..i
      BY <1>8, <2>3, <3>1, <3>3
    <3>. QED  BY <3>2, <3>4
  <2>. QED  BY <2>1, <2>2, <2>3
<1>14. {j \in S : r[j] = 0} = {j \in R : q[j] = 0}
  BY <1>3, <1>8
<1>15. Rounds(S, r, types)
  BY <1>5, <1>8, <1>13, <1>14 DEF Rounds
<1>. QED  BY <1>2, <1>15 DEF types

LEMMA LaunchesByRounds ==
  ASSUME NEW S \in SUBSET Jobs
  PROVE  \E r : Rounds(S, r, Launches[S])
<1> DEFINE N == {m \in Nat : \A W \in SUBSET Jobs :
                   Cardinality(W) <= m => \E r : Rounds(W, r, Launches[W])}
<1>1. IsFiniteSet(Jobs) /\ \A W \in SUBSET Jobs : IsFiniteSet(W) /\ Cardinality(W) \in Nat
  <2>1. IsFiniteSet(Jobs)
    BY ClusterAssumption, FS_Interval DEF Jobs
  <2>2. \A W \in SUBSET Jobs : IsFiniteSet(W)
    BY <2>1, FS_Subset
  <2>. QED  BY <2>1, <2>2, FS_CardinalityType
<1>2. ASSUME NEW W \in SUBSET Jobs, W = {} \/ Select[W] = 0
      PROVE  \E r : Rounds(W, r, Launches[W])
  <2> DEFINE r == [j \in W |-> 0]
  <2>1. Launches[W] = <<>>
    BY <1>2, LaunchesDef
  <2>2. r \in [W -> 0..0] /\ {j \in W : r[j] = 0} = W
    OBVIOUS
  <2> HIDE DEF r
  <2>3. Rounds(W, r, <<>>)
    BY <2>1, <2>2 DEF Rounds
  <2>. QED  BY <2>1, <2>3
<1>3. 0 \in N
  <2>1. \A W \in SUBSET Jobs : Cardinality(W) <= 0 => W = {}
    BY <1>1, FS_EmptySet
  <2>. QED  BY <1>2, <2>1
<1>4. ASSUME NEW m \in Nat, m \in N
      PROVE  m+1 \in N
  <2> SUFFICES ASSUME NEW W \in SUBSET Jobs, Cardinality(W) <= m+1
               PROVE  \E r : Rounds(W, r, Launches[W])
    OBVIOUS
  <2>1. CASE W = {} \/ Select[W] = 0
    BY <1>2, <2>1
  <2>2. CASE W # {} /\ Select[W] # 0
    <3> DEFINE T == TakenBy[Select[W]][W]
    <3>1. T \in SUBSET W /\ T # {}
      BY <2>2, SelectTakes, TakenByType
    <3>2. Cardinality(W \ T) <= m
      <4>1. /\ IsFiniteSet(W) /\ W \ T \in SUBSET W /\ W \ T # W
            /\ Cardinality(W) \in Nat /\ Cardinality(W \ T) \in Nat
        BY <1>1, <3>1
      <4> HIDE DEF T
      <4>2. Cardinality(W \ T) <= Cardinality(W) /\ Cardinality(W \ T) # Cardinality(W)
        BY <4>1, FS_Subset
      <4>. QED  BY <4>1, <4>2
    <3>3. PICK q : Rounds(W \ T, q, Launches[W \ T])
      BY <1>4, <3>2
    <3>. QED  BY <2>2, <3>3, RoundStep
  <2>. QED  BY <2>1, <2>2
<1>5. Nat \subseteq N
  <2> HIDE DEF N
  <2>. QED  BY <1>3, <1>4, NatSetInduction
<1>. QED  BY <1>1, <1>5

(* A node of type t has room for j when the jobs are on g.                 *)
RoomFor(t, g, n, j) ==
  /\ Effective(t) > 0
  /\ LoadOf(g, n, Soft) + Soft[j] <= Effective(t)
  /\ LoadOf(g, n, Vcpu) + Vcpu[j] <= Instances[t].vcpu

(* Every job requests some memory.                                         *)
MemoryAsked == \A j \in Jobs : Soft[j] > 0

(* After a pass first fit leaves over what was left over by its rounds.    *)
LEMMA ProvisionSettlesStep ==
  ASSUME MemoryAsked, IInv, Provision
  PROVE  Launches[Overflow]' = <<>>
<1> DEFINE types == Launches[Overflow]
           from == Cardinality(Launched)
           new == (from+1)..(from+Len(types))
           Q == Queued(phase)
           V == Virtual(state, draining)
           Vn == Virtual(state', draining')
           H == Nodes \cup {0}
           S == Overflow
           after == VirtualRoom'
<1>1. /\ from + Len(types) <= MaxNodes
      /\ state' = [n \in Nodes |-> IF n \in new THEN "LAUNCHING" ELSE state[n]]
      /\ type' = [n \in Nodes |-> IF n \in new THEN types[n - from] ELSE type[n]]
      /\ UNCHANGED <<phase, host, draining, empty, under, ageing>>
  BY DEF Provision
<1>2. types \in Seq(Types) /\ from \in Nat /\ Launched = 1..from
  BY ProvisionLaunches
<1>3. \A n \in new : types[n - from] \in Types
  BY ProvisionLaunches
<1>4. \A n \in Nodes \cap new : state[n] = "none"
  BY ProvisionLaunches
<1>5. S \in SUBSET Q /\ Q \in SUBSET Jobs /\ V \in SUBSET Nodes /\ Vn \in SUBSET Nodes
  BY DEF Overflow, Queued, Virtual
<1>6. PICK r : Rounds(S, r, types)
  <2>1. S \in SUBSET Jobs
    BY <1>5
  <2>. QED  BY <2>1, LaunchesByRounds
<1>7. host \in [Jobs -> H] /\ NumJobs \in Nat /\ MaxNodes \in Nat
  BY ClusterAssumption DEF IInv, TypeOK
<1>8. VirtualRoom \in [[Jobs -> H] -> [Jobs -> SUBSET V]]
  BY DEF VirtualRoom
<1>9. PICK p \in [Q -> V \cup {0}] : Fills(p, Q, host, VirtualRoom)
  BY <1>5, <1>7, <1>8, FillOnce
<1>10. S = {j \in Q : p[j] = 0}
  BY <1>7, <1>9, OverflowByFirstFit DEF OverflowIsLeft
<1> HIDE DEF types, from, S
<1>11. new \subseteq Nodes /\ \A n \in new : n \in Nat /\ n > from /\ n - from \in 1..Len(types)
  BY <1>1, <1>2, <1>7 DEF Nodes
<1>12. V \subseteq 1..from /\ Vn = V \cup new /\ V \cap new = {}
  <2>1. V \subseteq Launched
    BY DEF Virtual, Launched
  <2>2. \A n \in new : n \notin draining
    BY <1>4, <1>11 DEF IInv, DrainingHasJobs
  <2>3. \A n \in Nodes : /\ n \in new => state'[n] = "LAUNCHING"
                         /\ n \notin new => state'[n] = state[n]
    BY <1>1
  <2>4. Vn = V \cup new
    BY <1>1, <1>11, <2>2, <2>3, <1>4 DEF Virtual
  <2>. QED  BY <1>2, <1>11, <2>1, <2>4
<1>13. \A n \in new : \A j \in Jobs : host[j] # n
  BY <1>4, <1>11 DEF IInv, TypeOK, JobsOnLiveNodes, Nodes
<1> HIDE DEF V, Vn
<1> DEFINE P == [j \in Q |-> IF p[j] # 0 THEN p[j] ELSE IF r[j] # 0 THEN from + r[j] ELSE 0]
<1>14. r \in [S -> 0..Len(types)] /\ Len(types) \in Nat
  BY <1>2, <1>6 DEF Rounds
<1>15. /\ P \in [Q -> Vn \cup {0}]
       /\ \A j \in Q : /\ p[j] # 0 => P[j] = p[j]
                       /\ p[j] = 0 => j \in S /\ r[j] \in 0..Len(types)
                       /\ p[j] = 0 /\ r[j] = 0 => P[j] = 0
                       /\ p[j] = 0 /\ r[j] # 0 => P[j] = from + r[j] /\ P[j] \in new
  <2>1. \A j \in Q : p[j] = 0 => j \in S /\ r[j] \in 0..Len(types)
    BY <1>10, <1>14
  <2>2. \A j \in Q : p[j] = 0 /\ r[j] # 0 => from + r[j] \in new
    BY <1>2, <1>14, <2>1
  <2>. QED  BY <1>12, <2>1, <2>2
<1> HIDE DEF P
<1>16. after \in [[Jobs -> H] -> [Jobs -> SUBSET Vn]]
       /\ \A g \in [Jobs -> H], j \in Jobs : after[g][j] = {n \in Vn : RoomFor(type'[n], g, n, j)}
  BY DEF VirtualRoom, Vn, FitsOn, RoomFor
<1>17. \A n \in V : type'[n] = type[n]
  BY <1>1, <1>5, <1>12
<1>18. \A i \in 1..Len(types) : type'[from + i] = types[i]
  <2> TAKE i \in 1..Len(types)
  <2>1. from + i \in new /\ (from + i) - from = i
    BY <1>2, <1>14
  <2>2. from + i \in Nodes
    BY <1>11, <2>1
  <2>. QED  BY <1>1, <2>1, <2>2
<1>19. ASSUME NEW j \in Q
       PROVE  P[j] = FirstOf(after[Until(j, Q, host, P)][j])
  <2> DEFINE g == Until(j, Q, host, P)
             g0 == Until(j, Q, host, p)
  <2>1. g \in [Jobs -> H] /\ g0 \in [Jobs -> H] /\ j \in Jobs
    <3>1. \A k \in Q : P[k] \in H /\ p[k] \in H
      BY <1>5, <1>15
    <3>. QED  BY <1>5, <1>7, <3>1 DEF Until
  <2>2. \A k \in Jobs : /\ k \in Q => g[k] = IF k < j THEN P[k] ELSE 0
                        /\ k \in Q => g0[k] = IF k < j THEN p[k] ELSE 0
                        /\ k \notin Q => g[k] = host[k] /\ g0[k] = host[k]
    BY <1>7 DEF Until
  <2> HIDE DEF g, g0
  <2>3. \A n \in V : On(g, n) = On(g0, n)
    <3>1. \A n \in V, k \in Q : P[k] = n <=> p[k] = n
      BY <1>12, <1>15
    <3>. QED  BY <2>2, <3>1 DEF On
  <2>4. \A n \in V : RoomFor(type'[n], g, n, j) <=> n \in VirtualRoom[g0][j]
    <3>1. VirtualRoom[g0][j] = {n \in V : FitsOn(g0, n, j)}
      BY <2>1 DEF VirtualRoom, V
    <3>2. \A n \in V : RoomFor(type[n], g, n, j) <=> FitsOn(g0, n, j)
      BY <2>3 DEF FitsOn, RoomFor, LoadOf
    <3>. QED  BY <1>17, <3>1, <3>2
  <2>5. \A i \in 1..Len(types) : On(g, from + i) = {k \in S : k < j /\ r[k] = i}
    <3> TAKE i \in 1..Len(types)
    <3>1. from + i \in new /\ from + i # 0
      BY <1>2, <1>14
    <3>2. \A k \in Q : P[k] = from + i <=> k \in S /\ r[k] = i
      <4> TAKE k \in Q
      <4>1. CASE p[k] # 0
        <5>1. p[k] \in V /\ P[k] = p[k] /\ k \notin S
          BY <1>10, <1>15, <4>1
        <5>. QED  BY <1>12, <3>1, <5>1
      <4>2. CASE p[k] = 0
        <5>1. k \in S /\ r[k] \in 0..Len(types)
          BY <1>15, <4>2
        <5>2. P[k] = IF r[k] = 0 THEN 0 ELSE from + r[k]
          BY <1>15, <4>2
        <5>3. from \in Nat /\ i \in Nat \ {0} /\ r[k] \in Nat
          BY <1>2, <1>14, <5>1
        <5>4. P[k] = from + i <=> r[k] = i
          BY <5>2, <5>3
        <5>. QED  BY <5>1, <5>4
      <4>. QED  BY <4>1, <4>2
    <3>. QED  BY <1>5, <1>13, <2>2, <3>1, <3>2 DEF On
  <2>6. \A i \in 1..Len(types) : RoomFor(type'[from + i], g, from + i, j) <=> RoundRoom(S, r, types, i, j)
    <3> TAKE i \in 1..Len(types)
    <3> DEFINE before == {k \in S : k < j /\ r[k] = i}
               soft == Asked(before, Soft, NumJobs)
               vcpu == Asked(before, Vcpu, NumJobs)
               inst == Instances[types[i]]
    <3>1. LoadOf(g, from + i, Soft) = soft /\ LoadOf(g, from + i, Vcpu) = vcpu
      BY <2>5 DEF LoadOf
    <3>2. RoomFor(type'[from + i], g, from + i, j)
            <=> /\ Effective(types[i]) > 0
                /\ soft + Soft[j] <= Effective(types[i])
                /\ vcpu + Vcpu[j] <= inst.vcpu
      BY <1>18, <3>1 DEF RoomFor
    <3>3. RoundRoom(S, r, types, i, j) <=> /\ soft + Soft[j] <= Effective(types[i])
                                           /\ vcpu + Vcpu[j] <= inst.vcpu
      BY DEF RoundRoom
    <3>4. soft \in Nat /\ Soft[j] \in Nat /\ Soft[j] > 0
      <4>1. Soft \in [1..NumJobs -> Nat]
        BY ClusterAssumption DEF Jobs
      <4>. QED  BY <1>7, <2>1, <4>1, SumType DEF Jobs, MemoryAsked
    <3>5. Effective(types[i]) \in Int
      <4>1. types[i] \in Types
        BY <1>2
      <4>2. inst \in [ram : Nat, vcpu : Nat \ {0}, price : Nat \ {0}]
        BY <4>1, InstanceType
      <4>3. inst.ram \in Nat /\ Overhead \in Nat /\ Spike \in Nat
        BY <4>2, ClusterAssumption
      <4>4. Effective(types[i]) = IF inst.ram - Overhead - Spike > 0
                                  THEN inst.ram - Overhead - Spike ELSE 0
        BY DEF Effective
      <4> HIDE DEF inst
      <4>. QED  BY <4>3, <4>4
    <3> HIDE DEF soft, vcpu, inst
    <3>. QED  BY <3>2, <3>3, <3>4, <3>5
  <2>7. after[g][j] \in SUBSET Nodes /\ VirtualRoom[g0][j] \in SUBSET V
    BY <1>5, <1>8, <1>16, <2>1
  <2>8. \A n \in after[g][j] : \/ n \in VirtualRoom[g0][j]
                               \/ \E i \in 1..Len(types) : n = from + i /\ RoundRoom(S, r, types, i, j)
    <3> TAKE n \in after[g][j]
    <3>1. n \in Vn /\ RoomFor(type'[n], g, n, j)
      BY <1>16, <2>1
    <3>2. CASE n \in V
      BY <2>4, <3>1, <3>2
    <3>3. CASE n \in new
      <4>1. n - from \in 1..Len(types) /\ n = from + (n - from)
        BY <1>2, <1>11, <3>3
      <4>. QED  BY <2>6, <3>1, <4>1
    <3>. QED  BY <1>12, <3>1, <3>2, <3>3
  <2>9. VirtualRoom[g0][j] \subseteq after[g][j]
    <3> SUFFICES ASSUME NEW n \in VirtualRoom[g0][j] PROVE n \in after[g][j]
      OBVIOUS
    <3>1. n \in V /\ n \in Vn
      BY <1>12, <2>7
    <3>2. RoomFor(type'[n], g, n, j)
      BY <2>4, <3>1
    <3>3. after[g][j] = {m \in Vn : RoomFor(type'[m], g, m, j)}
      BY <1>16, <2>1
    <3> HIDE DEF after
    <3>. QED  BY <3>1, <3>2, <3>3
  <2>10. \A i \in 1..Len(types) : RoundRoom(S, r, types, i, j) => from + i \in after[g][j]
    <3> TAKE i \in 1..Len(types)
    <3>1. from + i \in Vn
      BY <1>2, <1>12, <1>14
    <3>. QED  BY <1>16, <2>1, <2>6, <3>1
  <2>11. p[j] = FirstOf(VirtualRoom[g0][j])
    BY <1>9 DEF Fills, g0
  <2> DEFINE old == VirtualRoom[g0][j]
             fit == after[g][j]
  <2>12. /\ old \in SUBSET Nodes /\ fit \in SUBSET Nodes
         /\ \A n \in old : n \in Nat /\ n <= from
    <3>1. \A n \in V : n \in Nat /\ n <= from
      BY <1>2, <1>12
    <3>. QED  BY <1>5, <2>7, <3>1
  <2> HIDE DEF old, fit
  <2>13. CASE p[j] # 0
    <3>1. p[j] \in old /\ \A m \in old : p[j] <= m
      BY <2>11, <2>12, <2>13, FirstOfIs DEF old
    <3>2. \A m \in fit : p[j] <= m
      <4> TAKE m \in fit
      <4>1. CASE m \in old
        BY <3>1, <4>1
      <4>2. ASSUME NEW i \in 1..Len(types), m = from + i
            PROVE  p[j] <= m
        <5>1. p[j] \in Nat /\ p[j] <= from
          BY <2>12, <3>1
        <5>. QED  BY <1>2, <1>14, <4>2, <5>1
      <4>. QED  BY <2>8, <4>1, <4>2 DEF fit, old
    <3>3. p[j] \in fit
      BY <2>9, <3>1 DEF fit, old
    <3>4. FirstOf(fit) = p[j]
      BY <2>12, <3>2, <3>3, FirstOfIs
    <3>. QED  BY <1>15, <2>13, <3>4 DEF fit, g
  <2>14. CASE p[j] = 0
    <3>1. old = {} /\ j \in S /\ r[j] \in 0..Len(types)
      BY <1>15, <2>11, <2>12, <2>14, FirstOfIs DEF old
    <3>2. \A i \in 1..Len(types) : /\ r[j] = i => RoundRoom(S, r, types, i, j)
                                   /\ RoundRoom(S, r, types, i, j) => r[j] \in 1..i
      BY <1>6, <3>1 DEF Rounds
    <3>3. \A m \in fit : r[j] # 0 /\ from + r[j] <= m
      <4> TAKE m \in fit
      <4>1. PICK i \in 1..Len(types) : m = from + i /\ RoundRoom(S, r, types, i, j)
        BY <2>8, <3>1 DEF fit, old
      <4>2. r[j] \in 1..i
        BY <3>2, <4>1
      <4>. QED  BY <1>2, <1>14, <4>1, <4>2
    <3>4. CASE r[j] = 0
      <4>1. FirstOf(fit) = 0
        BY <2>12, <3>3, <3>4, FirstOfIs
      <4>. QED  BY <1>15, <2>14, <3>4, <4>1 DEF fit, g
    <3>5. CASE r[j] # 0
      <4>1. r[j] \in 1..Len(types)
        BY <1>14, <3>1, <3>5
      <4>2. from + r[j] \in fit
        BY <2>10, <3>2, <4>1 DEF fit
      <4>3. FirstOf(fit) = from + r[j]
        BY <2>12, <3>3, <4>2, FirstOfIs
      <4>. QED  BY <1>15, <2>14, <3>5, <4>3 DEF fit, g
    <3>. QED  BY <3>4, <3>5
  <2>. QED  BY <2>13, <2>14
<1>20. Fills(P, Q, host, after)
  BY <1>19 DEF Fills
<1>21. Overflow' = {j \in Q : P[j] = 0}
  <2>1. Queued(phase') = Q /\ host' = host
    BY <1>1
  <2>2. OverflowIsLeft'
    BY OverflowByFirstFitNext
  <2>3. \A x \in [Queued(phase') -> Virtual(state', draining') \cup {0}] :
          Fills(x, Queued(phase'), host', VirtualRoom')
            => Overflow' = {j \in Queued(phase') : x[j] = 0}
    BY <1>7, <2>1, <2>2 DEF OverflowIsLeft
  <2>. QED  BY <1>15, <1>20, <2>1, <2>3 DEF Vn
<1>22. {j \in Q : P[j] = 0} = {j \in S : r[j] = 0}
  <2>1. \A j \in Q : P[j] = 0 <=> j \in S /\ r[j] = 0
    BY <1>2, <1>10, <1>15
  <2>. QED  BY <1>5, <2>1
<1>. QED  BY <1>6, <1>21, <1>22 DEF Rounds

(* One pass of the provisioner launches all that the queue asks for, when  *)
(* every job requests some memory: the nodes it launches count as room in  *)
(* the next poll.                                                          *)
THEOREM PlusProvisionSettles == MemoryAsked => (Spec => ProvisionSettles)
<1> SUFFICES ASSUME MemoryAsked PROVE Spec => ProvisionSettles
  OBVIOUS
<1>1. IInv /\ [Next]_vars => [Provision => Launches[Overflow]' = <<>>]_vars
  BY ProvisionSettlesStep
<1>. QED  BY <1>1, PlusClusterInvariant, PTL DEF Spec, ProvisionSettles

=============================================================================
