------------------------- MODULE TierClusterProofs -------------------------
(***************************************************************************)
(* Proofs about TierCluster, for any tiers, any day of windows, any jobs   *)
(* and any number of nodes: its types, that the node of a job has room for *)
(* its burst, that nodes are launched within the policies in force, and    *)
(* that a node which drains or goes was idle for as long as a rule asks.   *)
(***************************************************************************)
EXTENDS TierCluster, PackingProofs

Phases == {"absent", "queued", "running", "done", "rejected"}

States == {"none", "LAUNCHING", "READY", "IDLE", "TERMINATED"}

Clock == [wake : Nat \cup {Never}, accrued : [Thresholds -> Int],
          since : [Thresholds -> Nat \cup {Never}]]

(* What the invariants below need of types, beyond TypeOK.                 *)
Configured ==
  /\ plus \in BOOLEAN /\ windows \in Policies
  /\ load \in Workloads /\ PreflightPasses(load)
  /\ swap_at \in Nat \cup {Never}
  /\ clock \in [Nodes -> Clock]
  /\ idle_from \in [Nodes -> [Thresholds -> Nat \cup {Never}]]

(* Nodes are launched in their order, once a job has arrived.              *)
InOrder(st) == \A n, m \in Nodes : st[n] # "none" /\ m < n => st[m] # "none"

LaunchOrder ==
  /\ InOrder(state)
  /\ (\A j \in Jobs : phase[j] = "absent") => \A n \in Nodes : state[n] = "none"

(* A job that runs is on a ready node of one of its tiers, and the jobs of *)
(* a node fit beside what its tier reserves.                               *)
JobsFit(ph, h, st, tr) ==
  /\ \A j \in Jobs : h[j] # 0 <=> ph[j] = "running"
  /\ \A j \in Jobs : ph[j] = "running" =>
       st[h[j]] = "READY" /\ tier[h[j]] \in Range(tr[j])
  /\ \A n \in Nodes : On(h, n) # {} =>
       Effective(tier[n]) > 0 /\ LoadOf(h, n, Soft) <= Effective(tier[n])

TiersHost == \A j \in Jobs : Range(tiers[j]) \subseteq Hosting(j)

RejectedWarned ==
  \A j \in Jobs : phase[j] = "rejected" =>
    \/ PreflightWarns(j, load)
    \/ load.overrides[j] # <<>> \/ load.declared[j] = <<>> \/ ~load.limited[j]

(* The window of K8S is the one of the hour; at a boundary, until the      *)
(* timer has run, the one that ends there.                                 *)
WindowKept ==
  /\ swap_at # Never <=> ~plus /\ windows # <<>> /\ \E j \in Jobs : phase[j] # "absent"
  /\ swap_at # Never /\ swap_at = now =>
       /\ now > 0 /\ idx = WindowAt(now - 1)
       /\ windows[idx].end = ((now - 1) % Day) + 1
  /\ swap_at # Never /\ swap_at # now =>
       /\ idx = WindowAt(now)
       /\ swap_at = now + windows[idx].end - (now % Day)

(* A node has a clock and a history while it is up, in a day with windows. *)
HistoryKept(n) ==
  /\ clock[n] # NoClock => windows # <<>> /\ Up(state, n)
  /\ \A th \in Thresholds : idle_from[n][th] # Never =>
       /\ windows # <<>> /\ Up(state, n)
       /\ idle_from[n][th] <= now /\ th <= IdleVcpu(host, n)

(* What a timer waits for: when it runs out, a rule has been met for as    *)
(* long as it asks.                                                        *)
TimerWaits(n) ==
  clock[n].wake # Never =>
    \/ plus /\ ~Steady(tier[n])
    \/ \E r \in Rules(Queues, n) :
         /\ idle_from[n][r.idle_vcpu] # Never
         /\ clock[n].wake - idle_from[n][r.idle_vcpu] >= r.duration

(* What has accrued in K8S+ is not more than the time the node was idle.   *)
AccruedIdle(n) ==
  plus /\ Steady(tier[n]) =>
    \A th \in Thresholds :
      /\ clock[n].since[th] = Never => clock[n].accrued[th] = 0
      /\ clock[n].since[th] # Never =>
           /\ \E r \in Rules(Queues, n) : r.idle_vcpu = th
           /\ idle_from[n][th] # Never
           /\ idle_from[n][th] <= clock[n].since[th] - clock[n].accrued[th]

ClockKept(n) ==
  /\ HistoryKept(n) /\ TimerWaits(n) /\ AccruedIdle(n)
  /\ ~plus /\ n \in draining => clock[n].wake = Never

(* The inductive invariant.                                                *)
IInv ==
  /\ TypeOK /\ Configured /\ LaunchOrder
  /\ JobsFit(phase, host, state, tiers) /\ TiersHost /\ RejectedWarned
  /\ WindowKept
  /\ \A n \in Nodes : ClockKept(n)

-----------------------------------------------------------------------------
(* Every tier has its reservation and its sizes.                           *)
LEMMA TierType ==
  ASSUME NEW t \in Tiers
  PROVE  /\ TierDefs[t].spike \in Nat /\ TierDefs[t].ram \in Nat /\ TierDefs[t].vcpu \in Nat
         /\ Effective(t) \in Nat
         /\ Effective(t) > 0 => Effective(t) = TierDefs[t].ram - Overhead - TierDefs[t].spike
<1> DEFINE R == TierProfile
           ram == TierDefs[t].ram
           spike == TierDefs[t].spike
<1>1. TierDefs \in Seq(R) /\ t \in 1..Len(TierDefs) /\ Overhead \in Nat
  BY TierAssumption DEF Tiers
<1> HIDE DEF R
<1>2. TierDefs[t] \in R
  BY <1>1
<1>3. spike \in Nat /\ ram \in Nat /\ TierDefs[t].vcpu \in Nat
  BY <1>2 DEF R, TierProfile
<1>4. Effective(t) = IF ram - Overhead - spike > 0 THEN ram - Overhead - spike ELSE 0
  BY DEF Effective
<1> HIDE DEF ram, spike
<1>5. /\ Effective(t) \in Nat
      /\ Effective(t) > 0 => Effective(t) = ram - Overhead - spike
  BY <1>1, <1>3, <1>4
<1>. QED  BY <1>3, <1>5 DEF ram, spike

(* What the jobs of a node ask for is a natural.                           *)
LEMMA LoadType ==
  ASSUME NEW h, NEW n
  PROVE  LoadOf(h, n, Soft) \in Nat /\ LoadOf(h, n, Vcpu) \in Nat
<1>1. NumJobs \in Nat /\ Soft \in [1..NumJobs -> Nat] /\ Vcpu \in [1..NumJobs -> Nat]
  BY TierAssumption, NumJobsAssumption DEF Jobs
<1>. QED  BY <1>1, SumType DEF LoadOf

(* Jobs and nodes are finite sets of numbers from 1.                       *)
LEMMA Finite ==
  /\ IsFiniteSet(Jobs) /\ IsFiniteSet(Nodes) /\ IsFiniteSet(Tiers)
  /\ 0 \notin Nodes /\ 0 \notin Tiers /\ Nodes \subseteq Nat /\ Tiers \subseteq Nat
<1>1. NumJobs \in Int /\ MaxNodes \in Int /\ Len(TierDefs) \in Int
  BY TierAssumption, NumJobsAssumption
<1>. QED  BY <1>1, FS_Interval DEF Jobs, Nodes, Tiers

(* A finite set of integers has a least and a greatest.                    *)
LEMMA LeastGreatest ==
  ASSUME NEW S \in SUBSET Int, IsFiniteSet(S), S # {}
  PROVE  /\ Min(S) \in S /\ \A x \in S : Min(S) <= x
         /\ Max(S) \in S /\ \A x \in S : Max(S) >= x
<1> DEFINE Up1 == {p \in S \X S : p[1] >= p[2]}
           Down == {p \in S \X S : p[1] <= p[2]}
<1>1. \A x, y \in S : (<<x, y>> \in Up1 <=> x >= y) /\ (<<x, y>> \in Down <=> x <= y)
  OBVIOUS
<1>4. \A x, y \in S : (x >= y \/ y >= x) /\ (x <= y \/ y <= x)
  OBVIOUS
<1> HIDE DEF Up1, Down
<1>2. \E x \in S : \A y \in S : <<x, y>> \in Up1
  <2>1. \A x, y \in S : <<x, y>> \in Up1 \/ <<y, x>> \in Up1
    BY <1>1, <1>4
  <2>2. \A x, y, z \in S : <<x, y>> \in Up1 /\ <<y, z>> \in Up1 => <<x, z>> \in Up1
    BY <1>1
  <2>. QED  BY <2>1, <2>2, GreatestExists
<1>3. \E x \in S : \A y \in S : <<x, y>> \in Down
  <2>1. \A x, y \in S : <<x, y>> \in Down \/ <<y, x>> \in Down
    BY <1>1, <1>4
  <2>2. \A x, y, z \in S : <<x, y>> \in Down /\ <<y, z>> \in Down => <<x, z>> \in Down
    BY <1>1
  <2>. QED  BY <2>1, <2>2, GreatestExists
<1>. QED  BY <1>1, <1>2, <1>3 DEF Min, Max

LEMMA GreatestOfTwo ==
  ASSUME NEW a \in Int, NEW b \in Int
  PROVE  Max({a, b}) \in {a, b} /\ Max({a, b}) >= a /\ Max({a, b}) >= b
<1> DEFINE S == {a, b}
<1>1. IsFiniteSet(S)
  <2>1. S = {a} \cup {b}
    OBVIOUS
  <2>2. IsFiniteSet({a} \cup {b})
    BY FS_Singleton, FS_AddElement
  <2>. QED  BY <2>1, <2>2
<1>2. S \in SUBSET Int /\ a \in S /\ b \in S /\ S # {}
  OBVIOUS
<1>3. Max(S) \in S /\ \A x \in S : Max(S) >= x
  <2> HIDE DEF S
  <2>. QED  BY <1>1, <1>2, LeastGreatest
<1>. QED  BY <1>2, <1>3

(* The image of a finite set is finite.                                    *)
LEMMA ImageFinite ==
  ASSUME NEW S, IsFiniteSet(S), NEW f
  PROVE  IsFiniteSet({f[x] : x \in S})
<1> DEFINE T == {f[x] : x \in S}
           g == [x \in S |-> f[x]]
<1>1. g \in Surjection(S, T)
  BY DEF Surjection
<1>. QED  BY <1>1, FS_Surjection

(* _best_fit_node: a candidate that has room, or none has.                 *)
LEMMA BestFitFits ==
  ASSUME NEW candidates \in SUBSET Nodes, NEW h, NEW j
  PROVE  \/ /\ BestFit(candidates, h, j) = 0
            /\ \A n \in candidates : ~FitsOn(h, n, j)
         \/ /\ BestFit(candidates, h, j) \in candidates
            /\ FitsOn(h, BestFit(candidates, h, j), j)
<1> DEFINE fit == {n \in candidates : FitsOn(h, n, j)}
           Better(n, m) == \/ LoadOf(h, n, Soft) > LoadOf(h, m, Soft)
                           \/ LoadOf(h, n, Soft) = LoadOf(h, m, Soft) /\ n <= m
           R == {p \in fit \X fit : Better(p[1], p[2])}
<1>0. fit = {} => BestFit(candidates, h, j) = 0 /\ \A n \in candidates : ~FitsOn(h, n, j)
  BY DEF BestFit
<1> SUFFICES ASSUME fit # {}
             PROVE  /\ BestFit(candidates, h, j) \in candidates
                    /\ FitsOn(h, BestFit(candidates, h, j), j)
  BY <1>0
<1>1. fit # {}
  OBVIOUS
<1>2. IsFiniteSet(fit)
  BY Finite, FS_Subset
<1>3. \A n \in fit : LoadOf(h, n, Soft) \in Nat /\ n \in Nat
  BY Finite, LoadType
<1>4. \A n, m \in fit : <<n, m>> \in R <=> Better(n, m)
  <2> HIDE DEF Better, fit
  <2>. QED  OBVIOUS
<1> DEFINE b == CHOOSE x \in fit : \A y \in fit : Better(x, y)
<1>5. BestFit(candidates, h, j) = b
  BY <1>1 DEF BestFit
<1> HIDE DEF R, fit
<1>6. \A x, y \in fit : <<x, y>> \in R \/ <<y, x>> \in R
  <2>1. \A x, y \in fit : Better(x, y) \/ Better(y, x)
    BY <1>3
  <2> HIDE DEF Better
  <2>. QED  BY <1>4, <2>1
<1>7. \A x, y, z \in fit : <<x, y>> \in R /\ <<y, z>> \in R => <<x, z>> \in R
  BY <1>3, <1>4
<1>8. \E x \in fit : \A y \in fit : <<x, y>> \in R
  BY <1>1, <1>2, <1>6, <1>7, GreatestExists
<1>9. b \in fit
  <2> HIDE DEF Better
  <2>. QED  BY <1>4, <1>8
<1>. QED  BY <1>5, <1>9 DEF fit

-----------------------------------------------------------------------------
(* The tiers that are viable for a job are tiers that can host its burst.  *)
LEMMA ViableHost ==
  ASSUME Configured, NEW j \in Jobs
  PROVE  /\ Resolved(j) \in Seq(Nat)
         /\ Viable(j, Resolved(j)) \in Seq(Tiers)
         /\ Range(Viable(j, Resolved(j))) \subseteq Hosting(j)
         /\ \A t \in Range(Resolved(j)) \cap Hosting(j) : Viable(j, Resolved(j)) # <<>>
         /\ load.overrides[j] = <<>> /\ load.declared[j] # <<>> => Resolved(j) = load.declared[j]
<1> DEFINE Covers(o) == /\ o.start <= now % Day /\ now % Day < o.end
                        /\ o.by_bin \/ o.tiers # <<>>
           covering == {o \in Range(load.overrides[j]) : Covers(o)}
           overrides == Keep(load.overrides[j], covering)
           O == Override
           all == [t \in Tiers |-> t]
<1>1. /\ load.overrides[j] \in Seq(O)
      /\ load.declared[j] \in Seq(Nat) /\ load.default[j] \in Seq(Nat)
  BY TierAssumption DEF Configured, Workload
<1>2. all \in Seq(Nat)
  BY TierAssumption DEF Tiers
<1>3. Resolved(j) =
        CASE overrides # <<>> -> Head(overrides).tiers
          [] overrides = <<>> /\ load.declared[j] # <<>> -> load.declared[j]
          [] overrides = <<>> /\ load.declared[j] = <<>> /\ load.default[j] # <<>> -> load.default[j]
          [] OTHER -> Keep(all, Hosting(j))
  BY DEF Resolved
<1> HIDE DEF covering, O, all
<1>4. overrides \in Seq(O) /\ (load.overrides[j] = <<>> => overrides = <<>>)
  <2>1. /\ overrides \in Seq(O)
        /\ \A x : (\E k \in 1..Len(overrides) : overrides[k] = x)
                    <=> x \in covering /\ \E i \in 1..Len(load.overrides[j]) :
                                           load.overrides[j][i] = x
    BY <1>1, KeepEntries
  <2>2. overrides # <<>> => load.overrides[j] # <<>>
    <3> SUFFICES ASSUME overrides # <<>> PROVE load.overrides[j] # <<>>
      OBVIOUS
    <3>1. 1 \in 1..Len(overrides)
      BY <2>1
    <3>2. \E i \in 1..Len(load.overrides[j]) : load.overrides[j][i] = overrides[1]
      <4> HIDE DEF overrides
      <4>. QED  BY <2>1, <3>1
    <3>. QED  BY <3>2
  <2>. QED  BY <2>1, <2>2
<1> HIDE DEF overrides
<1>5. overrides # <<>> => Head(overrides).tiers \in Seq(Nat)
  <2> SUFFICES ASSUME overrides # <<>> PROVE Head(overrides).tiers \in Seq(Nat)
    OBVIOUS
  <2>1. Head(overrides) \in O
    BY <1>4
  <2>. QED  BY <2>1 DEF O, Override
<1>6. Keep(all, Hosting(j)) \in Seq(Nat)
  BY <1>2, KeepEntries
<1>7. Resolved(j) \in Seq(Nat)
  BY <1>1, <1>3, <1>5, <1>6
<1> DEFINE names == Resolved(j)
           viable == Keep(names, Hosting(j))
<1> HIDE DEF names
<1>8. /\ viable \in Seq(Nat)
      /\ \A x : (\E k \in 1..Len(viable) : viable[k] = x)
                  <=> x \in Hosting(j) /\ \E i \in 1..Len(names) : names[i] = x
  BY <1>7, KeepEntries DEF names
<1>9. \A k \in 1..Len(viable) : viable[k] \in Hosting(j)
  BY <1>8
<1>10. viable = Viable(j, Resolved(j))
  BY DEF Viable, names
<1> HIDE DEF viable
<1>11. viable \in Seq(Tiers) /\ Range(viable) \subseteq Hosting(j)
  BY <1>8, <1>9 DEF Hosting, Range
<1>12. \A t \in Range(Resolved(j)) \cap Hosting(j) : viable # <<>>
  <2> SUFFICES ASSUME NEW t \in Hosting(j), t \in Range(names) PROVE viable # <<>>
    BY DEF names
  <2>1. \E i \in 1..Len(names) : names[i] = t
    BY <1>7 DEF names, Range
  <2>2. \E k \in 1..Len(viable) : viable[k] = t
    BY <1>8, <2>1
  <2>. QED  BY <2>2
<1>13. load.overrides[j] = <<>> /\ load.declared[j] # <<>> => Resolved(j) = load.declared[j]
  BY <1>3, <1>4
<1>. QED  BY <1>7, <1>10, <1>11, <1>12, <1>13

-----------------------------------------------------------------------------
(* What an action hands to _try_schedule.                                  *)
Schedulable(ph, tr, h, st, dr) ==
  /\ ph \in [Jobs -> Phases] /\ h \in [Jobs -> Nodes \cup {0}]
  /\ st \in [Nodes -> States] /\ dr \subseteq Nodes /\ tr \in [Jobs -> Seq(Tiers)]
  /\ \A n \in Nodes : Up(st, n) => tier[n] \in Tiers
  /\ JobsFit(ph, h, st, tr)

(* _try_schedule leaves the jobs where they fit.                           *)
LEMMA Placed ==
  ASSUME NEW ph, NEW tr, NEW h, NEW st, NEW dr, NEW touched, NEW queues,
         Schedulable(ph, tr, h, st, dr),
         TrySchedule(ph, tr, h, st, dr, touched, queues)
  PROVE  /\ phase' \in [Jobs -> Phases] /\ host' \in [Jobs -> Nodes \cup {0}]
         /\ tiers' = tr /\ state' = st /\ draining' = dr
         /\ \A j \in Jobs : ph[j] # "queued" => phase'[j] = ph[j]
         /\ \A j \in Jobs : ph[j] = "queued" => phase'[j] \in {"queued", "running"}
         /\ JobsFit(phase', host', st, tr)
<1> DEFINE Pick(g, j) == BestFit(OpenTo(st, dr, tr[j]), g, j)
           Q == Queued(ph)
<1>1. PICK placed \in [Q -> {n \in Nodes : st[n] = "READY"} \cup {0}] :
        /\ GreedyPass(Q, h, placed, Pick)
        /\ host' = [j \in Jobs |-> IF j \in Q THEN placed[j] ELSE h[j]]
        /\ phase' = [j \in Jobs |-> IF j \in Q /\ placed[j] # 0 THEN "running" ELSE ph[j]]
        /\ tiers' = tr /\ state' = st /\ draining' = dr
  BY DEF TrySchedule
<1>2. Q \subseteq Jobs /\ \A j \in Jobs : j \in Q <=> ph[j] = "queued"
  BY DEF Queued
<1> HIDE DEF Q
<1>3. \A j \in Jobs :
        /\ j \in Q => host'[j] = placed[j] /\ placed[j] \in Nodes \cup {0}
        /\ j \notin Q => host'[j] = h[j] /\ phase'[j] = ph[j]
        /\ j \in Q /\ placed[j] # 0 => phase'[j] = "running"
        /\ j \in Q /\ placed[j] = 0 => phase'[j] = "queued"
  BY <1>1, <1>2
<1>4. /\ \A j \in Jobs : h[j] # 0 <=> ph[j] = "running"
      /\ \A j \in Jobs : ph[j] = "running" => st[h[j]] = "READY" /\ tier[h[j]] \in Range(tr[j])
      /\ \A n \in Nodes : On(h, n) # {} =>
           Effective(tier[n]) > 0 /\ LoadOf(h, n, Soft) <= Effective(tier[n])
      /\ ph \in [Jobs -> Phases] /\ h \in [Jobs -> Nodes \cup {0}]
  BY DEF Schedulable, JobsFit
<1>5. host' \in [Jobs -> Nodes \cup {0}] /\ phase' \in [Jobs -> Phases]
  <2>1. \A j \in Jobs : host'[j] \in Nodes \cup {0} /\ phase'[j] \in Phases
    BY <1>3, <1>4 DEF Phases
  <2>2. host' = [j \in Jobs |-> host'[j]] /\ phase' = [j \in Jobs |-> phase'[j]]
    BY <1>1
  <2>. QED  BY <2>1, <2>2
<1>6. \A j \in Q : placed[j] # 0 =>
        /\ placed[j] \in OpenTo(st, dr, tr[j])
        /\ FitsOn(Until(j, Q, h, placed), placed[j], j)
  <2> TAKE j \in Q
  <2>1. placed[j] = BestFit(OpenTo(st, dr, tr[j]), Until(j, Q, h, placed), j)
    BY <1>1 DEF GreedyPass
  <2>2. OpenTo(st, dr, tr[j]) \subseteq Nodes
    BY DEF OpenTo
  <2>. QED  BY <2>1, <2>2, BestFitFits
<1>7. \A j \in Jobs : host'[j] # 0 <=> phase'[j] = "running"
  BY <1>2, <1>3, <1>4
<1>8. ASSUME NEW j \in Jobs, phase'[j] = "running"
      PROVE  st[host'[j]] = "READY" /\ tier[host'[j]] \in Range(tr[j])
  <2>1. CASE j \in Q
    <3>1. placed[j] # 0 /\ host'[j] = placed[j]
      BY <1>3, <1>8, <2>1
    <3>. QED  BY <1>6, <2>1, <3>1 DEF OpenTo
  <2>2. CASE j \notin Q
    BY <1>3, <1>4, <1>8, <2>2
  <2>. QED  BY <2>1, <2>2
<1>9. ASSUME NEW n \in Nodes, On(host', n) # {}
      PROVE  Effective(tier[n]) > 0 /\ LoadOf(host', n, Soft) <= Effective(tier[n])
  <2> DEFINE P == {j \in Q : placed[j] = n}
  <2>1. n # 0 /\ n \in Nat
    BY Finite
  <2>2. CASE P = {}
    <3>1. On(host', n) = On(h, n)
      BY <1>2, <1>3, <1>4, <2>1, <2>2 DEF On
    <3>. QED  BY <1>4, <1>9, <3>1 DEF LoadOf
  <2>3. CASE P # {}
    <3> DEFINE last == Max(P)
               g == Until(last, Q, h, placed)
    <3>1. P \subseteq Jobs /\ P \subseteq Int /\ IsFiniteSet(P)
      <4>1. P \subseteq Jobs
        BY <1>2
      <4>2. Jobs \subseteq Int
        BY DEF Jobs
      <4> HIDE DEF P
      <4>. QED  BY <4>1, <4>2, Finite, FS_Subset
    <3>2. last \in P /\ \A k \in P : k <= last
      BY <2>3, <3>1, LeastGreatest
    <3> HIDE DEF last
    <3>3. last \in Q /\ placed[last] = n /\ last \in Jobs
      BY <1>2, <3>2
    <3>4. FitsOn(g, n, last) /\ st[n] = "READY"
      BY <1>6, <2>1, <3>3 DEF OpenTo
    <3>5. \A k \in Jobs : g[k] = IF k \in Q THEN IF k < last THEN placed[k] ELSE 0 ELSE h[k]
      BY <1>4 DEF Until
    <3> HIDE DEF g
    <3>6. last \notin On(g, n) /\ On(host', n) = On(g, n) \cup {last}
      <4>1. \A k \in Jobs : host'[k] = n <=> g[k] = n \/ k = last
        <5> TAKE k \in Jobs
        <5>1. CASE k \in Q
          <6>1. placed[k] = n => k <= last
            BY <3>2, <5>1
          <6>2. k \in Int /\ last \in Int
            BY <3>3 DEF Jobs
          <6>3. host'[k] = placed[k] /\ g[k] = IF k < last THEN placed[k] ELSE 0
            BY <1>3, <3>5, <5>1
          <6>. QED  BY <2>1, <3>3, <6>1, <6>2, <6>3
        <5>2. CASE k \notin Q
          BY <1>3, <3>3, <3>5, <5>2
        <5>. QED  BY <5>1, <5>2
      <4>2. g[last] = 0
        <5>1. last \in Int
          BY <3>3 DEF Jobs
        <5>. QED  BY <3>3, <3>5, <5>1
      <4>. QED  BY <2>1, <3>3, <4>1, <4>2 DEF On
    <3>7. LoadOf(host', n, Soft) = LoadOf(g, n, Soft) + Soft[last]
      <4>1. NumJobs \in Nat /\ Soft \in [1..NumJobs -> Nat] /\ last \in 1..NumJobs
        BY <3>3, TierAssumption, NumJobsAssumption DEF Jobs
      <4>. QED  BY <3>6, <4>1, SumAdd DEF LoadOf
    <3>8. Effective(tier[n]) > 0 /\ LoadOf(g, n, Soft) + Soft[last] <= Effective(tier[n])
      BY <3>4 DEF FitsOn
    <3>. QED  BY <3>7, <3>8
  <2>. QED  BY <2>2, <2>3
<1>10. JobsFit(phase', host', st, tr)
  BY <1>7, <1>8, <1>9 DEF JobsFit
<1>11. \A j \in Jobs : /\ ph[j] # "queued" => phase'[j] = ph[j]
                       /\ ph[j] = "queued" => phase'[j] \in {"queued", "running"}
  BY <1>2, <1>3
<1>. QED  BY <1>1, <1>5, <1>10, <1>11

-----------------------------------------------------------------------------
(* The time of day, and that of the next tick.                             *)
LEMMA TimeOfDay ==
  ASSUME NEW a \in Nat
  PROVE  /\ a % Day \in 0..(Day - 1)
         /\ (a + 1) % Day = IF (a % Day) + 1 = Day THEN 0 ELSE (a % Day) + 1
<1>1. Day \in Nat \ {0}
  BY TierAssumption
<1> DEFINE q == a \div Day
           r == a % Day
<1>2. q \in Int /\ r \in 0..(Day - 1) /\ a = Day * q + r
  BY <1>1, SMT
<1>3. ASSUME NEW x \in Int, NEW y \in 0..(Day - 1), a + 1 = Day * x + y
      PROVE  (a + 1) % Day = y
  <2> DEFINE u == (a + 1) \div Day
             v == (a + 1) % Day
  <2>1. u \in Int /\ v \in 0..(Day - 1) /\ a + 1 = Day * u + v
    BY <1>1, SMT
  <2> HIDE DEF u, v
  <2>2. Day * (x - u) = v - y
    BY <1>1, <1>3, <2>1, SMT
  <2>3. x - u >= 1 => Day * (x - u) >= Day
    BY <1>1, <2>1, SMT
  <2>4. x - u <= -1 => Day * (x - u) <= -Day
    BY <1>1, <2>1, SMT
  <2>5. x = u
    BY <1>1, <2>1, <2>2, <2>3, <2>4
  <2>6. v = y
    BY <1>1, <2>1, <2>2, <2>5
  <2>. QED  BY <2>6 DEF v
<1> HIDE DEF q, r
<1>4. CASE r + 1 = Day
  <2>1. a + 1 = Day * (q + 1) + 0 /\ q + 1 \in Int /\ 0 \in 0..(Day - 1)
    BY <1>1, <1>2, <1>4, SMT
  <2>2. (a + 1) % Day = 0
    BY <2>1, <1>3
  <2>. QED  BY <1>2, <1>4, <2>2 DEF r
<1>5. CASE r + 1 # Day
  <2>1. a + 1 = Day * q + (r + 1) /\ r + 1 \in 0..(Day - 1)
    BY <1>1, <1>2, <1>5, SMT
  <2>2. (a + 1) % Day = r + 1
    BY <1>2, <2>1, <1>3
  <2>. QED  BY <1>2, <1>5, <2>2 DEF r
<1>. QED  BY <1>4, <1>5

(* A window ends after it starts, and its tiers have policies.             *)
LEMMA WindowType ==
  ASSUME NEW p \in Policies, NEW i \in 1..Len(p)
  PROVE  /\ Len(p) \in Nat /\ p # <<>>
         /\ p[i].start \in Nat /\ p[i].end \in Nat /\ p[i].start < p[i].end
         /\ DOMAIN p[i].queues \subseteq Tiers
         /\ \A t \in DOMAIN p[i].queues : QueuePolicy(p[i].queues[t])
<1>1. ValidDay(p)
  BY TierAssumption
<1>2. p \in Seq(Range(p)) /\ TimeWindowPolicy(p[i]) /\ DOMAIN p[i].queues \subseteq Tiers
  BY <1>1 DEF ValidDay
<1>3. Len(p) \in Nat /\ p # <<>>
  BY <1>2
<1>. QED  BY <1>2, <1>3 DEF TimeWindowPolicy

(* A day starts at 0 and ends at Day, without a gap.                       *)
LEMMA DayType ==
  ASSUME NEW p \in Policies, p # <<>>
  PROVE  /\ Len(p) \in Nat \ {0} /\ p[1].start = 0 /\ p[Len(p)].end = Day
         /\ \A i \in 1..Len(p) : i < Len(p) => p[i].end = p[i+1].start
<1>1. ValidDay(p)
  BY TierAssumption
<1>2. p \in Seq(Range(p))
  BY <1>1 DEF ValidDay
<1>3. Len(p) \in Nat \ {0}
  BY <1>2
<1>4. \A i \in 1..Len(p) : i < Len(p) => i \in 1..(Len(p) - 1)
  BY <1>3
<1>. QED  BY <1>1, <1>3, <1>4 DEF ValidDay

(* The indices of the windows.                                             *)
LEMMA LastWindow ==
  ASSUME NEW p \in Policies, p # <<>>
  PROVE  Max({1, Len(p)}) = Len(p)
<1> DEFINE n == Len(p)
           m == Max({1, n})
<1>1. n \in Nat \ {0}
  BY DayType
<1> HIDE DEF n
<1>2. 1 \in Int /\ n \in Int
  BY <1>1
<1>3. m \in {1, n} /\ m >= 1 /\ m >= n
  BY ONLY <1>2, GreatestOfTwo
<1> HIDE DEF m
<1>4. m = n
  BY <1>1, <1>3
<1>. QED  BY <1>4 DEF m, n

(* The windows of a day follow each other.                                 *)
LEMMA WindowsInOrder ==
  ASSUME NEW p \in Policies, NEW i \in 1..Len(p), NEW k \in 1..Len(p), i < k
  PROVE  p[i].end <= p[k].start
<1> DEFINE S == {m \in Nat : m \in 1..Len(p) /\ i < m => p[i].end <= p[m].start}
<1>1. 0 \in S
  OBVIOUS
<1>2. ASSUME NEW m \in Nat, m \in S PROVE m+1 \in S
  <2> SUFFICES ASSUME m+1 \in 1..Len(p), i < m+1 PROVE p[i].end <= p[m+1].start
    OBVIOUS
  <2>1. m \in 1..Len(p) /\ m < Len(p)
    BY WindowType
  <2>2. p[m].end = p[m+1].start /\ p[m].start < p[m].end /\ p[m].end \in Nat /\ p[m].start \in Nat
    BY <2>1, DayType, WindowType
  <2>3. CASE i = m
    BY <2>2, <2>3
  <2>4. CASE i # m
    <3>1. p[i].end <= p[m].start
      BY <1>2, <2>1, <2>4
    <3>2. p[i].end \in Nat
      BY WindowType
    <3>. QED  BY <2>2, <3>1, <3>2
  <2>. QED  BY <2>3, <2>4
<1>3. Nat \subseteq S
  <2> HIDE DEF S
  <2>. QED  BY <1>1, <1>2, NatSetInduction
<1>4. k \in Nat
  OBVIOUS
<1>. QED  BY <1>3, <1>4

(* The window of a time of day, the only one that covers it.               *)
LEMMA WindowAtIs ==
  ASSUME windows \in Policies, windows # <<>>, NEW time \in Nat
  PROVE  /\ WindowAt(time) \in 1..Len(windows)
         /\ windows[WindowAt(time)].start <= time % Day
         /\ time % Day < windows[WindowAt(time)].end
         /\ \A i \in 1..Len(windows) :
              windows[i].start <= time % Day /\ time % Day < windows[i].end => i = WindowAt(time)
<1> DEFINE tod == time % Day
           covers == {i \in 1..Len(windows) : windows[i].start <= tod /\ tod < windows[i].end}
           later == {i \in 1..Len(windows) : tod < windows[i].end}
<1>1. WindowAt(time) = IF covers = {} THEN Len(windows) ELSE Min(covers)
  BY DEF WindowAt
<1>2. tod \in 0..(Day - 1) /\ Day \in Nat \ {0}
  BY TimeOfDay, TierAssumption
<1>3. Len(windows) \in Nat \ {0} /\ windows[1].start = 0 /\ windows[Len(windows)].end = Day
  BY DayType
<1> HIDE DEF tod
<1>4. later \subseteq Nat /\ Len(windows) \in later
  BY <1>2, <1>3
<1>5. PICK i \in later : \A k \in later : i <= k
  BY <1>4, LeastNat
<1>6. i \in covers
  <2>1. CASE i = 1
    BY <1>2, <1>3, <1>5, <2>1
  <2>2. CASE i # 1
    <3>1. i-1 \in 1..Len(windows) /\ i-1 < Len(windows) /\ i-1 \notin later
      BY <1>3, <1>5, <2>2
    <3>2. windows[i-1].end = windows[i].start
      <4>1. windows[i-1].end = windows[(i-1)+1].start
        BY <3>1, DayType
      <4>2. (i-1)+1 = i
        BY <1>5
      <4>. QED  BY <4>1, <4>2
    <3>3. windows[i-1].end \in Nat
      BY <3>1, WindowType
    <3>. QED  BY <1>2, <1>5, <3>1, <3>2, <3>3
  <2>. QED  BY <2>1, <2>2
<1>7. IsFiniteSet(covers) /\ covers \in SUBSET Int
  <2>1. IsFiniteSet(1..Len(windows))
    BY <1>3, FS_Interval
  <2>2. covers \subseteq 1..Len(windows)
    OBVIOUS
  <2>3. covers \in SUBSET Int
    BY <1>3
  <2> HIDE DEF covers
  <2>. QED  BY <2>1, <2>2, <2>3, FS_Subset
<1>8. WindowAt(time) \in covers
  <2> HIDE DEF covers
  <2>. QED  BY <1>1, <1>6, <1>7, LeastGreatest
<1>9. \A k, m \in covers : k = m
  <2> SUFFICES ASSUME NEW k \in covers, NEW m \in covers, k < m PROVE FALSE
    BY <1>3
  <2>1. windows[k].end <= windows[m].start
    BY WindowsInOrder
  <2>2. windows[k].end \in Nat /\ windows[m].start \in Nat
    BY WindowType
  <2>. QED  BY <1>2, <2>1, <2>2
<1>. QED  BY <1>8, <1>9 DEF tod

(* No window goes beyond the day.                                          *)
LEMMA WindowEnds ==
  ASSUME NEW p \in Policies, NEW i \in 1..Len(p)
  PROVE  p[i].end <= Day /\ (p[i].end = Day => i = Len(p))
<1>1. Len(p) \in Nat \ {0} /\ p[Len(p)].end = Day /\ p[i].end \in Nat
  BY WindowType, DayType
<1>2. CASE i = Len(p)
  BY <1>1, <1>2
<1>3. CASE i # Len(p)
  <2>1. i < Len(p) /\ Len(p) \in 1..Len(p)
    BY <1>1, <1>3
  <2>2. p[i].end <= p[Len(p)].start
    BY <2>1, WindowsInOrder
  <2>3. p[Len(p)].start < Day /\ p[Len(p)].start \in Nat /\ Day \in Nat
    BY <1>1, <2>1, WindowType, TierAssumption
  <2>. QED  BY <1>1, <2>2, <2>3
<1>. QED  BY <1>2, <1>3

(* The window of the next tick.                                            *)
LEMMA WindowOfNextTick ==
  ASSUME windows \in Policies, windows # <<>>, NEW time \in Nat
  PROVE  WindowAt(time + 1) = IF windows[WindowAt(time)].end = (time % Day) + 1
                              THEN WindowAfter(WindowAt(time)) ELSE WindowAt(time)
<1> DEFINE i == WindowAt(time)
           tod == time % Day
           next == (time + 1) % Day
           n == Len(windows)
<1>1. /\ i \in 1..n /\ n \in Nat \ {0} /\ n \in 1..n /\ 1 \in 1..n
      /\ windows[i].start <= tod /\ tod < windows[i].end
  BY WindowAtIs, DayType
<1>2. /\ windows[i].start \in Nat /\ windows[i].end \in Nat
      /\ windows[i].end <= Day /\ Day \in Nat \ {0}
      /\ (windows[i].end = Day => i = n)
  BY <1>1, WindowType, WindowEnds, TierAssumption
<1>3. tod \in 0..(Day - 1) /\ next = IF tod + 1 = Day THEN 0 ELSE tod + 1
  BY TimeOfDay
<1>4. \A k \in 1..n : windows[k].start <= next /\ next < windows[k].end => k = WindowAt(time + 1)
  BY WindowAtIs
<1> HIDE DEF i, tod, next
<1>5. CASE windows[i].end # tod + 1
  <2>1. next = tod + 1 /\ windows[i].start <= next /\ next < windows[i].end
    BY <1>1, <1>2, <1>3, <1>5
  <2>. QED  BY <1>1, <1>4, <1>5, <2>1 DEF i, tod
<1>6. CASE windows[i].end = tod + 1 /\ i = n
  <2>1. windows[n].end = Day /\ windows[1].start = 0
    BY DayType
  <2>2. windows[1].end \in Nat /\ windows[1].start < windows[1].end
    BY <1>1, WindowType
  <2>3. WindowAt(time + 1) = 1
    BY <1>1, <1>3, <1>4, <1>6, <2>1, <2>2
  <2>4. n % n = 0
    BY <1>1, SMT
  <2>5. WindowAfter(i) = 1
    BY <1>6, <2>4 DEF WindowAfter
  <2>. QED  BY <1>6, <2>3, <2>5 DEF i, tod
<1>7. CASE windows[i].end = tod + 1 /\ i # n
  <2>1. i < n /\ i+1 \in 1..n /\ tod + 1 # Day
    BY <1>1, <1>2, <1>7
  <2>2. windows[i].end = windows[i+1].start
    BY <1>1, <2>1, DayType
  <2>3. windows[i+1].end \in Nat /\ windows[i+1].start < windows[i+1].end
    BY <2>1, WindowType
  <2>4. WindowAt(time + 1) = i+1
    BY <1>3, <1>4, <1>7, <2>1, <2>2, <2>3
  <2>5. i % n = i
    BY <1>1, <2>1, SMT
  <2>6. WindowAfter(i) = i+1
    BY <2>5 DEF WindowAfter
  <2>. QED  BY <1>7, <2>4, <2>6 DEF i, tod
<1>. QED  BY <1>5, <1>6, <1>7

-----------------------------------------------------------------------------
(* What the clocks need of the drain rules of a tier.                      *)
RuleSet(R) ==
  /\ R \subseteq DrainRule /\ IsFiniteSet(R)
  /\ \A r \in R : r.idle_vcpu \in Thresholds

LEMMA WindowRules ==
  ASSUME windows \in Policies, NEW i \in 1..Len(windows), NEW n
  PROVE  RuleSet(Rules(windows[i].queues, n))
<1> DEFINE t == tier[n]
           q == windows[i].queues
<1>1. CASE t \notin DOMAIN q
  <2>1. Rules(q, n) = {}
    BY <1>1 DEF Rules
  <2>. QED  BY <2>1, FS_EmptySet DEF RuleSet
<1>2. CASE t \in DOMAIN q
  <2>1. QueuePolicy(q[t]) /\ Rules(q, n) = q[t].rules
    BY <1>2, WindowType DEF Rules
  <2>2. q[t].rules \subseteq DrainRule /\ IsFiniteSet(q[t].rules)
    BY <2>1 DEF QueuePolicy
  <2>3. windows[i] \in UNION {Range(p) : p \in Policies}
    <3>1. windows \in Seq(Range(windows))
      <4>1. ValidDay(windows)
        BY TierAssumption
      <4>. QED  BY <4>1 DEF ValidDay
    <3>2. windows[i] \in Range(windows)
      BY <3>1
    <3>. QED  BY <3>2
  <2>4. q \in {w.queues : w \in UNION {Range(p) : p \in Policies}}
    BY <2>3
  <2>5. \A r \in q[t].rules : r.idle_vcpu \in Thresholds
    BY <1>2, <2>4 DEF Thresholds
  <2>. QED  BY <2>1, <2>2, <2>5 DEF RuleSet
<1>. QED  BY <1>1, <1>2

(* The policies in force are those of a window, if there are any.          *)
LEMMA QueuesType ==
  ASSUME TypeOK, Configured
  PROVE  /\ windows = <<>> => Queues = [t \in Tiers |-> Default]
         /\ windows # <<>> =>
              \E i \in 1..Len(windows) :
                i = (IF plus THEN WindowAt(now) ELSE idx) /\ Queues = windows[i].queues
         /\ \A n \in Nodes : RuleSet(Rules(Queues, n))
<1>1. CASE windows = <<>>
  <2>1. Queues = [t \in Tiers |-> Default]
    BY <1>1 DEF Queues
  <2>2. \A n \in Nodes : Rules(Queues, n) = {}
    BY <2>1 DEF Rules, Default
  <2>. QED  BY <1>1, <2>1, <2>2, FS_EmptySet DEF RuleSet
<1>2. CASE windows # <<>>
  <2> DEFINE i == IF plus THEN WindowAt(now) ELSE idx
  <2>1. i \in 1..Len(windows)
    <3>1. CASE plus
      <4>1. now \in Nat
        BY TierAssumption DEF TypeOK
      <4>. QED  BY <1>2, <3>1, <4>1, WindowAtIs DEF Configured
    <3>2. CASE ~plus
      <4>1. Max({1, Len(windows)}) = Len(windows)
        BY <1>2, LastWindow DEF Configured
      <4>2. Len(windows) \in Nat \ {0}
        BY <1>2, DayType DEF Configured
      <4>. QED  BY <3>2, <4>1, <4>2 DEF TypeOK
    <3>. QED  BY <3>1, <3>2
  <2>2. Queues = windows[i].queues
    BY <1>2 DEF Queues
  <2>3. \A n \in Nodes : RuleSet(Rules(Queues, n))
    BY <2>1, <2>2, WindowRules DEF Configured
  <2>. QED  BY <1>2, <2>1, <2>2, <2>3
<1>. QED  BY <1>1, <1>2

(* A tier whose rules are the same all day.                                *)
LEMMA SteadyRules ==
  ASSUME windows \in Policies, NEW n, Steady(tier[n]),
         NEW i \in 1..Len(windows), NEW k \in 1..Len(windows)
  PROVE  Rules(windows[i].queues, n) = Rules(windows[k].queues, n)
<1>1. windows \in Seq(Range(windows))
  <2>1. ValidDay(windows)
    BY TierAssumption
  <2>. QED  BY <2>1 DEF ValidDay
<1>2. windows[i] \in Range(windows) /\ windows[k] \in Range(windows)
  BY <1>1
<1>. QED  BY <1>2 DEF Steady, Rules

(* The monitor waits for a rule that applies.                              *)
LEMMA MonitorWaits ==
  ASSUME NEW c \in Clock, NEW rules, RuleSet(rules), NEW idle \in Int, now \in Nat
  PROVE  LET d == MonitorClock(c, rules, idle)
         IN  /\ d \in Clock
             /\ d.wake # Never => d.wake >= now /\
                  \E r \in rules : idle >= r.idle_vcpu /\ d.wake = now + r.duration
<1> DEFINE applicable == {r \in rules : idle >= r.idle_vcpu}
           R == {p \in applicable \X applicable : p[2].idle_vcpu <= p[1].idle_vcpu}
           best == CHOOSE r \in applicable : \A s \in applicable : s.idle_vcpu <= r.idle_vcpu
           w == IF applicable = {} THEN Never ELSE now + best.duration
<1>1. \A r \in rules : r.idle_vcpu \in Nat /\ r.duration \in Nat
  BY DEF RuleSet, DrainRule
<1>2. MonitorClock(c, rules, idle) = [c EXCEPT !.wake = w]
  BY DEF MonitorClock
<1>3. applicable \subseteq rules /\ \A r \in applicable : idle >= r.idle_vcpu
  OBVIOUS
<1>4. IsFiniteSet(applicable)
  BY FS_Subset DEF RuleSet
<1> HIDE DEF applicable
<1>5. applicable # {} => best \in applicable
  <2> SUFFICES ASSUME applicable # {} PROVE best \in applicable
    OBVIOUS
  <2>1. \A x, y \in applicable : <<x, y>> \in R <=> y.idle_vcpu <= x.idle_vcpu
    OBVIOUS
  <2>2. \A x, y \in applicable : x.idle_vcpu <= y.idle_vcpu \/ y.idle_vcpu <= x.idle_vcpu
    BY <1>1, <1>3
  <2>3. \A x, y, z \in applicable :
          y.idle_vcpu <= x.idle_vcpu /\ z.idle_vcpu <= y.idle_vcpu => z.idle_vcpu <= x.idle_vcpu
    BY <1>1, <1>3
  <2> HIDE DEF R
  <2>4. \E x \in applicable : \A y \in applicable : <<x, y>> \in R
    <3>1. \A x, y \in applicable : <<x, y>> \in R \/ <<y, x>> \in R
      BY <2>1, <2>2
    <3>2. \A x, y, z \in applicable : <<x, y>> \in R /\ <<y, z>> \in R => <<x, z>> \in R
      BY <2>1, <2>3
    <3>. QED  BY <1>4, <3>1, <3>2, GreatestExists
  <2>5. \E x \in applicable : \A y \in applicable : y.idle_vcpu <= x.idle_vcpu
    BY <2>1, <2>4
  <2>. QED  BY <2>5
<1> HIDE DEF best
<1>6. w \in Nat \cup {Never} /\ (w # Never => w >= now /\
        \E r \in rules : idle >= r.idle_vcpu /\ w = now + r.duration)
  BY <1>1, <1>3, <1>5 DEF Never
<1> HIDE DEF w
<1>7. [c EXCEPT !.wake = w] \in Clock /\ [c EXCEPT !.wake = w].wake = w
  BY <1>6 DEF Clock
<1>. QED  BY <1>2, <1>6, <1>7

(* A threshold that is met, and one that is missed.                        *)
LEMMA PlusWaits ==
  ASSUME NEW c \in Clock, NEW rules, RuleSet(rules), rules # {}, NEW idle \in Int, now \in Nat
  PROVE  LET d == PlusClock(c, rules, idle)
             met(th) == \E r \in rules : r.idle_vcpu = th /\ idle >= th
             missed(th) == \E r \in rules : r.idle_vcpu = th /\ idle < th
         IN  /\ d \in Clock
             /\ d.wake # Never => d.wake >= now /\
                  \E r \in rules : /\ idle >= r.idle_vcpu
                                   /\ d.wake >= now + r.duration - d.accrued[r.idle_vcpu]
             /\ \A th \in Thresholds :
                  /\ d.since[th] = IF met(th) THEN now ELSE Never
                  /\ d.accrued[th] = IF missed(th) THEN 0
                                     ELSE IF c.since[th] # Never
                                          THEN c.accrued[th] + now - c.since[th] ELSE c.accrued[th]
<1> DEFINE met == {r \in rules : idle >= r.idle_vcpu}
           mets == {r.idle_vcpu : r \in met}
           missed == {r.idle_vcpu : r \in rules \ met}
           accrued == Accrued(c, missed)
           left == {r.duration - accrued[r.idle_vcpu] : r \in met}
           wake == IF met = {} THEN Never ELSE now + Max({0, Min(left)})
           since == [th \in Thresholds |-> IF th \in mets THEN now ELSE Never]
           d == PlusClock(c, rules, idle)
<1>1. \A r \in rules : r.idle_vcpu \in Nat /\ r.duration \in Nat /\ r.idle_vcpu \in Thresholds
  BY DEF RuleSet, DrainRule
<1>2. d = [wake |-> wake, accrued |-> accrued, since |-> since]
  BY DEF PlusClock
<1>3. met \subseteq rules /\ IsFiniteSet(met) /\ \A r \in met : idle >= r.idle_vcpu
  BY FS_Subset DEF RuleSet
<1>4. \A th \in Thresholds :
        /\ th \in mets <=> \E r \in rules : r.idle_vcpu = th /\ idle >= th
        /\ th \in missed <=> \E r \in rules : r.idle_vcpu = th /\ idle < th
  BY <1>1
<1>5. c.accrued \in [Thresholds -> Int] /\ c.since \in [Thresholds -> Nat \cup {Never}]
  BY DEF Clock
<1> HIDE DEF met, mets, missed
<1>6. \A th \in Thresholds :
        accrued[th] = IF th \in missed THEN 0
                      ELSE IF c.since[th] # Never
                           THEN c.accrued[th] + now - c.since[th] ELSE c.accrued[th]
  BY DEF Accrued
<1>7. accrued \in [Thresholds -> Int]
  <2>1. \A th \in Thresholds : c.accrued[th] \in Int /\ c.since[th] \in Nat \cup {Never}
    BY <1>5
  <2>2. \A th \in Thresholds : accrued[th] \in Int
    BY <1>6, <2>1 DEF Never
  <2>3. accrued = [th \in Thresholds |-> accrued[th]]
    BY DEF Accrued
  <2>. QED  BY <2>2, <2>3
<1> HIDE DEF accrued
<1>8. met # {} =>
        /\ wake \in Nat /\ wake >= now
        /\ \E r \in met : wake >= now + r.duration - accrued[r.idle_vcpu]
  <2> SUFFICES ASSUME met # {}
               PROVE  /\ wake \in Nat /\ wake >= now
                      /\ \E r \in met : wake >= now + r.duration - accrued[r.idle_vcpu]
    OBVIOUS
  <2>1. \A r \in met : r.duration - accrued[r.idle_vcpu] \in Int
    BY <1>1, <1>3, <1>7
  <2>2. IsFiniteSet(left) /\ left \in SUBSET Int /\ left # {}
    <3>1. IsFiniteSet(left)
      <4> DEFINE f == [r \in met |-> r.duration - accrued[r.idle_vcpu]]
      <4>1. left = {f[r] : r \in met}
        OBVIOUS
      <4>2. IsFiniteSet({f[r] : r \in met})
        BY <1>3, ImageFinite
      <4>. QED  BY <4>1, <4>2
    <3>. QED  BY <2>1, <3>1
  <2>3. PICK r \in met : Min(left) = r.duration - accrued[r.idle_vcpu]
    <3>1. Min(left) \in left
      BY <2>2, LeastGreatest
    <3>. QED  BY <3>1
  <2> DEFINE m == Min(left)
             S == {0, m}
  <2>4. m \in Int
    BY <2>1, <2>3
  <2> HIDE DEF left, m
  <2>5. Max(S) \in S /\ Max(S) >= 0 /\ Max(S) >= m
    BY <2>4, GreatestOfTwo
  <2>6. wake = now + Max(S)
    BY DEF m
  <2>7. Max(S) \in Int
    BY <2>4, <2>5
  <2> HIDE DEF S, wake
  <2>8. wake \in Nat /\ wake >= now /\ wake >= now + m
    BY <2>4, <2>5, <2>6, <2>7
  <2>9. wake >= now + r.duration - accrued[r.idle_vcpu]
    BY <1>1, <1>3, <2>1, <2>3, <2>4, <2>8 DEF m
  <2>. QED  BY <2>8, <2>9
<1>9. met = {} => wake = Never
  OBVIOUS
<1> HIDE DEF wake
<1>10. d \in Clock /\ d.wake = wake /\ d.accrued = accrued /\ d.since = since
  <2>1. wake \in Nat \cup {Never}
    BY <1>8, <1>9
  <2>2. since \in [Thresholds -> Nat \cup {Never}]
    OBVIOUS
  <2> HIDE DEF since, d
  <2>. QED  BY <1>2, <1>7, <2>1, <2>2 DEF Clock
<1>11. \A th \in Thresholds : since[th] = IF th \in mets THEN now ELSE Never
  OBVIOUS
<1> HIDE DEF d, since
<1>12. d.wake # Never => d.wake >= now /\
         \E r \in rules : /\ idle >= r.idle_vcpu
                          /\ d.wake >= now + r.duration - d.accrued[r.idle_vcpu]
  BY <1>3, <1>8, <1>9, <1>10
<1>. QED  BY <1>4, <1>6, <1>10, <1>11, <1>12 DEF d

-----------------------------------------------------------------------------
(* The vCPUs of a node that are idle.                                      *)
LEMMA IdleType ==
  ASSUME NEW h, NEW n, tier[n] \in Tiers
  PROVE  IdleVcpu(h, n) \in Int
<1>1. TierDefs[tier[n]].vcpu \in Nat /\ LoadOf(h, n, Vcpu) \in Nat
  BY TierType, LoadType
<1>. QED  BY <1>1 DEF IdleVcpu

(* A step from which n goes on with its clock, or is no longer up.         *)
GoesOn(n, st, dr, updated, queues) ==
  /\ RuleSet(Rules(queues, n)) /\ RuleSet(Rules(Queues, n))
  /\ Up(st, n) => tier[n] \in Tiers
  /\ n \in dr => n \in draining
  /\ n \notin updated => On(host', n) = On(host, n) /\ Rules(queues, n) = Rules(Queues, n)
  /\ plus /\ windows # <<>> /\ Steady(tier[n]) => Rules(queues, n) = Rules(Queues, n)

(* The clock and the history of a node that is not up.                     *)
LEMMA NoClockType ==
  /\ NoClock \in Clock /\ NoClock.wake = Never
  /\ \A th \in Thresholds : NoClock.accrued[th] = 0 /\ NoClock.since[th] = Never
BY DEF NoClock, Clock, Never

(* What _update_drain_state and _drain_monitor leave of a node's clock.    *)
ClockAfter(n, c, from, st, dr, queues) ==
  /\ c \in Clock /\ from \in [Thresholds -> Nat \cup {Never}]
  /\ c.wake = Never \/ c.wake >= now
  /\ c # NoClock => windows # <<>> /\ Up(st, n)
  /\ \A th \in Thresholds : from[th] # Never =>
       windows # <<>> /\ Up(st, n) /\ from[th] <= now /\ th <= IdleVcpu(host', n)
  /\ c.wake # Never =>
       \/ plus /\ ~Steady(tier[n])
       \/ \E r \in Rules(queues, n) :
            from[r.idle_vcpu] # Never /\ c.wake - from[r.idle_vcpu] >= r.duration
  /\ plus /\ Steady(tier[n]) =>
       \A th \in Thresholds :
         /\ c.since[th] = Never => c.accrued[th] = 0
         /\ c.since[th] # Never =>
              /\ \E r \in Rules(queues, n) : r.idle_vcpu = th
              /\ from[th] # Never /\ from[th] <= c.since[th] - c.accrued[th]
  /\ ~plus /\ n \in dr => c.wake = Never

LEMMA ClockStep ==
  ASSUME TypeOK, Configured, NEW n \in Nodes, ClockKept(n),
         NEW st, NEW dr, NEW updated, NEW queues, NEW d,
         d = (IF windows = <<>> \/ ~Up(st, n) THEN NoClock
              ELSE IF n \in updated /\ (plus \/ n \notin dr)
                   THEN IF plus THEN PlusClock(clock[n], Rules(queues, n), IdleVcpu(host', n))
                        ELSE MonitorClock(clock[n], Rules(queues, n), IdleVcpu(host', n))
              ELSE clock[n]),
         History(host', st), GoesOn(n, st, dr, updated, queues)
  PROVE  ClockAfter(n, d, idle_from'[n], st, dr, queues)
<1> DEFINE c == clock[n]
           from == idle_from[n]
           into == idle_from'[n]
           idle == IdleVcpu(host', n)
           rules == Rules(queues, n)
           Again == n \in updated /\ (plus \/ n \notin dr)
<1>1. now \in Nat /\ c \in Clock /\ from \in [Thresholds -> Nat \cup {Never}]
      /\ (c.wake = Never \/ c.wake >= now)
  BY TierAssumption DEF TypeOK, Configured
<1>2. d = IF windows = <<>> \/ ~Up(st, n) THEN NoClock
          ELSE IF Again THEN IF plus THEN PlusClock(c, rules, idle)
                             ELSE MonitorClock(c, rules, idle)
          ELSE c
  OBVIOUS
<1>3. /\ into = [th \in Thresholds |->
                   IF Up(st, n) /\ windows # <<>> THEN
                     IF idle < th THEN Never ELSE IF from[th] = Never THEN now ELSE from[th]
                   ELSE Never]
  BY DEF History
<1>4. RuleSet(rules) /\ RuleSet(Rules(Queues, n)) /\ Thresholds \subseteq Nat
  <2>1. Thresholds \subseteq Nat
    <3> SUFFICES ASSUME NEW p \in Policies, NEW w \in Range(p), NEW t \in DOMAIN w.queues,
                        NEW r \in w.queues[t].rules
                 PROVE  r.idle_vcpu \in Nat
      BY DEF Thresholds
    <3>1. PICK i \in 1..Len(p) : w = p[i]
      <4>1. ValidDay(p)
        BY TierAssumption
      <4>2. p \in Seq(Range(p))
        BY <4>1 DEF ValidDay
      <4>. QED  BY <4>2 DEF Range
    <3>2. QueuePolicy(w.queues[t])
      BY <3>1, WindowType
    <3>. QED  BY <3>2 DEF QueuePolicy, DrainRule
  <2>. QED  BY <2>1 DEF GoesOn
<1>5. \A r \in rules \cup Rules(Queues, n) :
        r.idle_vcpu \in Thresholds /\ r.idle_vcpu \in Nat /\ r.duration \in Nat
  BY <1>4 DEF RuleSet, DrainRule
<1>6. CASE windows = <<>> \/ ~Up(st, n)
  <2>1. d = NoClock /\ into = [th \in Thresholds |-> Never]
    BY <1>2, <1>3, <1>6
  <2> HIDE DEF into
  <2>2. ClockAfter(n, d, into, st, dr, queues)
    BY <2>1, NoClockType DEF ClockAfter
  <2>. QED  BY <2>2 DEF into
<1>7. CASE windows # <<>> /\ Up(st, n)
  <2>1. idle \in Int
    BY <1>7, IdleType DEF GoesOn
  <2>2. /\ \A th \in Thresholds :
             into[th] = IF idle < th THEN Never ELSE IF from[th] = Never THEN now ELSE from[th]
        /\ into \in [Thresholds -> Nat \cup {Never}]
    BY <1>1, <1>3, <1>7
  <2>3. /\ \A th \in Thresholds : from[th] # Never => from[th] <= now /\ th <= IdleVcpu(host, n)
        /\ c.wake # Never =>
             \/ plus /\ ~Steady(tier[n])
             \/ \E r \in Rules(Queues, n) :
                  from[r.idle_vcpu] # Never /\ c.wake - from[r.idle_vcpu] >= r.duration
        /\ plus /\ Steady(tier[n]) =>
             \A th \in Thresholds :
               /\ c.since[th] = Never => c.accrued[th] = 0
               /\ c.since[th] # Never =>
                    /\ \E r \in Rules(Queues, n) : r.idle_vcpu = th
                    /\ from[th] # Never /\ from[th] <= c.since[th] - c.accrued[th]
        /\ ~plus /\ n \in draining => c.wake = Never
    BY DEF ClockKept, HistoryKept, TimerWaits, AccruedIdle
  <2>4. /\ \A th \in Thresholds : from[th] \in Nat \cup {Never}
        /\ \A th \in Thresholds : c.since[th] \in Nat \cup {Never} /\ c.accrued[th] \in Int
    BY <1>1 DEF Clock
  <2> HIDE DEF c, from, into, rules, idle
  <2>5. \A th \in Thresholds : into[th] # Never =>
          windows # <<>> /\ Up(st, n) /\ into[th] <= now /\ th <= idle
    BY <1>1, <1>4, <1>7, <2>1, <2>2, <2>3, <2>4 DEF Never
  <2>6. \A th \in Thresholds : th <= idle =>
          /\ into[th] \in Nat /\ into[th] # Never /\ into[th] <= now
          /\ from[th] # Never => into[th] = from[th]
    BY <1>1, <1>4, <2>1, <2>2, <2>3, <2>4 DEF Never
  <2> DEFINE Waits == d.wake # Never =>
               \/ plus /\ ~Steady(tier[n])
               \/ \E r \in rules :
                    into[r.idle_vcpu] # Never /\ d.wake - into[r.idle_vcpu] >= r.duration
             Accrues == plus /\ Steady(tier[n]) =>
               \A th \in Thresholds :
                 /\ d.since[th] = Never => d.accrued[th] = 0
                 /\ d.since[th] # Never =>
                      /\ \E r \in rules : r.idle_vcpu = th
                      /\ into[th] # Never /\ into[th] <= d.since[th] - d.accrued[th]
             Later == d \in Clock /\ (d.wake = Never \/ d.wake >= now)
             Drains == ~plus /\ n \in dr => d.wake = Never
  <2>7. Later /\ Waits /\ Accrues /\ Drains
    <3>1. CASE ~Again /\ ~plus /\ n \in dr
      <4>1. d = c /\ c.wake = Never
        BY <1>2, <1>7, <2>3, <3>1 DEF GoesOn
      <4>. QED  BY <1>1, <3>1, <4>1
    <3>2. CASE ~Again /\ n \notin updated
      <4>1. d = c /\ rules = Rules(Queues, n)
        BY <1>2, <1>7, <3>2 DEF GoesOn, rules
      <4>2. idle = IdleVcpu(host, n)
        BY <3>2 DEF GoesOn, idle, IdleVcpu, LoadOf
      <4>3. \A th \in Thresholds : from[th] # Never => into[th] = from[th]
        BY <2>3, <2>6, <4>2
      <4>4. Waits
        BY <1>5, <2>3, <4>1, <4>3
      <4>5. Accrues
        BY <2>3, <4>1, <4>3
      <4>. QED  BY <1>1, <2>3, <4>1, <4>4, <4>5 DEF GoesOn
    <3>3. CASE Again /\ ~plus
      <4>1. d = MonitorClock(c, rules, idle)
        BY <1>2, <1>7, <3>3
      <4>2. /\ d \in Clock
            /\ d.wake # Never => d.wake >= now /\
                 \E r \in rules : idle >= r.idle_vcpu /\ d.wake = now + r.duration
        BY <1>1, <1>4, <2>1, <4>1, MonitorWaits
      <4>3. Waits
        <5> SUFFICES ASSUME d.wake # Never
                     PROVE  \E r \in rules : /\ into[r.idle_vcpu] # Never
                                             /\ d.wake - into[r.idle_vcpu] >= r.duration
          OBVIOUS
        <5>1. PICK r \in rules : idle >= r.idle_vcpu /\ d.wake = now + r.duration
          BY <4>2
        <5>2. r.idle_vcpu \in Thresholds /\ r.idle_vcpu \in Nat /\ r.duration \in Nat
          BY <1>5
        <5>3. /\ into[r.idle_vcpu] \in Nat /\ into[r.idle_vcpu] # Never
              /\ into[r.idle_vcpu] <= now
          BY <2>1, <2>6, <5>1, <5>2
        <5>. QED  BY <1>1, <5>1, <5>2, <5>3
      <4>. QED  BY <3>3, <4>2, <4>3
    <3>4. CASE Again /\ plus /\ rules = {}
      <4>1. d = c
        BY <1>2, <1>7, <3>4 DEF PlusClock
      <4>2. Steady(tier[n]) => rules = Rules(Queues, n)
        BY <1>7, <3>4 DEF GoesOn, rules
      <4>3. Waits
        BY <2>3, <3>4, <4>1, <4>2
      <4>4. Accrues
        BY <2>3, <3>4, <4>1, <4>2
      <4>. QED  BY <1>1, <3>4, <4>1, <4>3, <4>4
    <3>5. CASE Again /\ plus /\ rules # {}
      <4> DEFINE met(th) == \E r \in rules : r.idle_vcpu = th /\ idle >= th
                 missed(th) == \E r \in rules : r.idle_vcpu = th /\ idle < th
      <4>1. d = PlusClock(c, rules, idle)
        BY <1>2, <1>7, <3>5
      <4>2. /\ d \in Clock
            /\ d.wake # Never => d.wake >= now /\
                 \E r \in rules : /\ idle >= r.idle_vcpu
                                  /\ d.wake >= now + r.duration - d.accrued[r.idle_vcpu]
            /\ \A th \in Thresholds :
                 /\ d.since[th] = IF met(th) THEN now ELSE Never
                 /\ d.accrued[th] = IF missed(th) THEN 0
                                    ELSE IF c.since[th] # Never
                                         THEN c.accrued[th] + now - c.since[th] ELSE c.accrued[th]
        <5> DEFINE e == PlusClock(c, rules, idle)
        <5>1. rules # {} /\ now \in Nat /\ idle \in Int /\ c \in Clock /\ RuleSet(rules)
          BY <1>1, <1>4, <2>1, <3>5
        <5>2. /\ e \in Clock
              /\ e.wake # Never => e.wake >= now /\
                   \E r \in rules : /\ idle >= r.idle_vcpu
                                    /\ e.wake >= now + r.duration - e.accrued[r.idle_vcpu]
              /\ \A th \in Thresholds :
                   /\ e.since[th] = IF met(th) THEN now ELSE Never
                   /\ e.accrued[th] = IF missed(th) THEN 0
                                      ELSE IF c.since[th] # Never
                                           THEN c.accrued[th] + now - c.since[th]
                                           ELSE c.accrued[th]
          BY ONLY <5>1, PlusWaits
        <5>3. d = e
          BY <4>1
        <5> HIDE DEF e, met, missed
        <5>. QED  BY <5>2, <5>3
      <4>3. Steady(tier[n]) => rules = Rules(Queues, n)
        BY <1>7, <3>5 DEF GoesOn, rules
      <4>4. ASSUME Steady(tier[n]), NEW th \in Thresholds, met(th)
            PROVE  into[th] \in Nat /\ into[th] # Never /\ into[th] <= now - d.accrued[th]
        <5>1. th \in Nat /\ idle >= th /\ ~missed(th)
          BY <1>4, <2>1, <4>4
        <5>2. into[th] \in Nat /\ into[th] # Never /\ into[th] <= now
              /\ (from[th] # Never => into[th] = from[th])
          BY <2>1, <2>6, <5>1
        <5>3. CASE c.since[th] # Never
          <6>1. from[th] # Never /\ from[th] <= c.since[th] - c.accrued[th]
            BY <2>3, <3>5, <4>4, <5>3
          <6>2. d.accrued[th] = c.accrued[th] + now - c.since[th]
            BY <4>2, <5>1, <5>3
          <6>3. c.since[th] \in Nat /\ c.accrued[th] \in Int
            BY <2>4, <5>3
          <6>. QED  BY <1>1, <5>2, <6>1, <6>2, <6>3
        <5>4. CASE c.since[th] = Never
          <6>1. d.accrued[th] = 0
            BY <2>3, <3>5, <4>2, <4>4, <5>1, <5>4
          <6>. QED  BY <1>1, <5>2, <6>1
        <5>. QED  BY <5>3, <5>4
      <4>5. Waits
        <5> SUFFICES ASSUME d.wake # Never, Steady(tier[n])
                     PROVE  \E r \in rules : /\ into[r.idle_vcpu] # Never
                                             /\ d.wake - into[r.idle_vcpu] >= r.duration
          BY <3>5
        <5>1. PICK r \in rules : /\ idle >= r.idle_vcpu
                                 /\ d.wake >= now + r.duration - d.accrued[r.idle_vcpu]
          BY <4>2
        <5>2. r.idle_vcpu \in Thresholds /\ r.duration \in Nat /\ met(r.idle_vcpu)
          BY <1>5, <5>1
        <5>3. /\ into[r.idle_vcpu] \in Nat /\ into[r.idle_vcpu] # Never
              /\ into[r.idle_vcpu] <= now - d.accrued[r.idle_vcpu]
          BY <4>4, <5>2
        <5>4. d.accrued[r.idle_vcpu] \in Int /\ d.wake \in Nat
          BY <4>2, <5>2 DEF Clock
        <5>. QED  BY <1>1, <5>1, <5>2, <5>3, <5>4
      <4>6. Accrues
        <5> SUFFICES ASSUME Steady(tier[n]), NEW th \in Thresholds
                     PROVE  /\ d.since[th] = Never => d.accrued[th] = 0
                            /\ d.since[th] # Never =>
                                 /\ \E r \in rules : r.idle_vcpu = th
                                 /\ into[th] # Never /\ into[th] <= d.since[th] - d.accrued[th]
          OBVIOUS
        <5>1. CASE met(th)
          <6>1. d.since[th] = now /\ now # Never
            BY <1>1, <4>2, <5>1 DEF Never
          <6>. QED  BY <4>4, <5>1, <6>1
        <5>2. CASE ~met(th)
          <6>1. d.since[th] = Never
            BY <4>2, <5>2
          <6>2. d.accrued[th] = 0
            <7>1. CASE missed(th)
              BY <4>2, <7>1
            <7>2. CASE ~missed(th)
              <8>1. ~ \E r \in rules : r.idle_vcpu = th
                <9>1. th \in Nat
                  BY <1>4
                <9>. QED  BY <2>1, <5>2, <7>2, <9>1
              <8>2. c.since[th] = Never /\ c.accrued[th] = 0
                BY <2>3, <3>5, <4>3, <8>1
              <8>. QED  BY <4>2, <7>2, <8>2
            <7>. QED  BY <7>1, <7>2
          <6>. QED  BY <6>1, <6>2
        <5>. QED  BY <5>1, <5>2
      <4>. QED  BY <3>5, <4>2, <4>5, <4>6
    <3>. QED  BY <3>1, <3>2, <3>3, <3>4, <3>5
  <2>8. ClockAfter(n, d, into, st, dr, queues)
    BY <1>7, <2>2, <2>5, <2>7 DEF ClockAfter, idle, rules
  <2>. QED  BY <2>8 DEF into
<1>. QED  BY <1>6, <1>7

(* _try_schedule leaves every clock as it should be.                       *)
LEMMA ClocksRun ==
  ASSUME TypeOK, Configured, \A n \in Nodes : ClockKept(n),
         NEW ph, NEW tr, NEW h, NEW st, NEW dr, NEW touched, NEW queues,
         Schedulable(ph, tr, h, st, dr),
         TrySchedule(ph, tr, h, st, dr, touched, queues),
         \A n \in Nodes \ touched : On(h, n) = On(host, n) /\ Rules(queues, n) = Rules(Queues, n),
         \A n \in Nodes : RuleSet(Rules(queues, n)),
         dr \subseteq draining,
         \A n \in Nodes : plus /\ windows # <<>> /\ Steady(tier[n]) =>
           Rules(queues, n) = Rules(Queues, n)
  PROVE  /\ clock' \in [Nodes -> Clock]
         /\ idle_from' \in [Nodes -> [Thresholds -> Nat \cup {Never}]]
         /\ \A n \in Nodes : ClockAfter(n, clock'[n], idle_from'[n], st, dr, queues)
<1> DEFINE Q == Queued(ph)
<1>1. PICK placed \in [Q -> {n \in Nodes : st[n] = "READY"} \cup {0}] :
        /\ host' = [j \in Jobs |-> IF j \in Q THEN placed[j] ELSE h[j]]
        /\ DrainClocks(touched \cup Range(placed), host', st, dr, queues)
        /\ History(host', st)
  BY DEF TrySchedule
<1> DEFINE updated == touched \cup Range(placed)
<1>2. ASSUME NEW n \in Nodes PROVE ClockAfter(n, clock'[n], idle_from'[n], st, dr, queues)
  <2>1. n \notin updated => On(host', n) = On(h, n)
    <3> SUFFICES ASSUME n \notin updated, NEW j \in Jobs PROVE host'[j] = n <=> h[j] = n
      BY DEF On
    <3>1. CASE j \in Q
      <4>1. placed[j] \in Range(placed) /\ host'[j] = placed[j]
        BY <1>1, <3>1 DEF Range
      <4>2. ph[j] = "queued"
        BY <3>1 DEF Queued
      <4>3. h[j] = 0 /\ n # 0
        BY <4>2, Finite DEF Schedulable, JobsFit
      <4>. QED  BY <4>1, <4>3
    <3>2. CASE j \notin Q
      BY <1>1, <3>2
    <3>. QED  BY <3>1, <3>2
  <2>2. RuleSet(Rules(Queues, n))
    BY QueuesType
  <2>3. GoesOn(n, st, dr, updated, queues)
    BY <2>1, <2>2 DEF GoesOn, Schedulable
  <2>4. /\ History(host', st)
        /\ clock'[n] =
             IF windows = <<>> \/ ~Up(st, n) THEN NoClock
             ELSE IF n \in updated /\ (plus \/ n \notin dr)
                  THEN IF plus THEN PlusClock(clock[n], Rules(queues, n), IdleVcpu(host', n))
                       ELSE MonitorClock(clock[n], Rules(queues, n), IdleVcpu(host', n))
             ELSE clock[n]
    BY <1>1 DEF DrainClocks
  <2> HIDE DEF updated
  <2>. QED  BY <2>3, <2>4, ClockStep
<1>3. clock' = [n \in Nodes |-> clock'[n]] /\ idle_from' = [n \in Nodes |-> idle_from'[n]]
  <2>1. clock' = [n \in Nodes |-> clock'[n]]
    BY <1>1 DEF DrainClocks
  <2>2. idle_from' = [n \in Nodes |-> idle_from'[n]]
    BY <1>1 DEF History
  <2>. QED  BY <2>1, <2>2
<1>4. \A n \in Nodes : clock'[n] \in Clock /\ idle_from'[n] \in [Thresholds -> Nat \cup {Never}]
  BY <1>2 DEF ClockAfter
<1>5. clock' \in [Nodes -> Clock]
  BY <1>3, <1>4
<1>6. idle_from' \in [Nodes -> [Thresholds -> Nat \cup {Never}]]
  BY <1>3, <1>4
<1>. QED  BY <1>2, <1>5, <1>6

(* Its clock being so, the node keeps the invariant.                       *)
LEMMA ClockIsKept ==
  ASSUME NEW n \in Nodes, NEW queues,
         ClockAfter(n, clock'[n], idle_from'[n], state', draining', queues),
         UNCHANGED <<plus, windows, now>>,
         Up(state', n) => tier'[n] = tier[n] /\ (Rules(Queues, n))' = Rules(queues, n)
  PROVE  ClockKept(n)'
<1> DEFINE c == clock'[n]
           from == idle_from'[n]
<1>1. (Up(state, n))' <=> Up(state', n)
  BY DEF Up
<1>2. tier'[n] = tier[n] => (IdleVcpu(host, n))' = IdleVcpu(host', n)
  BY DEF IdleVcpu, LoadOf, On
<1>3. NoClock' = NoClock
  BY DEF NoClock, Thresholds
<1>4. tier'[n] = tier[n] => (Steady(tier[n])' <=> Steady(tier[n]))
  BY DEF Steady
<1>5. /\ c # NoClock => windows # <<>> /\ Up(state', n)
      /\ \A th \in Thresholds : from[th] # Never =>
           windows # <<>> /\ Up(state', n) /\ from[th] <= now /\ th <= IdleVcpu(host', n)
      /\ c.wake # Never =>
           \/ plus /\ ~Steady(tier[n])
           \/ \E r \in Rules(queues, n) :
                from[r.idle_vcpu] # Never /\ c.wake - from[r.idle_vcpu] >= r.duration
      /\ plus /\ Steady(tier[n]) =>
           \A th \in Thresholds :
             /\ c.since[th] = Never => c.accrued[th] = 0
             /\ c.since[th] # Never =>
                  /\ \E r \in Rules(queues, n) : r.idle_vcpu = th
                  /\ from[th] # Never /\ from[th] <= c.since[th] - c.accrued[th]
      /\ ~plus /\ n \in draining' => c.wake = Never
  BY DEF ClockAfter
<1>6. CASE ~Up(state', n)
  <2>1. c = NoClock /\ \A th \in Thresholds : from[th] = Never
    BY <1>5, <1>6
  <2>2. HistoryKept(n)'
    BY <1>3, <2>1 DEF HistoryKept, Thresholds
  <2>3. TimerWaits(n)' /\ AccruedIdle(n)'
    <3> HIDE DEF c, from
    <3>1. c.wake = Never
      BY <2>1, NoClockType
    <3>2. \A th \in Thresholds : c.accrued[th] = 0 /\ c.since[th] = Never
      BY <2>1, NoClockType
    <3>. QED  BY <3>1, <3>2 DEF TimerWaits, AccruedIdle, Thresholds, c, from
  <2>4. (~plus /\ n \in draining => clock[n].wake = Never)'
    BY <2>1, NoClockType
  <2>. QED  BY <2>2, <2>3, <2>4 DEF ClockKept
<1>7. CASE Up(state', n)
  <2>1. tier'[n] = tier[n] /\ (Rules(Queues, n))' = Rules(queues, n)
    BY <1>7
  <2>2. HistoryKept(n)'
    BY <1>1, <1>2, <1>5, <1>7, <2>1 DEF HistoryKept, Thresholds
  <2>3. TimerWaits(n)'
    BY <1>4, <1>5, <2>1 DEF TimerWaits
  <2>4. AccruedIdle(n)'
    BY <1>4, <1>5, <2>1 DEF AccruedIdle, Thresholds
  <2>5. (~plus /\ n \in draining => clock[n].wake = Never)'
    BY <1>5
  <2>. QED  BY <2>2, <2>3, <2>4, <2>5 DEF ClockKept
<1>. QED  BY <1>6, <1>7

-----------------------------------------------------------------------------
(* The timer of a window waits for its end.                                *)
LEMMA UntilEndIs ==
  ASSUME windows \in Policies, windows # <<>>, now \in Nat
  PROVE  LET i == WindowAt(now)
         IN  /\ UntilEnd(i) = windows[i].end - (now % Day)
             /\ UntilEnd(i) \in Nat \ {0} /\ windows[i].end \in Nat
             /\ now % Day \in Nat
<1> DEFINE i == WindowAt(now)
           tod == now % Day
<1>1. i \in 1..Len(windows) /\ tod < windows[i].end
  BY WindowAtIs
<1>2. windows[i].end \in Nat
  BY <1>1, WindowType
<1>3. tod \in Nat
  BY TimeOfDay
<1>4. UntilEnd(i) = IF windows[i].end > tod THEN windows[i].end - tod ELSE Day - tod + windows[i].end
  BY DEF UntilEnd
<1> HIDE DEF tod, i
<1>5. UntilEnd(i) = windows[i].end - tod /\ UntilEnd(i) \in Nat \ {0}
  BY <1>1, <1>2, <1>3, <1>4
<1>. QED  BY <1>2, <1>3, <1>5 DEF i, tod

(* What an action that calls _try_schedule hands to it.                    *)
Handed(ph, tr, h, st, dr, touched, queues) ==
  /\ Schedulable(ph, tr, h, st, dr)
  /\ \E j \in Jobs : ph[j] # "absent"
  /\ \A j \in Jobs : Range(tr[j]) \subseteq Hosting(j) /\ (ph[j] = "rejected" => phase[j] = "rejected")
  /\ InOrder(st) /\ dr \subseteq draining
  /\ \A n \in Nodes :
       /\ RuleSet(Rules(queues, n))
       /\ plus /\ windows # <<>> /\ Steady(tier[n]) => Rules(queues, n) = Rules(Queues, n)
       /\ n \notin touched => On(h, n) = On(host, n) /\ Rules(queues, n) = Rules(Queues, n)

(* What such an action leaves, but for the windows.                        *)
LEMMA ScheduleStep ==
  ASSUME IInv, NEW ph, NEW tr, NEW h, NEW st, NEW dr, NEW touched, NEW queues,
         Handed(ph, tr, h, st, dr, touched, queues),
         TrySchedule(ph, tr, h, st, dr, touched, queues),
         UNCHANGED <<configVars, now, last_spawn>>,
         tier' \in [Nodes -> Tiers \cup {0}],
         \A n \in Nodes : tier'[n] = 0 <=> st[n] \in {"none", "TERMINATED"},
         \A n \in Nodes : Up(st, n) => tier'[n] = tier[n] /\ (Rules(Queues, n))' = Rules(queues, n),
         idx' \in 1..Max({1, Len(windows)}), swap_at' \in Nat \cup {Never},
         swap_at' = Never \/ swap_at' >= now, WindowKept'
  PROVE  IInv'
<1>1. TypeOK /\ Configured /\ \A n \in Nodes : ClockKept(n)
  BY DEF IInv
<1>2. /\ Schedulable(ph, tr, h, st, dr)
      /\ \A n \in Nodes \ touched : On(h, n) = On(host, n) /\ Rules(queues, n) = Rules(Queues, n)
      /\ \A n \in Nodes : RuleSet(Rules(queues, n))
      /\ dr \subseteq draining
      /\ \A n \in Nodes : plus /\ windows # <<>> /\ Steady(tier[n]) =>
           Rules(queues, n) = Rules(Queues, n)
  BY DEF Handed
<1>3. /\ phase' \in [Jobs -> Phases] /\ host' \in [Jobs -> Nodes \cup {0}]
      /\ tiers' = tr /\ state' = st /\ draining' = dr
      /\ \A j \in Jobs : ph[j] # "queued" => phase'[j] = ph[j]
      /\ \A j \in Jobs : ph[j] = "queued" => phase'[j] \in {"queued", "running"}
      /\ JobsFit(phase', host', st, tr)
  BY <1>2, Placed
<1>4. /\ clock' \in [Nodes -> Clock]
      /\ idle_from' \in [Nodes -> [Thresholds -> Nat \cup {Never}]]
      /\ \A n \in Nodes : ClockAfter(n, clock'[n], idle_from'[n], st, dr, queues)
  BY <1>1, <1>2, ClocksRun
<1>5. \A n \in Nodes : ClockKept(n)'
  <2> TAKE n \in Nodes
  <2>1. ClockAfter(n, clock'[n], idle_from'[n], state', draining', queues)
    BY <1>3, <1>4
  <2>2. UNCHANGED <<plus, windows, now>>
    BY DEF configVars
  <2>3. Up(state', n) => tier'[n] = tier[n] /\ (Rules(Queues, n))' = Rules(queues, n)
    BY <1>3
  <2>. QED  BY <2>1, <2>2, <2>3, ClockIsKept
<1>6. TypeOK'
  <2>1. \A n \in Nodes : clock'[n].wake = Never \/ clock'[n].wake >= now'
    BY <1>4 DEF ClockAfter
  <2>2. windows' = windows /\ now' = now /\ last_spawn' = last_spawn
    BY DEF configVars
  <2>. QED  BY <1>1, <1>2, <1>3, <2>1, <2>2 DEF TypeOK, Schedulable, Phases, States
<1>7. Configured'
  <2>1. Clock' = Clock /\ PreflightPasses(load)' = PreflightPasses(load') /\ Thresholds' = Thresholds
    BY DEF Clock, PreflightPasses, Thresholds, Named, NoZone
  <2>2. plus' = plus /\ windows' = windows /\ load' = load
    BY DEF configVars
  <2>. QED  BY <1>1, <1>4, <2>1, <2>2 DEF Configured
<1>8. LaunchOrder'
  <2>1. \E j \in Jobs : phase'[j] # "absent"
    <3>1. PICK j \in Jobs : ph[j] # "absent"
      BY DEF Handed
    <3>2. phase'[j] # "absent"
      BY <1>3, <3>1
    <3>. QED  BY <3>2
  <2>2. InOrder(st)
    BY DEF Handed
  <2>. QED  BY <1>3, <2>1, <2>2 DEF LaunchOrder, InOrder
<1>9. JobsFit(phase, host, state, tiers)'
  <2>1. \A n \in Nodes : On(host', n) # {} => tier'[n] = tier[n]
    <3> SUFFICES ASSUME NEW n \in Nodes, NEW j \in Jobs, host'[j] = n PROVE tier'[n] = tier[n]
      BY DEF On
    <3>1. host'[j] # 0
      BY Finite
    <3>2. st[n] = "READY"
      BY <1>3, <3>1 DEF JobsFit
    <3>. QED  BY <3>2 DEF Up
  <2>2. ASSUME NEW j \in Jobs, phase'[j] = "running"
        PROVE  host'[j] \in Nodes /\ tier'[host'[j]] = tier[host'[j]]
    <3>1. host'[j] # 0 /\ host'[j] \in Nodes /\ st[host'[j]] = "READY"
      BY <1>3, <2>2 DEF JobsFit
    <3>. QED  BY <3>1 DEF Up
  <2>3. /\ \A j \in Jobs : host'[j] # 0 <=> phase'[j] = "running"
        /\ \A j \in Jobs : phase'[j] = "running" =>
             state'[host'[j]] = "READY" /\ tier'[host'[j]] \in Range(tiers'[j])
    BY <1>3, <2>2 DEF JobsFit
  <2>4. \A n \in Nodes : On(host', n) # {} =>
          Effective(tier'[n]) > 0 /\ LoadOf(host', n, Soft) <= Effective(tier'[n])
    BY <1>3, <2>1 DEF JobsFit
  <2>. QED  BY <2>3, <2>4 DEF JobsFit, On, LoadOf, Effective
<1>10. TiersHost'
  BY <1>3 DEF Handed, TiersHost, Hosting
<1>11. RejectedWarned'
  <2> SUFFICES ASSUME NEW j \in Jobs, phase'[j] = "rejected"
               PROVE  \/ PreflightWarns(j, load)
                      \/ load.overrides[j] # <<>> \/ load.declared[j] = <<>> \/ ~load.limited[j]
    BY DEF RejectedWarned, PreflightWarns, configVars
  <2>1. phase[j] = "rejected"
    BY <1>3 DEF Handed
  <2>. QED  BY <2>1 DEF IInv, RejectedWarned
<1>. QED  BY <1>5, <1>6, <1>7, <1>8, <1>9, <1>10, <1>11 DEF IInv

(* A node that is up has a tier.                                           *)
LEMMA UpHasTier ==
  ASSUME TypeOK
  PROVE  \A n \in Nodes : Up(state, n) => tier[n] \in Tiers
BY DEF TypeOK, Up

(* What a job that arrives leaves to _try_schedule.                        *)
LEMMA ArriveSchedulable ==
  ASSUME IInv, NEW j \in Jobs, phase[j] = "absent", NEW names \in Seq(Tiers)
  PROVE  Schedulable([phase EXCEPT ![j] = "queued"], [tiers EXCEPT ![j] = names],
                     host, state, draining)
<1> DEFINE ph == [phase EXCEPT ![j] = "queued"]
           tr == [tiers EXCEPT ![j] = names]
<1>1. TypeOK
  BY DEF IInv
<1>2. /\ ph \in [Jobs -> Phases] /\ tr \in [Jobs -> Seq(Tiers)]
      /\ ph[j] = "queued"
      /\ \A k \in Jobs : k # j => ph[k] = phase[k] /\ tr[k] = tiers[k]
  BY <1>1 DEF TypeOK, Phases
<1> HIDE DEF ph, tr
<1>3. JobsFit(ph, host, state, tr)
  <2>1. \A k \in Jobs : (ph[k] = "running" <=> phase[k] = "running")
                        /\ (ph[k] = "running" => tr[k] = tiers[k])
    BY <1>2
  <2>. QED  BY <2>1 DEF IInv, JobsFit
<1>4. Schedulable(ph, tr, host, state, draining)
  BY <1>1, <1>2, <1>3, UpHasTier DEF Schedulable, TypeOK, States
<1>. QED  BY <1>4 DEF ph, tr

(* A job that arrives is queued, or rejected.                              *)
LEMMA ArriveStep ==
  ASSUME IInv, NEW j \in Jobs, Arrive(j)
  PROVE  IInv'
<1> DEFINE viable == Viable(j, Resolved(j))
           ph == [phase EXCEPT ![j] = "queued"]
           tr == [tiers EXCEPT ![j] = viable]
<1>1. /\ phase[j] = "absent" /\ Setup
      /\ UNCHANGED <<configVars, now, tier, last_spawn>>
  BY DEF Arrive
<1>2. TypeOK /\ Configured /\ now \in Nat /\ plus' = plus /\ windows' = windows /\ load' = load
      /\ now' = now /\ tier' = tier /\ last_spawn' = last_spawn
  BY <1>1, TierAssumption DEF IInv, TypeOK, configVars
<1>3. /\ viable \in Seq(Tiers) /\ Range(viable) \subseteq Hosting(j)
      /\ \A t \in Range(Resolved(j)) \cap Hosting(j) : viable # <<>>
      /\ load.overrides[j] = <<>> /\ load.declared[j] # <<>> => Resolved(j) = load.declared[j]
  BY <1>2, ViableHost
<1> DEFINE first == ~plus /\ windows # <<>> /\ \A k \in Jobs : phase[k] = "absent"
<1>4. \/ /\ first /\ idx' = WindowAt(now) /\ swap_at' = now + UntilEnd(WindowAt(now))
      \/ ~first /\ idx' = idx /\ swap_at' = swap_at
  BY <1>1 DEF Setup, windowVars
<1>5. /\ idx' \in 1..Max({1, Len(windows)}) /\ swap_at' \in Nat \cup {Never}
      /\ swap_at' = Never \/ swap_at' >= now
      /\ first => /\ swap_at' # Never /\ swap_at' # now /\ idx' = WindowAt(now)
                  /\ swap_at' = now + windows[idx'].end - (now % Day)
  <2>1. CASE first
    <3> DEFINE i == WindowAt(now)
               u == UntilEnd(i)
               e == windows[i].end
               d == now % Day
    <3>1. i \in 1..Len(windows) /\ Max({1, Len(windows)}) = Len(windows)
      BY <1>2, <2>1, WindowAtIs, LastWindow DEF Configured
    <3>2. u = e - d /\ u \in Nat \ {0} /\ e \in Nat /\ d \in Nat
      BY <1>2, <2>1, UntilEndIs DEF Configured
    <3>3. idx' = i /\ swap_at' = now + u
      BY <1>4, <2>1
    <3> HIDE DEF i, u, d
    <3>4. /\ now + u \in Nat \cup {Never} /\ now + u >= now
          /\ now + u # now /\ now + u # Never /\ now + u = now + e - d
      BY <1>2, <3>2 DEF Never
    <3>. QED  BY <2>1, <3>1, <3>3, <3>4 DEF i, d
  <2>2. CASE ~first
    BY <1>2, <1>4, <2>2 DEF TypeOK, Configured
  <2>. QED  BY <2>1, <2>2
<1>6. phase'[j] # "absent" => WindowKept'
  <2> SUFFICES ASSUME phase'[j] # "absent" PROVE WindowKept'
    OBVIOUS
  <2>1. WindowAt(now)' = WindowAt(now) /\ WindowAt(now - 1)' = WindowAt(now - 1)
    BY <1>2 DEF WindowAt
  <2>2. \E k \in Jobs : phase'[k] # "absent"
    OBVIOUS
  <2>3. CASE first
    BY <1>2, <1>5, <2>1, <2>2, <2>3 DEF WindowKept
  <2>4. CASE ~first
    <3>1. idx' = idx /\ swap_at' = swap_at
      BY <1>4, <2>4
    <3>2. WindowKept
      BY DEF IInv
    <3>3. swap_at # Never <=> ~plus /\ windows # <<>>
      BY <2>4, <3>2 DEF WindowKept
    <3>. QED  BY <1>2, <2>1, <2>2, <3>1, <3>2, <3>3 DEF WindowKept
  <2>. QED  BY <2>3, <2>4
<1>7. \A n \in Nodes : Up(state, n) => (Rules(Queues, n))' = Rules(Queues, n)
  <2> SUFFICES ASSUME NEW n \in Nodes, Up(state, n) PROVE (Rules(Queues, n))' = Rules(Queues, n)
    OBVIOUS
  <2>1. ~first
    BY DEF IInv, LaunchOrder, Up
  <2>2. idx' = idx /\ swap_at' = swap_at
    BY <1>4, <2>1
  <2>3. Queues' = Queues
    BY <1>2, <2>2 DEF Queues, WindowAt
  <2>. QED  BY <1>2, <2>3 DEF Rules
<1>8. CASE viable = <<>>
  <2>1. /\ phase' = [phase EXCEPT ![j] = "rejected"]
        /\ UNCHANGED <<tiers, host, state, draining, clock, idle_from>>
    BY <1>8 DEF Arrive
  <2>2. /\ phase' \in [Jobs -> Phases] /\ phase'[j] = "rejected"
        /\ \A k \in Jobs : k # j => phase'[k] = phase[k]
    BY <1>2, <2>1 DEF TypeOK, Phases
  <2>3. WindowKept'
    BY <1>6, <2>2
  <2>4. TypeOK'
    BY <1>2, <1>5, <2>1, <2>2 DEF TypeOK, Phases
  <2>5. Configured'
    <3>1. Clock' = Clock /\ PreflightPasses(load)' = PreflightPasses(load') /\ Thresholds' = Thresholds
      BY DEF Clock, PreflightPasses, Thresholds, Named, NoZone
    <3>. QED  BY <1>2, <1>5, <2>1, <3>1 DEF Configured
  <2>6. LaunchOrder'
    BY <2>1, <2>2 DEF IInv, LaunchOrder, InOrder
  <2>7. JobsFit(phase, host, state, tiers)'
    <3>1. \A k \in Jobs : phase'[k] = "running" <=> phase[k] = "running"
      BY <1>1, <2>2
    <3>. QED  BY <1>2, <2>1, <3>1 DEF IInv, JobsFit, On, LoadOf, Effective
  <2>8. TiersHost'
    BY <2>1 DEF IInv, TiersHost, Hosting
  <2>9. RejectedWarned'
    <3> SUFFICES ASSUME NEW k \in Jobs, phase'[k] = "rejected"
                 PROVE  \/ PreflightWarns(k, load)
                        \/ load.overrides[k] # <<>> \/ load.declared[k] = <<>> \/ ~load.limited[k]
      BY <1>2 DEF RejectedWarned, PreflightWarns
    <3>1. CASE k # j
      BY <2>2, <3>1 DEF IInv, RejectedWarned
    <3>2. CASE k = j
      <4> SUFFICES ASSUME load.overrides[j] = <<>>, load.declared[j] # <<>>, load.limited[j]
                   PROVE  PreflightWarns(j, load)
        BY <3>2
      <4>1. Resolved(j) = load.declared[j]
        BY <1>3
      <4>2. \A t \in Range(load.declared[j]) : t \notin Hosting(j)
        BY <1>3, <1>8, <4>1
      <4>3. Range(load.declared[j]) \subseteq Tiers
        BY <1>2 DEF Configured, PreflightPasses, Named
      <4>4. \A t \in Range(load.declared[j]) : TierDefs[t].spike < Burst[j]
        <5> SUFFICES ASSUME NEW t \in Range(load.declared[j]) PROVE TierDefs[t].spike < Burst[j]
          OBVIOUS
        <5>1. TierDefs[t].spike \in Nat /\ Burst[j] \in Int
          BY <4>3, TierType, TierAssumption
        <5>. QED  BY <4>2, <4>3, <5>1 DEF Hosting
      <4>. QED  BY <4>4 DEF PreflightWarns
    <3>. QED  BY <3>1, <3>2
  <2>10. \A n \in Nodes : ClockKept(n)'
    <3> TAKE n \in Nodes
    <3>1. ClockKept(n)
      BY DEF IInv
    <3>2. IdleVcpu(host, n)' = IdleVcpu(host, n) /\ Up(state, n)' = Up(state, n)
          /\ Steady(tier[n])' = Steady(tier[n])
      BY <1>2, <2>1 DEF IdleVcpu, LoadOf, On, Up, Steady
    <3>3. HistoryKept(n)'
      BY <1>2, <2>1, <3>1, <3>2 DEF ClockKept, HistoryKept, NoClock, Thresholds
    <3>4. CASE Up(state, n)
      <4>1. (Rules(Queues, n))' = Rules(Queues, n)
        BY <1>7, <3>4
      <4>2. TimerWaits(n)' /\ AccruedIdle(n)'
        BY <1>2, <2>1, <3>1, <3>2, <4>1 DEF ClockKept, TimerWaits, AccruedIdle, Thresholds
      <4>. QED  BY <1>2, <2>1, <3>1, <3>3, <4>2 DEF ClockKept
    <3>5. CASE ~Up(state, n)
      <4>1. clock'[n] = NoClock
        BY <2>1, <3>1, <3>5 DEF ClockKept, HistoryKept
      <4>2. TimerWaits(n)' /\ AccruedIdle(n)'
        BY <4>1, NoClockType DEF TimerWaits, AccruedIdle, Thresholds
      <4>. QED  BY <1>2, <2>1, <3>1, <3>3, <4>2 DEF ClockKept
    <3>. QED  BY <3>4, <3>5
  <2>. QED  BY <2>3, <2>4, <2>5, <2>6, <2>7, <2>8, <2>9, <2>10 DEF IInv
<1>9. CASE viable # <<>>
  <2>1. TrySchedule(ph, tr, host, state, draining, {}, Queues)
    BY <1>9 DEF Arrive
  <2>2. /\ ph \in [Jobs -> Phases] /\ tr \in [Jobs -> Seq(Tiers)]
        /\ ph[j] = "queued" /\ tr[j] = viable
        /\ \A k \in Jobs : k # j => ph[k] = phase[k] /\ tr[k] = tiers[k]
    BY <1>2, <1>3 DEF TypeOK, Phases
  <2>4. Schedulable(ph, tr, host, state, draining)
    BY <1>1, <1>3, ArriveSchedulable
  <2> HIDE DEF ph, tr
  <2>5. Handed(ph, tr, host, state, draining, {}, Queues)
    <3>1. \A k \in Jobs : Range(tr[k]) \subseteq Hosting(k) /\ (ph[k] = "rejected" => phase[k] = "rejected")
      BY <1>3, <2>2 DEF IInv, TiersHost
    <3>2. \A n \in Nodes : RuleSet(Rules(Queues, n))
      BY <1>2, QueuesType
    <3>3. InOrder(state) /\ ph[j] # "absent"
      BY <2>2 DEF IInv, LaunchOrder
    <3>. QED  BY <2>4, <3>1, <3>2, <3>3 DEF Handed
  <2>6. phase'[j] # "absent"
    <3>1. phase'[j] \in {"queued", "running"}
      BY <2>1, <2>2, <2>4, Placed
    <3>. QED  BY <3>1
  <2>7. WindowKept'
    BY <1>6, <2>6
  <2>8. tier' \in [Nodes -> Tiers \cup {0}] /\ \A n \in Nodes : tier'[n] = 0 <=> state[n] \in {"none", "TERMINATED"}
    BY <1>2 DEF TypeOK
  <2>9. \A n \in Nodes : Up(state, n) => tier'[n] = tier[n] /\ (Rules(Queues, n))' = Rules(Queues, n)
    BY <1>2, <1>7
  <2>10. UNCHANGED <<configVars, now, last_spawn>>
    BY <1>1
  <2>. QED  BY <1>5, <2>1, <2>5, <2>7, <2>8, <2>9, <2>10, ScheduleStep
<1>. QED  BY <1>8, <1>9

(* The windows stand as they did.                                          *)
LEMMA WindowsUnchanged ==
  ASSUME IInv, UNCHANGED <<configVars, now, windowVars>>,
         \E j \in Jobs : phase[j] # "absent", \E j \in Jobs : phase'[j] # "absent"
  PROVE  /\ WindowKept'
         /\ idx' \in 1..Max({1, Len(windows)}) /\ swap_at' \in Nat \cup {Never}
         /\ swap_at' = Never \/ swap_at' >= now
         /\ Queues' = Queues
<1>1. /\ plus' = plus /\ windows' = windows /\ now' = now /\ idx' = idx /\ swap_at' = swap_at
  BY DEF configVars, windowVars
<1>2. WindowAt(now)' = WindowAt(now) /\ WindowAt(now - 1)' = WindowAt(now - 1)
  BY <1>1 DEF WindowAt
<1>3. WindowKept'
  BY <1>1, <1>2 DEF IInv, WindowKept
<1>4. Queues' = Queues
  BY <1>1, <1>2 DEF Queues
<1>. QED  BY <1>1, <1>3, <1>4 DEF IInv, TypeOK, Configured

(* What a job that ends leaves to _try_schedule: its node is let go, left  *)
(* idle or kept.                                                           *)
LEMMA EndSchedulable ==
  ASSUME IInv, NEW j \in Jobs, Complete(j)
  PROVE  LET n == host[j]
             h == [host EXCEPT ![j] = 0]
             ph == [phase EXCEPT ![j] = "done"]
             tr == [tiers EXCEPT ![j] = <<>>]
             last == On(h, n) = {}
             st == IF ~last THEN state
                   ELSE [state EXCEPT ![n] = IF n \in draining THEN "TERMINATED" ELSE "IDLE"]
             gone == IF last /\ n \in draining THEN {n} ELSE {}
             dr == draining \ gone
         IN  /\ n \in Nodes /\ state[n] = "READY" /\ tier[n] \in Tiers /\ 0 \notin Nodes
             /\ \A k \in Jobs : k # j => h[k] = host[k] /\ ph[k] = phase[k] /\ tr[k] = tiers[k]
             /\ h[j] = 0 /\ ph[j] = "done" /\ tr[j] = <<>>
             /\ \A m \in Nodes : m # n => st[m] = state[m] /\ On(h, m) = On(host, m)
             /\ last /\ n \in draining => st[n] = "TERMINATED"
             /\ last /\ n \notin draining => st[n] = "IDLE"
             /\ ~last => st[n] = "READY"
             /\ \A m \in Nodes : m \in gone <=> m = n /\ last /\ n \in draining
             /\ dr \subseteq draining
             /\ Schedulable(ph, tr, h, st, dr)
<1> DEFINE n == host[j]
           h == [host EXCEPT ![j] = 0]
           ph == [phase EXCEPT ![j] = "done"]
           tr == [tiers EXCEPT ![j] = <<>>]
           last == On(h, n) = {}
           st == IF ~last THEN state
                 ELSE [state EXCEPT ![n] = IF n \in draining THEN "TERMINATED" ELSE "IDLE"]
           gone == IF last /\ n \in draining THEN {n} ELSE {}
           dr == draining \ gone
<1>1. /\ phase[j] = "running"
      /\ TrySchedule(ph, tr, h, st, dr, {n}, Queues)
      /\ tier' = TierWithout(gone)
      /\ UNCHANGED <<configVars, now, windowVars, last_spawn>>
  BY DEF Complete
<1>2. TypeOK /\ Configured /\ JobsFit(phase, host, state, tiers)
  BY DEF IInv
<1>3. n \in Nodes /\ state[n] = "READY" /\ tier[n] \in Tiers /\ 0 \notin Nodes
  <2>1. n \in Nodes /\ state[n] = "READY"
    BY <1>1, <1>2, Finite DEF TypeOK, JobsFit
  <2>. QED  BY <1>2, <2>1, UpHasTier, Finite DEF Up
<1>4. /\ h \in [Jobs -> Nodes \cup {0}] /\ ph \in [Jobs -> Phases] /\ tr \in [Jobs -> Seq(Tiers)]
      /\ \A k \in Jobs : k # j => h[k] = host[k] /\ ph[k] = phase[k] /\ tr[k] = tiers[k]
      /\ h[j] = 0 /\ ph[j] = "done" /\ tr[j] = <<>>
  BY <1>2 DEF TypeOK, Phases
<1>5. /\ st \in [Nodes -> States]
      /\ \A m \in Nodes : m # n => st[m] = state[m]
      /\ last /\ n \in draining => st[n] = "TERMINATED"
      /\ last /\ n \notin draining => st[n] = "IDLE"
      /\ ~last => st[n] = "READY"
  BY <1>2, <1>3 DEF TypeOK, States
<1>6. /\ \A m \in Nodes : m \in gone <=> m = n /\ last /\ n \in draining
      /\ dr \subseteq draining
  BY <1>3
<1> HIDE DEF st
<1>8. \A m \in Nodes : m # n => On(h, m) = On(host, m)
  BY <1>2, <1>4, <1>3 DEF On
<1>9. On(h, n) \subseteq On(host, n)
  BY <1>3, <1>4 DEF On
<1>10. last <=> On(h, n) = {}
  OBVIOUS
<1> HIDE DEF h, ph, tr, last, gone
<1>11. JobsFit(ph, h, st, tr)
  <2>1. \A k \in Jobs : h[k] # 0 <=> ph[k] = "running"
    BY <1>2, <1>4 DEF JobsFit
  <2>2. ASSUME NEW k \in Jobs, ph[k] = "running"
        PROVE  st[h[k]] = "READY" /\ tier[h[k]] \in Range(tr[k])
    <3>1. k # j
      BY <1>4, <2>2
    <3>2. h[k] = host[k] /\ tr[k] = tiers[k] /\ state[host[k]] = "READY"
          /\ tier[host[k]] \in Range(tiers[k]) /\ host[k] \in Nodes
      BY <1>2, <1>4, <2>2, <3>1 DEF JobsFit, TypeOK
    <3>3. host[k] = n => On(h, n) # {}
      BY <3>2 DEF On
    <3>. QED  BY <1>5, <1>10, <3>2, <3>3
  <2>3. ASSUME NEW m \in Nodes, On(h, m) # {}
        PROVE  Effective(tier[m]) > 0 /\ LoadOf(h, m, Soft) <= Effective(tier[m])
    <3>1. On(h, m) \subseteq On(host, m)
      BY <1>8, <1>9
    <3>2. Effective(tier[m]) > 0 /\ LoadOf(host, m, Soft) <= Effective(tier[m])
      BY <1>2, <2>3, <3>1 DEF JobsFit
    <3>3. LoadOf(h, m, Soft) <= LoadOf(host, m, Soft)
      <4>1. NumJobs \in Nat /\ Soft \in [1..NumJobs -> Nat]
        BY TierAssumption, NumJobsAssumption DEF Jobs
      <4>. QED  BY <3>1, <4>1, SumMonotone DEF LoadOf
    <3>4. tier[m] \in Tiers
      <4>1. PICK k \in Jobs : host[k] = m
        BY <2>3, <3>1 DEF On
      <4>2. state[m] = "READY"
        BY <1>2, <1>3, <4>1 DEF JobsFit
      <4>. QED  BY <1>2, <4>2, UpHasTier DEF Up
    <3>5. Effective(tier[m]) \in Nat /\ LoadOf(h, m, Soft) \in Nat /\ LoadOf(host, m, Soft) \in Nat
      BY <3>4, TierType, LoadType
    <3>. QED  BY <3>2, <3>3, <3>5
  <2>. QED  BY <2>1, <2>2, <2>3 DEF JobsFit
<1>12. Schedulable(ph, tr, h, st, dr)
  <2>1. \A m \in Nodes : Up(st, m) => tier[m] \in Tiers
    <3> SUFFICES ASSUME NEW m \in Nodes, Up(st, m) PROVE tier[m] \in Tiers
      OBVIOUS
    <3>. QED  BY <1>2, <1>3, <1>5, UpHasTier DEF Up
  <2>. QED  BY <1>2, <1>4, <1>5, <1>6, <1>11, <2>1 DEF Schedulable, TypeOK
<1>. QED  BY <1>3, <1>4, <1>5, <1>6, <1>8, <1>10, <1>12 DEF h, ph, tr, st, last, gone

(* A job that ends.                                                        *)
LEMMA CompleteStep ==
  ASSUME IInv, NEW j \in Jobs, Complete(j)
  PROVE  IInv'
<1> DEFINE n == host[j]
           h == [host EXCEPT ![j] = 0]
           ph == [phase EXCEPT ![j] = "done"]
           tr == [tiers EXCEPT ![j] = <<>>]
           last == On(h, n) = {}
           st == IF ~last THEN state
                 ELSE [state EXCEPT ![n] = IF n \in draining THEN "TERMINATED" ELSE "IDLE"]
           gone == IF last /\ n \in draining THEN {n} ELSE {}
           dr == draining \ gone
<1>1. /\ phase[j] = "running"
      /\ TrySchedule(ph, tr, h, st, dr, {n}, Queues)
      /\ tier' = TierWithout(gone)
      /\ UNCHANGED <<configVars, now, windowVars, last_spawn>>
  BY DEF Complete
<1>2. TypeOK /\ Configured
  BY DEF IInv
<1>3. /\ n \in Nodes /\ state[n] = "READY" /\ tier[n] \in Tiers /\ 0 \notin Nodes
      /\ \A k \in Jobs : k # j => h[k] = host[k] /\ ph[k] = phase[k] /\ tr[k] = tiers[k]
      /\ h[j] = 0 /\ ph[j] = "done" /\ tr[j] = <<>>
      /\ \A m \in Nodes : m # n => st[m] = state[m] /\ On(h, m) = On(host, m)
      /\ last /\ n \in draining => st[n] = "TERMINATED"
      /\ last /\ n \notin draining => st[n] = "IDLE"
      /\ ~last => st[n] = "READY"
      /\ \A m \in Nodes : m \in gone <=> m = n /\ last /\ n \in draining
      /\ dr \subseteq draining
      /\ Schedulable(ph, tr, h, st, dr)
  BY EndSchedulable
<1> HIDE DEF h, ph, tr, st, last, gone
<1>4. \A m \in Nodes : m \in gone <=> st[m] = "TERMINATED" /\ state[m] # "TERMINATED"
  BY <1>3
<1>5. Handed(ph, tr, h, st, dr, {n}, Queues)
  <2>1. \A k \in Jobs : Range(tr[k]) \subseteq Hosting(k) /\ (ph[k] = "rejected" => phase[k] = "rejected")
    <3> TAKE k \in Jobs
    <3>1. CASE k = j
      BY <1>3, <3>1 DEF Range
    <3>2. CASE k # j
      BY <1>3, <3>2 DEF IInv, TiersHost
    <3>. QED  BY <3>1, <3>2
  <2>2. InOrder(st)
    <3>1. \A m \in Nodes : st[m] # "none" <=> state[m] # "none"
      BY <1>3
    <3>. QED  BY <3>1 DEF InOrder, IInv, LaunchOrder
  <2>3. \A m \in Nodes : RuleSet(Rules(Queues, m))
    BY <1>2, QueuesType
  <2>4. ph[j] # "absent"
    BY <1>3
  <2>. QED  BY <1>3, <2>1, <2>2, <2>3, <2>4 DEF Handed
<1>6. tier' = [m \in Nodes |-> IF m \in gone THEN 0 ELSE tier[m]]
  BY <1>1 DEF TierWithout
<1>7. /\ tier' \in [Nodes -> Tiers \cup {0}]
      /\ \A m \in Nodes : tier'[m] = 0 <=> st[m] \in {"none", "TERMINATED"}
      /\ \A m \in Nodes : Up(st, m) => tier'[m] = tier[m]
  <2>1. tier' \in [Nodes -> Tiers \cup {0}]
    BY <1>2, <1>6 DEF TypeOK
  <2>2. ASSUME NEW m \in Nodes
        PROVE  /\ tier'[m] = 0 <=> st[m] \in {"none", "TERMINATED"}
               /\ Up(st, m) => tier'[m] = tier[m]
    <3>1. tier[m] = 0 <=> state[m] \in {"none", "TERMINATED"}
      BY <1>2 DEF TypeOK
    <3>2. m # n => st[m] = state[m]
      BY <1>3
    <3>3. m = n => st[m] \in {"READY", "IDLE", "TERMINATED"} /\ tier[m] # 0
      BY <1>3, Finite
    <3>. QED  BY <1>4, <1>6, <3>1, <3>2, <3>3, <1>3 DEF Up
  <2>. QED  BY <2>1, <2>2
<1>8. phase'[j] = "done"
  BY <1>1, <1>3, Placed
<1>9. /\ WindowKept'
      /\ idx' \in 1..Max({1, Len(windows)}) /\ swap_at' \in Nat \cup {Never}
      /\ swap_at' = Never \/ swap_at' >= now
      /\ Queues' = Queues
  <2>1. /\ \E k \in Jobs : phase[k] # "absent"
        /\ \E k \in Jobs : phase'[k] # "absent"
    BY <1>1, <1>8
  <2>2. UNCHANGED <<configVars, now, windowVars>>
    BY <1>1
  <2>. QED  BY <2>1, <2>2, WindowsUnchanged
<1>10. \A m \in Nodes : Up(st, m) => tier'[m] = tier[m] /\ (Rules(Queues, m))' = Rules(Queues, m)
  BY <1>7, <1>9 DEF Rules
<1>11. UNCHANGED <<configVars, now, last_spawn>> /\ TrySchedule(ph, tr, h, st, dr, {n}, Queues)
  BY <1>1
<1>. QED  BY <1>5, <1>7, <1>9, <1>10, <1>11, ScheduleStep

(* What a node that has warmed up leaves to _try_schedule.                 *)
LEMMA ReadySchedulable ==
  ASSUME IInv, NEW n \in Nodes, state[n] = "LAUNCHING"
  PROVE  Schedulable(phase, tiers, host, [state EXCEPT ![n] = "READY"], draining)
<1> DEFINE st == [state EXCEPT ![n] = "READY"]
<1>1. state[n] = "LAUNCHING"
  OBVIOUS
<1>2. TypeOK /\ JobsFit(phase, host, state, tiers)
  BY DEF IInv
<1>3. /\ st \in [Nodes -> States] /\ st[n] = "READY"
      /\ \A m \in Nodes : m # n => st[m] = state[m]
  BY <1>2 DEF TypeOK, States
<1> HIDE DEF st
<1>4. \A k \in Jobs : phase[k] = "running" => host[k] \in Nodes /\ st[host[k]] = "READY"
  <2> SUFFICES ASSUME NEW k \in Jobs, phase[k] = "running"
               PROVE  host[k] \in Nodes /\ st[host[k]] = "READY"
    OBVIOUS
  <2>1. host[k] \in Nodes /\ state[host[k]] = "READY"
    BY <1>2 DEF JobsFit, TypeOK
  <2>. QED  BY <1>3, <2>1
<1>5. JobsFit(phase, host, st, tiers)
  BY <1>2, <1>4 DEF JobsFit
<1>6. Schedulable(phase, tiers, host, st, draining)
  <2>1. \A m \in Nodes : Up(st, m) => tier[m] \in Tiers
    <3> SUFFICES ASSUME NEW m \in Nodes, Up(st, m) PROVE tier[m] \in Tiers
      OBVIOUS
    <3>1. tier[m] = 0 <=> state[m] \in {"none", "TERMINATED"}
      BY <1>2 DEF TypeOK
    <3>2. state[m] \notin {"none", "TERMINATED"}
      BY <1>1, <1>3 DEF Up
    <3>. QED  BY <1>2, <3>1, <3>2 DEF TypeOK
  <2>. QED  BY <1>2, <1>3, <1>5, <2>1 DEF Schedulable, TypeOK, Phases
<1>. QED  BY <1>6 DEF st

(* A node that has warmed up.                                              *)
LEMMA NodeReadyStep ==
  ASSUME IInv, NEW n \in Nodes, NodeReady(n)
  PROVE  IInv'
<1> DEFINE st == [state EXCEPT ![n] = "READY"]
<1>1. /\ state[n] = "LAUNCHING"
      /\ TrySchedule(phase, tiers, host, st, draining, {n}, Queues)
      /\ UNCHANGED <<configVars, now, windowVars, tier, last_spawn>>
  BY DEF NodeReady
<1>2. TypeOK /\ Configured /\ JobsFit(phase, host, state, tiers) /\ tier' = tier
  BY <1>1 DEF IInv
<1>3. /\ st[n] = "READY"
      /\ \A m \in Nodes : m # n => st[m] = state[m]
  BY <1>2 DEF TypeOK
<1>6. Schedulable(phase, tiers, host, st, draining)
  BY <1>1, ReadySchedulable
<1> HIDE DEF st
<1>7. \E k \in Jobs : phase[k] # "absent"
  BY <1>1 DEF IInv, LaunchOrder
<1>8. Handed(phase, tiers, host, st, draining, {n}, Queues)
  <2>1. InOrder(st)
    <3>1. \A m \in Nodes : st[m] # "none" <=> state[m] # "none"
      BY <1>1, <1>3
    <3>. QED  BY <3>1 DEF InOrder, IInv, LaunchOrder
  <2>2. \A m \in Nodes : RuleSet(Rules(Queues, m))
    BY <1>2, QueuesType
  <2>. QED  BY <1>6, <1>7, <2>1, <2>2 DEF Handed, IInv, TiersHost
<1>9. \E k \in Jobs : phase'[k] # "absent"
  <2>1. PICK k \in Jobs : phase[k] # "absent"
    BY <1>7
  <2>2. phase'[k] # "absent"
    <3>1. /\ phase[k] # "queued" => phase'[k] = phase[k]
          /\ phase[k] = "queued" => phase'[k] \in {"queued", "running"}
      BY <1>1, <1>6, Placed
    <3>. QED  BY <2>1, <3>1
  <2>. QED  BY <2>2
<1>10. /\ WindowKept'
       /\ idx' \in 1..Max({1, Len(windows)}) /\ swap_at' \in Nat \cup {Never}
       /\ swap_at' = Never \/ swap_at' >= now
       /\ Queues' = Queues
  <2>1. UNCHANGED <<configVars, now, windowVars>>
    BY <1>1
  <2>. QED  BY <1>7, <1>9, <2>1, WindowsUnchanged
<1>11. \A m \in Nodes : Up(st, m) => tier'[m] = tier[m] /\ (Rules(Queues, m))' = Rules(Queues, m)
  BY <1>2, <1>10 DEF Rules
<1>12. /\ tier' \in [Nodes -> Tiers \cup {0}]
       /\ \A m \in Nodes : tier'[m] = 0 <=> st[m] \in {"none", "TERMINATED"}
  <2>1. \A m \in Nodes : st[m] \in {"none", "TERMINATED"} <=> state[m] \in {"none", "TERMINATED"}
    BY <1>1, <1>3
  <2>. QED  BY <1>2, <2>1 DEF TypeOK
<1>13. /\ UNCHANGED <<configVars, now, last_spawn>>
       /\ TrySchedule(phase, tiers, host, st, draining, {n}, Queues)
  BY <1>1
<1>. QED  BY <1>8, <1>10, <1>11, <1>12, <1>13, ScheduleStep

(* A boundary of the windows.                                              *)
LEMMA PolicySwapStep ==
  ASSUME IInv, PolicySwap
  PROVE  IInv'
<1> DEFINE new == WindowAfter(idx)
           q == windows[new].queues
<1>1. /\ swap_at = now /\ idx' = new /\ swap_at' = now + UntilEnd(new)
      /\ TrySchedule(phase, tiers, host, state, draining, Nodes, q)
      /\ UNCHANGED <<configVars, now, tier, last_spawn>>
  BY DEF PolicySwap
<1>2. /\ TypeOK /\ Configured /\ WindowKept /\ now \in Nat /\ now # Never
      /\ plus' = plus /\ windows' = windows /\ now' = now /\ tier' = tier
  BY <1>1, TierAssumption DEF IInv, TypeOK, configVars, Never
<1>3. /\ ~plus /\ windows # <<>> /\ \E j \in Jobs : phase[j] # "absent"
      /\ now > 0 /\ idx = WindowAt(now - 1) /\ windows[idx].end = ((now - 1) % Day) + 1
  BY <1>1, <1>2 DEF WindowKept
<1>4. new = WindowAt(now)
  <2> DEFINE m == now - 1
  <2>1. m \in Nat /\ m + 1 = now
    BY <1>2, <1>3
  <2>2. idx = WindowAt(m) /\ windows[idx].end = (m % Day) + 1
    BY <1>3
  <2> HIDE DEF m
  <2>3. WindowAt(m + 1) = WindowAfter(WindowAt(m))
    BY <1>2, <1>3, <2>1, <2>2, WindowOfNextTick DEF Configured
  <2>. QED  BY <2>1, <2>2, <2>3
<1>5. new \in 1..Len(windows) /\ Max({1, Len(windows)}) = Len(windows)
  BY <1>2, <1>3, <1>4, WindowAtIs, LastWindow DEF Configured
<1> DEFINE u == UntilEnd(new)
           e == windows[new].end
           d == now % Day
<1>6. u = e - d /\ u \in Nat \ {0} /\ e \in Nat /\ d \in Nat
  BY <1>2, <1>3, <1>4, UntilEndIs DEF Configured
<1>7. swap_at' = now + u /\ idx' = new
  BY <1>1
<1> HIDE DEF new, u, d
<1>8. /\ swap_at' \in Nat \cup {Never} /\ swap_at' >= now
      /\ swap_at' # now /\ swap_at' # Never /\ swap_at' = now + e - d
  BY <1>2, <1>6, <1>7 DEF Never
<1>9. JobsFit(phase, host, state, tiers) /\ Schedulable(phase, tiers, host, state, draining)
  BY <1>2, UpHasTier DEF IInv, Schedulable, TypeOK, Phases, States
<1>10. \E j \in Jobs : phase'[j] # "absent"
  <2>1. PICK j \in Jobs : phase[j] # "absent"
    BY <1>3
  <2>2. /\ phase[j] # "queued" => phase'[j] = phase[j]
        /\ phase[j] = "queued" => phase'[j] \in {"queued", "running"}
    BY <1>1, <1>9, Placed
  <2>3. phase'[j] # "absent"
    BY <2>1, <2>2
  <2>. QED  BY <2>3
<1>11. WindowKept'
  <2>1. WindowAt(now)' = WindowAt(now)
    BY <1>2 DEF WindowAt
  <2>. QED  BY <1>2, <1>3, <1>4, <1>7, <1>8, <1>10, <2>1 DEF WindowKept, d
<1>12. Handed(phase, tiers, host, state, draining, Nodes, q)
  <2>1. \A m \in Nodes : RuleSet(Rules(q, m))
    BY <1>2, <1>5, WindowRules DEF Configured
  <2>. QED  BY <1>3, <1>9, <2>1 DEF Handed, IInv, TiersHost, LaunchOrder
<1>13. \A m \in Nodes : Up(state, m) => tier'[m] = tier[m] /\ (Rules(Queues, m))' = Rules(q, m)
  <2>1. Queues' = q
    BY <1>2, <1>3, <1>7 DEF Queues
  <2>. QED  BY <1>2, <2>1 DEF Rules
<1>14. /\ tier' \in [Nodes -> Tiers \cup {0}]
       /\ \A m \in Nodes : tier'[m] = 0 <=> state[m] \in {"none", "TERMINATED"}
  BY <1>2 DEF TypeOK
<1>15. idx' \in 1..Max({1, Len(windows)})
  BY <1>5, <1>7
<1>16. UNCHANGED <<configVars, now, last_spawn>>
       /\ TrySchedule(phase, tiers, host, state, draining, Nodes, q)
  BY <1>1
<1>. QED  BY <1>8, <1>11, <1>12, <1>13, <1>14, <1>15, <1>16, ScheduleStep

(* What an action that places no job leaves, but for the clocks.           *)
LEMMA QuietStep ==
  ASSUME IInv, UNCHANGED <<configVars, now, windowVars, jobVars>>,
         \E j \in Jobs : phase[j] # "absent",
         state' \in [Nodes -> States], tier' \in [Nodes -> Tiers \cup {0}],
         draining' \subseteq Nodes, last_spawn' \in [Tiers -> {Never} \cup 0..MaxNow],
         \A n \in Nodes : tier'[n] = 0 <=> state'[n] \in {"none", "TERMINATED"},
         \A n \in Nodes : On(host, n) # {} => state'[n] = state[n] /\ tier'[n] = tier[n],
         InOrder(state'), clock' \in [Nodes -> Clock],
         idle_from' \in [Nodes -> [Thresholds -> Nat \cup {Never}]],
         \A n \in Nodes : clock'[n].wake = Never \/ clock'[n].wake >= now,
         \A n \in Nodes : ClockKept(n)'
  PROVE  IInv'
<1>1. /\ plus' = plus /\ windows' = windows /\ load' = load /\ now' = now
      /\ tiers' = tiers /\ phase' = phase /\ host' = host
  BY DEF configVars, jobVars
<1>2. TypeOK /\ Configured
  BY DEF IInv
<1>3. /\ WindowKept'
      /\ idx' \in 1..Max({1, Len(windows)}) /\ swap_at' \in Nat \cup {Never}
      /\ swap_at' = Never \/ swap_at' >= now
  <2>1. \E j \in Jobs : phase'[j] # "absent"
    BY <1>1
  <2>2. UNCHANGED <<configVars, now, windowVars>>
    OBVIOUS
  <2>. QED  BY <2>1, <2>2, WindowsUnchanged
<1>4. TypeOK'
  BY <1>1, <1>2, <1>3 DEF TypeOK, States
<1>5. Configured'
  <2>1. Clock' = Clock /\ PreflightPasses(load)' = PreflightPasses(load') /\ Thresholds' = Thresholds
    BY DEF Clock, PreflightPasses, Thresholds, Named, NoZone
  <2>. QED  BY <1>1, <1>2, <1>3, <2>1 DEF Configured
<1>6. LaunchOrder'
  BY <1>1 DEF LaunchOrder, InOrder
<1>7. JobsFit(phase, host, state, tiers)'
  <2>1. JobsFit(phase, host, state, tiers)
    BY DEF IInv
  <2>2. ASSUME NEW j \in Jobs, phase[j] = "running"
        PROVE  state'[host[j]] = "READY" /\ tier'[host[j]] \in Range(tiers[j])
    <3>1. host[j] \in Nodes /\ j \in On(host, host[j])
      BY <1>2, <2>1, <2>2 DEF JobsFit, TypeOK, On
    <3>2. state'[host[j]] = state[host[j]] /\ tier'[host[j]] = tier[host[j]]
      BY <3>1
    <3>. QED  BY <2>1, <2>2, <3>2 DEF JobsFit
  <2>3. \A n \in Nodes : On(host, n) # {} =>
          Effective(tier'[n]) > 0 /\ LoadOf(host, n, Soft) <= Effective(tier'[n])
    BY <2>1 DEF JobsFit
  <2>4. \A j \in Jobs : host[j] # 0 <=> phase[j] = "running"
    BY <2>1 DEF JobsFit
  <2>5. \A n \in Nodes : (On(host, n))' = On(host, n) /\ (LoadOf(host, n, Soft))' = LoadOf(host, n, Soft)
    BY <1>1 DEF On, LoadOf
  <2>6. \A n \in Nodes : (Effective(tier[n]))' = Effective(tier'[n])
    BY DEF Effective
  <2>. QED  BY <1>1, <2>2, <2>3, <2>4, <2>5, <2>6 DEF JobsFit
<1>8. TiersHost'
  BY <1>1 DEF IInv, TiersHost, Hosting
<1>9. RejectedWarned'
  BY <1>1 DEF IInv, RejectedWarned, PreflightWarns
<1>. QED  BY <1>3, <1>4, <1>5, <1>6, <1>7, <1>8, <1>9 DEF IInv

(* A node that goes on without an update, or is gone.                      *)
LEMMA GoesOnKept ==
  ASSUME IInv, UNCHANGED <<configVars, now, windowVars, jobVars>>,
         \E j \in Jobs : phase[j] # "absent", NEW st, state' = st, History(host, st),
         NEW n \in Nodes, clock'[n] = (IF Up(st, n) THEN clock[n] ELSE NoClock),
         Up(st, n) => Up(state, n) /\ tier'[n] = tier[n],
         n \in draining' => n \in draining
  PROVE  /\ ClockAfter(n, clock'[n], idle_from'[n], st, draining', Queues)
         /\ ClockKept(n)'
<1>1. plus' = plus /\ windows' = windows /\ now' = now /\ host' = host /\ phase' = phase
  BY DEF configVars, jobVars
<1>2. TypeOK /\ Configured /\ ClockKept(n)
  BY DEF IInv
<1>3. Queues' = Queues
  <2>1. \E j \in Jobs : phase'[j] # "absent"
    BY <1>1
  <2>2. UNCHANGED <<configVars, now, windowVars>>
    OBVIOUS
  <2>. QED  BY <2>1, <2>2, WindowsUnchanged
<1> DEFINE dr == draining'
           d == clock'[n]
<1>4. d = IF windows = <<>> \/ ~Up(st, n) THEN NoClock
          ELSE IF n \in {} /\ (plus \/ n \notin dr)
               THEN IF plus THEN PlusClock(clock[n], Rules(Queues, n), IdleVcpu(host', n))
                    ELSE MonitorClock(clock[n], Rules(Queues, n), IdleVcpu(host', n))
          ELSE clock[n]
  <2>1. windows = <<>> => clock[n] = NoClock
    BY <1>2 DEF ClockKept, HistoryKept
  <2>. QED  BY <2>1
<1>5. GoesOn(n, st, dr, {}, Queues)
  <2>1. RuleSet(Rules(Queues, n))
    BY <1>2, QueuesType
  <2>2. Up(st, n) => tier[n] \in Tiers
    BY <1>2, UpHasTier
  <2>. QED  BY <1>1, <2>1, <2>2 DEF GoesOn
<1>6. History(host', st)
  BY <1>1
<1> HIDE DEF dr, d
<1>7. ClockAfter(n, d, idle_from'[n], st, dr, Queues)
  BY ONLY <1>2, <1>4, <1>5, <1>6, n \in Nodes, ClockStep
<1>8. Up(state', n) => tier'[n] = tier[n] /\ (Rules(Queues, n))' = Rules(Queues, n)
  BY <1>3 DEF Rules
<1>9. ClockAfter(n, clock'[n], idle_from'[n], state', draining', Queues)
  BY <1>7 DEF d, dr
<1>. QED  BY <1>1, <1>8, <1>9, ClockIsKept

(* A node goes, or every node stays: what an idle timer or a drain leaves, *)
(* when the clock of the node it is about is as it should be.              *)
LEMMA OneNodeStep ==
  ASSUME IInv, NEW n \in Nodes, NEW gone \in SUBSET {n}, state[n] \in {"READY", "IDLE"},
         gone # {} => On(host, n) = {},
         UNCHANGED <<configVars, now, windowVars, jobVars, last_spawn>>,
         state' = [m \in Nodes |-> IF m \in gone THEN "TERMINATED" ELSE state[m]],
         tier' = TierWithout(gone), draining' \subseteq draining \cup {n},
         History(host, state'), clock' = [clock EXCEPT ![n] = clock'[n]],
         ClockAfter(n, clock'[n], idle_from'[n], state', draining', Queues),
         ClockKept(n)'
  PROVE  IInv'
<1> DEFINE st == [m \in Nodes |-> IF m \in gone THEN "TERMINATED" ELSE state[m]]
<1>1. TypeOK /\ Configured /\ InOrder(state) /\ \E j \in Jobs : phase[j] # "absent"
  BY DEF IInv, LaunchOrder
<1>2. /\ state' = st /\ st \in [Nodes -> States]
      /\ \A m \in Nodes : m # n => st[m] = state[m]
      /\ st[n] = IF gone = {} THEN state[n] ELSE "TERMINATED"
  BY <1>1 DEF TypeOK, States
<1> HIDE DEF st
<1>3. /\ tier' \in [Nodes -> Tiers \cup {0}]
      /\ \A m \in Nodes : tier'[m] = IF m \in gone THEN 0 ELSE tier[m]
  BY <1>1 DEF TypeOK, TierWithout
<1>4. ASSUME NEW m \in Nodes, m # n
      PROVE  /\ ClockAfter(m, clock'[m], idle_from'[m], st, draining', Queues)
             /\ ClockKept(m)'
  <2>1. clock'[m] = clock[m] /\ tier'[m] = tier[m] /\ m \notin gone
        /\ (m \in draining' => m \in draining)
    BY <1>1, <1>3, <1>4 DEF Configured
  <2>2. Up(st, m) <=> Up(state, m)
    BY <1>2, <1>4 DEF Up
  <2>3. clock'[m] = IF Up(st, m) THEN clock[m] ELSE NoClock
    BY <2>1, <2>2 DEF IInv, ClockKept, HistoryKept
  <2>4. History(host, st) /\ state' = st
    BY <1>2
  <2>5. UNCHANGED <<configVars, now, windowVars, jobVars>>
    OBVIOUS
  <2>. QED  BY <1>1, <2>1, <2>2, <2>3, <2>4, <2>5, GoesOnKept
<1>5. \A m \in Nodes : ClockAfter(m, clock'[m], idle_from'[m], state', draining', Queues)
                       /\ ClockKept(m)'
  BY <1>2, <1>4
<1>6. clock' \in [Nodes -> Clock]
  <2>1. clock' = [m \in Nodes |-> clock'[m]]
    BY <1>1 DEF Configured
  <2>. QED  BY <1>5, <2>1 DEF ClockAfter
<1>7. idle_from' \in [Nodes -> [Thresholds -> Nat \cup {Never}]]
  <2>1. idle_from' = [m \in Nodes |-> idle_from'[m]]
    BY DEF History
  <2>. QED  BY <1>5, <2>1 DEF ClockAfter
<1>8. \A m \in Nodes : tier'[m] = 0 <=> state'[m] \in {"none", "TERMINATED"}
  BY <1>1, <1>2, <1>3 DEF TypeOK
<1>9. \A m \in Nodes : On(host, m) # {} => state'[m] = state[m] /\ tier'[m] = tier[m]
  BY <1>2, <1>3
<1>10. InOrder(state')
  <2>1. \A m \in Nodes : st[m] # "none" <=> state[m] # "none"
    BY <1>2
  <2>. QED  BY <1>1, <1>2, <2>1 DEF InOrder
<1>11. draining' \subseteq Nodes /\ last_spawn' \in [Tiers -> {Never} \cup 0..MaxNow]
       /\ UNCHANGED <<configVars, now, windowVars, jobVars>>
  BY <1>1 DEF TypeOK
<1>12. \A m \in Nodes : clock'[m].wake = Never \/ clock'[m].wake >= now
  BY <1>5 DEF ClockAfter
<1>13. state' \in [Nodes -> States]
  BY <1>2
<1>. QED  BY <1>1, <1>3, <1>5, <1>6, <1>7, <1>8, <1>9, <1>10, <1>11, <1>12, <1>13, QuietStep

(* _idle_timer: the node goes.                                             *)
LEMMA IdleFiresStep ==
  ASSUME IInv, NEW n \in Nodes, IdleFires(n)
  PROVE  IInv'
<1> DEFINE st == [m \in Nodes |-> IF m \in {n} THEN "TERMINATED" ELSE state[m]]
<1>1. /\ state[n] = "IDLE" /\ On(host, n) = {} /\ n \notin draining
      /\ state' = [state EXCEPT ![n] = "TERMINATED"] /\ tier' = TierWithout({n})
      /\ clock' = [clock EXCEPT ![n] = NoClock] /\ History(host, state')
      /\ UNCHANGED <<configVars, now, windowVars, jobVars, draining, last_spawn>>
  BY DEF IdleFires
<1>2. TypeOK /\ Configured /\ \E j \in Jobs : phase[j] # "absent"
  BY <1>1 DEF IInv, LaunchOrder
<1>3. state' = st /\ ~Up(st, n) /\ clock'[n] = NoClock
  BY <1>1, <1>2 DEF TypeOK, Configured, Up
<1>4. ClockAfter(n, clock'[n], idle_from'[n], st, draining', Queues) /\ ClockKept(n)'
  <2>1. UNCHANGED <<configVars, now, windowVars, jobVars>> /\ History(host, st)
        /\ (n \in draining' => n \in draining)
    BY <1>1, <1>3
  <2>2. clock'[n] = IF Up(st, n) THEN clock[n] ELSE NoClock
    BY <1>3
  <2> HIDE DEF st
  <2>. QED  BY <1>2, <1>3, <2>1, <2>2, GoesOnKept
<1>5. clock' = [clock EXCEPT ![n] = clock'[n]]
  BY <1>1, <1>3
<1>6. state' = [m \in Nodes |-> IF m \in {n} THEN "TERMINATED" ELSE state[m]]
      /\ ClockAfter(n, clock'[n], idle_from'[n], state', draining', Queues)
  BY <1>3, <1>4
<1>7. draining' \subseteq draining \cup {n}
      /\ UNCHANGED <<configVars, now, windowVars, jobVars, last_spawn>>
  BY <1>1
<1>. QED  BY <1>1, <1>4, <1>5, <1>6, <1>7, OneNodeStep

(* What times the draining of a node runs out.                             *)
LEMMA DrainFiresStep ==
  ASSUME IInv, NEW n \in Nodes, DrainFires(n)
  PROVE  IInv'
<1> DEFINE gone == IF plus /\ On(host, n) = {} THEN {n} ELSE {}
           st == [m \in Nodes |-> IF m \in gone THEN "TERMINATED" ELSE state[m]]
<1>1. /\ clock[n].wake = now
      /\ state' = st /\ tier' = TierWithout(gone)
      /\ draining' = (IF gone = {} THEN draining \cup {n} ELSE draining \ gone)
      /\ clock' = [clock EXCEPT ![n] = IF n \in gone THEN NoClock ELSE [@ EXCEPT !.wake = Never]]
      /\ History(host, st)
      /\ UNCHANGED <<configVars, now, windowVars, jobVars, last_spawn>>
  BY DEF DrainFires
<1>2. TypeOK /\ Configured /\ ClockKept(n) /\ now \in Nat /\ now # Never
  BY TierAssumption DEF IInv, TypeOK, Never
<1>3. clock[n] # NoClock /\ windows # <<>> /\ Up(state, n) /\ clock[n] \in Clock
  BY <1>1, <1>2, NoClockType DEF ClockKept, HistoryKept, Configured
<1>4. state[n] \in {"READY", "IDLE"} /\ \E j \in Jobs : phase[j] # "absent"
  BY <1>3 DEF Up, IInv, LaunchOrder
<1>5. clock'[n] = (IF n \in gone THEN NoClock ELSE [clock[n] EXCEPT !.wake = Never])
      /\ clock' = [clock EXCEPT ![n] = clock'[n]]
  BY <1>1, <1>2 DEF Configured
<1>6. ClockAfter(n, clock'[n], idle_from'[n], st, draining', Queues) /\ ClockKept(n)'
  <2>1. CASE n \in gone
    <3>1. ~Up(st, n) /\ clock'[n] = NoClock /\ n \notin draining'
      BY <1>1, <1>5, <2>1 DEF Up
    <3>2. UNCHANGED <<configVars, now, windowVars, jobVars>> /\ History(host, st)
          /\ clock'[n] = (IF Up(st, n) THEN clock[n] ELSE NoClock)
      BY <1>1, <3>1
    <3>3. state' = st
      BY <1>1
    <3> HIDE DEF st
    <3>. QED  BY <1>4, <3>1, <3>2, <3>3, GoesOnKept
  <2>2. CASE n \notin gone
    <3>1. st[n] = state[n] /\ Up(st, n) /\ tier'[n] = tier[n]
          /\ clock'[n] = [clock[n] EXCEPT !.wake = Never]
      BY <1>1, <1>3, <1>5, <2>2 DEF TierWithout, Up
    <3>2. host' = host /\ History(host', st)
      BY <1>1 DEF jobVars
    <3>3. GoesOn(n, st, draining, {}, Queues)
      <4>1. RuleSet(Rules(Queues, n))
        BY <1>2, QueuesType
      <4>2. tier[n] \in Tiers
        BY <1>2, <1>3, UpHasTier
      <4>. QED  BY <3>2, <4>1, <4>2 DEF GoesOn
    <3>4. clock[n] = IF windows = <<>> \/ ~Up(st, n) THEN NoClock
                     ELSE IF n \in {} /\ (plus \/ n \notin draining)
                          THEN IF plus THEN PlusClock(clock[n], Rules(Queues, n), IdleVcpu(host', n))
                               ELSE MonitorClock(clock[n], Rules(Queues, n), IdleVcpu(host', n))
                     ELSE clock[n]
      BY <1>3, <3>1
    <3> DEFINE d == clock[n]
    <3> HIDE DEF d, st
    <3>5. ClockAfter(n, d, idle_from'[n], st, draining, Queues)
      <4>1. d = IF windows = <<>> \/ ~Up(st, n) THEN NoClock
                ELSE IF n \in {} /\ (plus \/ n \notin draining)
                     THEN IF plus THEN PlusClock(clock[n], Rules(Queues, n), IdleVcpu(host', n))
                          ELSE MonitorClock(clock[n], Rules(Queues, n), IdleVcpu(host', n))
                ELSE clock[n]
        BY <3>4 DEF d
      <4>. QED  BY ONLY <1>2, <3>2, <3>3, <4>1, n \in Nodes, ClockStep
    <3> DEFINE c == clock'[n]
               from == idle_from'[n]
    <3>6. /\ c \in Clock /\ c.wake = Never
          /\ c.accrued = clock[n].accrued /\ c.since = clock[n].since
      BY <1>3, <3>1 DEF Clock
    <3>7. ClockAfter(n, c, from, st, draining', Queues)
      <4> HIDE DEF c, from
      <4>1. ClockAfter(n, clock[n], from, st, draining, Queues)
        BY <3>5 DEF d, from
      <4>. QED  BY <1>3, <3>1, <3>6, <4>1 DEF ClockAfter
    <3>8. Queues' = Queues
      <4>1. \E j \in Jobs : phase'[j] # "absent"
        BY <1>1, <1>4 DEF jobVars
      <4>2. UNCHANGED <<configVars, now, windowVars>>
        BY <1>1
      <4>. QED  BY <1>4, <4>1, <4>2, WindowsUnchanged
    <3>9. ClockAfter(n, clock'[n], idle_from'[n], state', draining', Queues)
      BY <1>1, <3>7
    <3>10. UNCHANGED <<plus, windows, now>>
           /\ (Up(state', n) => tier'[n] = tier[n] /\ (Rules(Queues, n))' = Rules(Queues, n))
      BY <1>1, <3>1, <3>8 DEF Rules, configVars
    <3>11. ClockKept(n)'
      BY <3>9, <3>10, ClockIsKept
    <3>. QED  BY <3>7, <3>11
  <2>. QED  BY <2>1, <2>2
<1>7. /\ gone \in SUBSET {n} /\ (gone # {} => On(host, n) = {})
      /\ draining' \subseteq draining \cup {n}
      /\ ClockAfter(n, clock'[n], idle_from'[n], state', draining', Queues)
      /\ History(host, state')
  BY <1>1, <1>6
<1>8. /\ state' = [m \in Nodes |-> IF m \in gone THEN "TERMINATED" ELSE state[m]]
      /\ tier' = TierWithout(gone)
      /\ UNCHANGED <<configVars, now, windowVars, jobVars, last_spawn>>
  BY <1>1
<1> HIDE DEF gone, st
<1>. QED  BY <1>4, <1>5, <1>6, <1>7, <1>8, OneNodeStep

(* A tick: no timer is due, and the rules of a tier that has the same all  *)
(* day stay the same.                                                      *)
LEMMA TickStep ==
  ASSUME IInv, Tick
  PROVE  IInv'
<1>1. /\ now < MaxNow /\ swap_at # now /\ now' = now + 1
      /\ \A n \in Nodes : clock[n].wake # now
      /\ UNCHANGED <<configVars, windowVars, jobVars, nodeVars, clock, idle_from>>
  BY DEF Tick
<1>2. /\ plus' = plus /\ windows' = windows /\ load' = load /\ idx' = idx /\ swap_at' = swap_at
      /\ tiers' = tiers /\ phase' = phase /\ host' = host /\ state' = state
      /\ draining' = draining /\ tier' = tier /\ last_spawn' = last_spawn
      /\ clock' = clock /\ idle_from' = idle_from
  BY <1>1 DEF configVars, windowVars, jobVars, nodeVars
<1>3. TypeOK /\ Configured /\ now \in 0..MaxNow /\ now \in Nat /\ MaxNow \in Nat
      /\ now + 1 # Never /\ now # Never
  BY TierAssumption DEF IInv, TypeOK, Never
<1>4. \A n \in Nodes : clock[n].wake \in Nat \cup {Never}
  BY <1>3 DEF Configured, Clock
<1>5. \A n \in Nodes : clock[n].wake = Never \/ clock[n].wake >= now + 1
  BY <1>1, <1>3, <1>4 DEF TypeOK
<1>6. swap_at = Never \/ (swap_at \in Nat /\ swap_at >= now + 1)
  BY <1>1, <1>3 DEF TypeOK, Configured
<1>7. TypeOK'
  BY <1>1, <1>2, <1>3, <1>5, <1>6 DEF TypeOK
<1>8. Configured'
  <2>1. Clock' = Clock /\ PreflightPasses(load)' = PreflightPasses(load') /\ Thresholds' = Thresholds
    BY DEF Clock, PreflightPasses, Thresholds, Named, NoZone
  <2>. QED  BY <1>2, <1>3, <2>1 DEF Configured
<1>9. LaunchOrder' /\ TiersHost' /\ RejectedWarned'
  BY <1>2 DEF IInv, LaunchOrder, InOrder, TiersHost, Hosting, RejectedWarned, PreflightWarns
<1>10. JobsFit(phase, host, state, tiers)'
  <2>1. JobsFit(phase, host, state, tiers)
    BY DEF IInv
  <2>2. \A n \in Nodes : (On(host, n))' = On(host, n) /\ (LoadOf(host, n, Soft))' = LoadOf(host, n, Soft)
                         /\ (Effective(tier[n]))' = Effective(tier[n])
    BY <1>2 DEF On, LoadOf, Effective
  <2>. QED  BY <1>2, <2>1, <2>2 DEF JobsFit
<1>11. WindowKept'
  <2> DEFINE i == WindowAt(now)
             e == windows[i].end
             tod == now % Day
             next == (now + 1) % Day
  <2>1. CASE swap_at = Never
    <3>1. WindowKept
      BY DEF IInv
    <3>. QED  BY <1>2, <2>1, <3>1 DEF WindowKept
  <2>2. CASE swap_at # Never
    <3>1. /\ ~plus /\ windows # <<>> /\ \E j \in Jobs : phase[j] # "absent"
          /\ idx = i /\ swap_at = now + e - tod
      BY <1>1, <2>2 DEF IInv, WindowKept
    <3>2. tod \in 0..(Day - 1) /\ next = (IF tod + 1 = Day THEN 0 ELSE tod + 1)
      BY <1>3, TimeOfDay
    <3>3. i \in 1..Len(windows) /\ e \in Nat /\ e <= Day /\ Day \in Nat \ {0}
      <4>1. i \in 1..Len(windows)
        BY <1>3, <3>1, WindowAtIs DEF Configured
      <4>. QED  BY <1>3, <4>1, WindowType, WindowEnds, TierAssumption DEF Configured
    <3>4. WindowAt(now + 1) = IF e = tod + 1 THEN WindowAfter(i) ELSE i
      BY <1>3, <3>1, WindowOfNextTick DEF Configured
    <3>5. WindowAt(now)' = WindowAt(now + 1) /\ WindowAt(now - 1)' = WindowAt(now)
      <4>1. (now + 1) - 1 = now
        BY <1>3
      <4>. QED  BY <1>1, <1>2, <4>1 DEF WindowAt
    <3> HIDE DEF i, e, tod, next
    <3>6. swap_at \in Nat /\ swap_at >= now + 1
      BY <1>6, <2>2
    <3>7. ASSUME swap_at = now + 1
          PROVE  now + 1 > 0 /\ idx = i /\ e = tod + 1
      BY <1>3, <3>1, <3>2, <3>3, <3>7
    <3>8. ASSUME swap_at # now + 1
          PROVE  idx = WindowAt(now + 1) /\ swap_at = (now + 1) + e - next
      <4>1. e # tod + 1 /\ e > tod + 1
        BY <1>3, <3>1, <3>2, <3>3, <3>6, <3>8
      <4>2. next = tod + 1
        BY <3>2, <3>3, <4>1
      <4>. QED  BY <1>3, <3>1, <3>2, <3>3, <3>4, <4>1, <4>2
    <3>9. (now - 1)' = now /\ (now % Day)' = next
      BY <1>1, <1>3 DEF next
    <3>10. e = windows[i].end /\ tod = now % Day
      BY DEF e, tod
    <3>11. (swap_at # Never /\ swap_at = now =>
               /\ now > 0 /\ idx = WindowAt(now - 1)
               /\ windows[idx].end = ((now - 1) % Day) + 1)'
      <4>1. ((now - 1) % Day)' = tod
        BY <3>9, <3>10
      <4>2. WindowAt(now - 1)' = i
        BY <3>5 DEF i
      <4>. QED  BY <1>1, <1>2, <3>7, <3>10, <4>1, <4>2
    <3>12. (swap_at # Never /\ swap_at # now =>
               /\ idx = WindowAt(now) /\ swap_at = now + windows[idx].end - (now % Day))'
      BY <1>1, <1>2, <3>1, <3>5, <3>8, <3>9, <3>10
    <3>13. (swap_at # Never <=> ~plus /\ windows # <<>> /\ \E j \in Jobs : phase[j] # "absent")'
      BY <1>2, <2>2, <3>1
    <3>. QED  BY <3>11, <3>12, <3>13 DEF WindowKept
  <2>. QED  BY <2>1, <2>2
<1>12. \A n \in Nodes : ClockKept(n)'
  <2> TAKE n \in Nodes
  <2>1. ClockKept(n)
    BY DEF IInv
  <2>2. IdleVcpu(host, n)' = IdleVcpu(host, n) /\ Up(state, n)' = Up(state, n)
        /\ Steady(tier[n])' = Steady(tier[n])
    BY <1>2 DEF IdleVcpu, LoadOf, On, Up, Steady
  <2>3. ~plus \/ windows = <<>> \/ Steady(tier[n]) => (Rules(Queues, n))' = Rules(Queues, n)
    <3>1. CASE ~plus \/ windows = <<>>
      <4>1. Queues' = Queues
        BY <1>2, <3>1 DEF Queues
      <4>. QED  BY <1>2, <4>1 DEF Rules
    <3>2. CASE plus /\ windows # <<>> /\ Steady(tier[n])
      <4> DEFINE i == WindowAt(now)
                 k == WindowAt(now + 1)
      <4>0. now + 1 \in Nat /\ windows \in Policies /\ windows # <<>>
        BY <1>3, <3>2 DEF Configured
      <4>1. i \in 1..Len(windows) /\ k \in 1..Len(windows)
        BY <1>3, <4>0, WindowAtIs
      <4>2. Queues = windows[i].queues /\ Queues' = windows[k].queues
        BY <1>1, <1>2, <3>2 DEF Queues, WindowAt
      <4> HIDE DEF i, k
      <4>3. Rules(windows[i].queues, n) = Rules(windows[k].queues, n)
        BY <1>3, <3>2, <4>1, SteadyRules DEF Configured
      <4>4. (Rules(Queues, n))' = Rules(windows[k].queues, n)
        BY <1>2, <4>2 DEF Rules
      <4>. QED  BY <4>2, <4>3, <4>4
    <3>. QED  BY <3>1, <3>2
  <2>4. HistoryKept(n)'
    <3>1. \A th \in Thresholds : idle_from[n][th] \in Nat \cup {Never}
      BY <1>3 DEF Configured
    <3>2. \A th \in Thresholds : idle_from[n][th] # Never => idle_from[n][th] <= now + 1
      BY <1>3, <2>1, <3>1 DEF ClockKept, HistoryKept
    <3>3. /\ clock[n] # NoClock => windows # <<>> /\ Up(state, n)
          /\ \A th \in Thresholds : idle_from[n][th] # Never =>
               windows # <<>> /\ Up(state, n) /\ th <= IdleVcpu(host, n)
      BY <2>1 DEF ClockKept, HistoryKept
    <3>4. NoClock' = NoClock /\ Thresholds' = Thresholds
      BY DEF NoClock, Thresholds
    <3>. QED  BY <1>1, <1>2, <2>2, <3>2, <3>3, <3>4 DEF HistoryKept
  <2>5. windows = <<>> => clock[n].wake = Never
    BY <2>1, NoClockType DEF ClockKept, HistoryKept
  <2>6. TimerWaits(n)'
    <3>1. CASE ~plus \/ windows = <<>> \/ Steady(tier[n])
      BY <1>2, <2>1, <2>2, <2>3, <3>1 DEF ClockKept, TimerWaits
    <3>2. CASE plus /\ ~Steady(tier[n])
      BY <1>2, <2>2, <3>2 DEF TimerWaits
    <3>. QED  BY <3>1, <3>2
  <2>7. AccruedIdle(n)'
    BY <1>2, <2>1, <2>2, <2>3 DEF ClockKept, AccruedIdle, Thresholds
  <2>. QED  BY <1>2, <2>1, <2>4, <2>6, <2>7 DEF ClockKept
<1>. QED  BY <1>7, <1>8, <1>9, <1>10, <1>11, <1>12 DEF IInv

-----------------------------------------------------------------------------
(* The active policies are of declared tiers.                              *)
LEMMA QueuesAreTiers ==
  ASSUME TypeOK, Configured
  PROVE  /\ DOMAIN Queues \subseteq Tiers
         /\ \A t \in DOMAIN Queues : Queues[t].max_nodes \in Nat /\ Queues[t].gap \in Nat
<1>1. CASE windows = <<>>
  <2>1. Queues = [t \in Tiers |-> Default]
    BY <1>1, QueuesType
  <2>2. Default.max_nodes \in Nat /\ Default.gap \in Nat
    BY TierAssumption DEF Default
  <2>. QED  BY <2>1, <2>2
<1>2. CASE windows # <<>>
  <2>1. PICK i \in 1..Len(windows) : Queues = windows[i].queues
    BY <1>2, QueuesType
  <2>2. DOMAIN windows[i].queues \subseteq Tiers
        /\ \A t \in DOMAIN windows[i].queues : QueuePolicy(windows[i].queues[t])
    BY WindowType DEF Configured
  <2>. QED  BY <2>1, <2>2 DEF QueuePolicy
<1>. QED  BY <1>1, <1>2

(* The nodes of a tier among those to launch.                              *)
Copies(types, t) == {i \in DOMAIN types : types[i] = t}

(* One more node of a tier.                                                *)
LEMMA CopiesAppend ==
  ASSUME NEW types \in Seq(Tiers), NEW best \in Tiers, NEW t
  PROVE  /\ IsFiniteSet(Copies(types, t)) /\ Cardinality(Copies(types, t)) \in Nat
         /\ Cardinality(Copies(Append(types, best), t))
              = Cardinality(Copies(types, t)) + (IF t = best THEN 1 ELSE 0)
         /\ Cardinality(Copies(types, t)) > 0 <=> t \in Range(types)
<1> DEFINE n == Len(types)
           more == Append(types, best)
           C == Copies(types, t)
<1>1. n \in Nat /\ DOMAIN types = 1..n
  OBVIOUS
<1>2. /\ DOMAIN more = 1..(n+1) /\ more[n+1] = best
      /\ \A i \in 1..n : more[i] = types[i]
  OBVIOUS
<1>3. C \subseteq 1..n
  BY <1>1 DEF Copies
<1>4. IsFiniteSet(C) /\ Cardinality(C) \in Nat
  <2>1. IsFiniteSet(1..n)
    BY <1>1, FS_Interval
  <2>. QED  BY <1>3, <2>1, FS_Subset, FS_CardinalityType
<1>5. Copies(more, t) = IF t = best THEN C \cup {n+1} ELSE C
  <2> HIDE DEF more, n
  <2>. QED  BY <1>1, <1>2 DEF Copies
<1>6. n+1 \notin C
  BY <1>1, <1>3
<1>7. Cardinality(C \cup {n+1}) = Cardinality(C) + 1
  BY <1>4, <1>6, FS_AddElement
<1>8. Cardinality(C) > 0 <=> C # {}
  BY <1>4, FS_EmptySet
<1>9. C # {} <=> t \in Range(types)
  BY DEF Copies, Range
<1> HIDE DEF C, more, n
<1>10. Cardinality(Copies(more, t)) = Cardinality(C) + (IF t = best THEN 1 ELSE 0)
  BY <1>4, <1>5, <1>7
<1>. QED  BY <1>4, <1>8, <1>9, <1>10 DEF C, more

(* best_tier: none, or a tier that may launch one more node, for a job.    *)
LEMMA BestTierOpen ==
  ASSUME TypeOK, Configured, NEW jobs \in SUBSET Jobs, NEW types \in Seq(Tiers),
         NEW best, best = BestTier(jobs, types), best # 0
  PROVE  /\ best \in DOMAIN Queues /\ best \in Tiers
         /\ SpawnEligible(best) \/ best \in Range(types)
         /\ CountOf(best) + Cardinality(Copies(types, best)) < Queues[best].max_nodes
         /\ Packs(best, jobs) # {}
<1> DEFINE launched(t) == Cardinality({i \in DOMAIN types : types[i] = t})
           open == {t \in DOMAIN Queues : /\ SpawnEligible(t) \/ launched(t) > 0
                                          /\ CountOf(t) + launched(t) < Queues[t].max_nodes
                                          /\ Packs(t, jobs) # {}}
           packed(t) == Cardinality(Packs(t, jobs))
           eligible(t) == Cardinality({j \in jobs : t \in Range(tiers[j])})
           Better(t, u) ==
             \/ packed(t) > packed(u)
             \/ packed(t) = packed(u) /\ eligible(t) > eligible(u)
             \/ /\ packed(t) = packed(u) /\ eligible(t) = eligible(u)
                /\ \/ TierDefs[t].spike < TierDefs[u].spike
                   \/ TierDefs[t].spike = TierDefs[u].spike /\ t <= u
           b == CHOOSE t \in open : \A u \in open : Better(t, u)
           R == {p \in open \X open : Better(p[1], p[2])}
<1>1. open # {} /\ best = b
  BY DEF BestTier
<1>2. open \subseteq Tiers
  BY QueuesAreTiers
<1>3. IsFiniteSet(open)
  BY <1>2, Finite, FS_Subset
<1>4. \A t \in open : /\ packed(t) \in Nat /\ eligible(t) \in Nat
                      /\ TierDefs[t].spike \in Nat /\ t \in Nat
  <2> SUFFICES ASSUME NEW t \in open
               PROVE  /\ packed(t) \in Nat /\ eligible(t) \in Nat
                      /\ TierDefs[t].spike \in Nat /\ t \in Nat
    OBVIOUS
  <2>1. t \in Tiers
    BY <1>2
  <2>2. {j \in jobs : t \in Range(tiers[j])} \in SUBSET (1..NumJobs) /\ NumJobs \in Nat
    BY NumJobsAssumption DEF Jobs
  <2>3. Packs(t, jobs) \in SUBSET {j \in jobs : t \in Range(tiers[j])}
    BY <2>2, OneNodeType DEF Packs
  <2>4. IsFiniteSet({j \in jobs : t \in Range(tiers[j])})
    BY <2>2, Finite, FS_Subset DEF Jobs
  <2>5. IsFiniteSet(Packs(t, jobs))
    BY <2>3, <2>4, FS_Subset
  <2>6. packed(t) \in Nat /\ eligible(t) \in Nat
    BY <2>4, <2>5, FS_CardinalityType
  <2>. QED  BY <2>1, <2>6, TierType, Finite
<1>5. \A t, u \in open : <<t, u>> \in R <=> Better(t, u)
  <2> HIDE DEF Better, open
  <2>. QED  OBVIOUS
<1>6. \A x, y \in open : <<x, y>> \in R \/ <<y, x>> \in R
  <2>1. \A x, y \in open : Better(x, y) \/ Better(y, x)
    <3> HIDE DEF open, packed, eligible
    <3>. QED  BY <1>4
  <2> HIDE DEF Better, R, open
  <2>. QED  BY <1>5, <2>1
<1>7. \A x, y, z \in open : <<x, y>> \in R /\ <<y, z>> \in R => <<x, z>> \in R
  <2>1. \A x, y, z \in open : Better(x, y) /\ Better(y, z) => Better(x, z)
    <3> HIDE DEF open, packed, eligible
    <3>. QED  BY <1>4
  <2> HIDE DEF Better, R, open
  <2>. QED  BY <1>5, <2>1
<1>8. \E x \in open : \A y \in open : <<x, y>> \in R
  <2> HIDE DEF R, open
  <2>. QED  BY <1>1, <1>3, <1>6, <1>7, GreatestExists
<1>9. b \in open
  <2> HIDE DEF Better, R, open
  <2>. QED  BY <1>5, <1>8
<1>10. best \in open
  BY <1>1, <1>9
<1>11. /\ best \in DOMAIN Queues
       /\ SpawnEligible(best) \/ launched(best) > 0
       /\ CountOf(best) + launched(best) < Queues[best].max_nodes
       /\ Packs(best, jobs) # {}
  BY <1>10
<1>12. launched(best) = Cardinality(Copies(types, best))
  BY DEF Copies
<1>13. best \in Tiers
  BY <1>2, <1>10
<1>14. Cardinality(Copies(types, best)) > 0 => best \in Range(types)
  BY <1>13, CopiesAppend
<1> HIDE DEF launched
<1>. QED  BY <1>11, <1>12, <1>13, <1>14

(* What the rounds of a provisioning pass may launch.                      *)
Allowed(types) ==
  \A t \in Range(types) :
    /\ t \in DOMAIN Queues /\ SpawnEligible(t)
    /\ CountOf(t) + Cardinality(Copies(types, t)) <= Queues[t].max_nodes

Passes == {p \in [left : SUBSET Overflow, types : Seq(Tiers)] :
             Allowed(p.types) /\ (p.types # <<>> => Overflow # {})}

(* The nodes of a tier are counted.                                        *)
LEMMA CountType ==
  ASSUME NEW t
  PROVE  CountOf(t) \in Nat
<1>1. IsFiniteSet({n \in Nodes : tier[n] = t /\ state[n] # "TERMINATED"})
  BY Finite, FS_Subset
<1>. QED  BY <1>1, FS_CardinalityType DEF CountOf

(* One round.                                                              *)
LEMMA LaunchOneType ==
  ASSUME TypeOK, Configured, NEW p \in Passes
  PROVE  LaunchOne(p) \in Passes
<1> DEFINE best == BestTier(p.left, p.types)
           types == Append(p.types, best)
<1>1. /\ p.left \subseteq Overflow /\ p.types \in Seq(Tiers) /\ Allowed(p.types)
      /\ Overflow \subseteq Jobs
  BY DEF Passes, Overflow, Pending, Queued
<1>2. CASE best = 0
  <2>1. LaunchOne(p) = p
    BY <1>2 DEF LaunchOne
  <2>. QED  BY <2>1
<1>3. CASE best # 0
  <2>1. /\ best \in DOMAIN Queues /\ best \in Tiers
        /\ SpawnEligible(best) \/ best \in Range(p.types)
        /\ CountOf(best) + Cardinality(Copies(p.types, best)) < Queues[best].max_nodes
        /\ Packs(best, p.left) # {}
    <3>1. p.left \in SUBSET Jobs
      BY <1>1
    <3> HIDE DEF best
    <3>2. best = BestTier(p.left, p.types)
      BY DEF best
    <3>. QED  BY <1>1, <1>3, <3>1, <3>2, BestTierOpen
  <2>2. LaunchOne(p) = [left |-> p.left \ Packs(best, p.left), types |-> types]
    BY <1>3 DEF LaunchOne
  <2>3. Overflow # {}
    <3>1. {j \in p.left : best \in Range(tiers[j])} \in SUBSET (1..NumJobs) /\ NumJobs \in Nat
      BY <1>1, NumJobsAssumption DEF Jobs
    <3>2. Packs(best, p.left) \in SUBSET {j \in p.left : best \in Range(tiers[j])}
      <4> HIDE DEF best
      <4>. QED  BY <3>1, OneNodeType DEF Packs
    <3>. QED  BY <1>1, <2>1, <3>2
  <2> HIDE DEF best
  <2>4. types \in Seq(Tiers) /\ Range(types) \subseteq Range(p.types) \cup {best}
    BY <1>1, <2>1 DEF Range
  <2>5. ASSUME NEW t \in Range(types)
        PROVE  /\ t \in DOMAIN Queues /\ SpawnEligible(t)
               /\ CountOf(t) + Cardinality(Copies(types, t)) <= Queues[t].max_nodes
    <3>1. t \in DOMAIN Queues /\ SpawnEligible(t)
      BY <1>1, <2>1, <2>4, <2>5 DEF Allowed
    <3>2. /\ Cardinality(Copies(p.types, t)) \in Nat
          /\ Cardinality(Copies(types, t))
               = Cardinality(Copies(p.types, t)) + (IF t = best THEN 1 ELSE 0)
      BY <1>1, <2>1, CopiesAppend
    <3>3. CountOf(t) \in Nat /\ Queues[t].max_nodes \in Nat
      BY <3>1, CountType, QueuesAreTiers
    <3>4. CASE t = best
      <4>1. CountOf(t) + Cardinality(Copies(p.types, t)) < Queues[t].max_nodes
        BY <2>1, <3>4
      <4>2. Cardinality(Copies(types, t)) = Cardinality(Copies(p.types, t)) + 1
        BY <3>2, <3>4
      <4> HIDE DEF types
      <4>. QED  BY <3>1, <3>2, <3>3, <4>1, <4>2
    <3>5. CASE t # best
      <4>1. CountOf(t) + Cardinality(Copies(p.types, t)) <= Queues[t].max_nodes
        BY <1>1, <2>4, <2>5, <3>5 DEF Allowed
      <4>2. Cardinality(Copies(types, t)) = Cardinality(Copies(p.types, t))
        BY <3>2, <3>5
      <4> HIDE DEF types
      <4>. QED  BY <3>1, <4>1, <4>2
    <3>. QED  BY <3>1, <3>4, <3>5
  <2>6. Allowed(types)
    BY <2>5 DEF Allowed
  <2> HIDE DEF types
  <2>. QED  BY <1>1, <2>2, <2>3, <2>4, <2>6 DEF Passes
<1>. QED  BY <1>2, <1>3

(* The tiers a pass launches for may each have those nodes more.           *)
LEMMA LaunchesType ==
  ASSUME TypeOK, Configured
  PROVE  /\ Launches \in Seq(Tiers) /\ Allowed(Launches)
         /\ Launches # <<>> => \E j \in Jobs : phase[j] = "queued"
<1> DEFINE base == [left |-> Overflow, types |-> <<>>]
           V == Passes
           step == [k \in 1..NumJobs |-> [p \in V |-> LaunchOne(p)]]
<1>1. NumJobs \in Nat
  BY NumJobsAssumption
<1>2. base \in V
  <2>1. <<>> \in Seq(Tiers) /\ Allowed(<<>>)
    BY DEF Allowed, Range
  <2>. QED  BY <2>1 DEF Passes
<1>3. step \in [1..NumJobs -> [V -> V]]
  BY LaunchOneType
<1>4. PICK g \in [0..NumJobs -> V] : Recursion(g, base, step, NumJobs)
  <2> HIDE DEF V, step, base
  <2>. QED  BY <1>1, <1>2, <1>3, RecursionExists
<1> DEFINE Eqn(q) == q = [k \in 0..NumJobs |->
                            IF k = 0 THEN [left |-> Overflow, types |-> <<>>] ELSE LaunchOne(q[k-1])]
           P == CHOOSE q : Eqn(q)
<1>5. Eqn(g)
  <2>1. \A k \in 0..NumJobs : g[k] = IF k = 0 THEN base ELSE LaunchOne(g[k-1])
    <3> TAKE k \in 0..NumJobs
    <3>1. CASE k = 0
      BY <1>4, <3>1 DEF Recursion
    <3>2. CASE k # 0
      <4>1. k \in 1..NumJobs /\ k-1 \in 0..NumJobs
        BY <1>1, <3>2
      <4>2. g[k] = step[k][g[k-1]] /\ g[k-1] \in V
        BY <1>4, <4>1 DEF Recursion
      <4> HIDE DEF V
      <4>. QED  BY <3>2, <4>1, <4>2
    <3>. QED  BY <3>1, <3>2
  <2> HIDE DEF V
  <2>. QED  BY <2>1
<1> HIDE DEF step, V
<1>6. Eqn(P)
  <2> HIDE DEF Eqn
  <2>. QED  BY <1>5
<1>7. Launches = P[NumJobs].types
  BY DEF Launches
<1> HIDE DEF P
<1>8. \A k \in 0..NumJobs : P[k] = IF k = 0 THEN base ELSE LaunchOne(P[k-1])
  BY <1>6
<1> DEFINE I == {m \in Nat : m <= NumJobs => P[m] \in V}
<1>9. 0 \in I
  BY <1>1, <1>2, <1>8
<1>10. ASSUME NEW m \in Nat, m \in I PROVE m+1 \in I
  <2> SUFFICES ASSUME m+1 <= NumJobs PROVE P[m+1] \in V
    OBVIOUS
  <2>1. P[m] \in V /\ m+1 \in 0..NumJobs /\ m+1 # 0 /\ (m+1)-1 = m
    BY <1>1, <1>10
  <2>2. P[m+1] = LaunchOne(P[m])
    BY <1>8, <2>1
  <2>. QED  BY <2>1, <2>2, LaunchOneType DEF V
<1>11. P[NumJobs] \in V
  <2>1. NumJobs \in I
    <3> HIDE DEF I
    <3>. QED  BY <1>1, <1>9, <1>10, NatSetInduction
  <2>. QED  BY <1>1, <2>1
<1>12. P[NumJobs].types \in Seq(Tiers) /\ Allowed(P[NumJobs].types)
       /\ (P[NumJobs].types # <<>> => Overflow # {})
  BY <1>11 DEF V, Passes
<1>13. Overflow # {} => \E j \in Jobs : phase[j] = "queued"
  BY DEF Overflow, Pending, Queued
<1>. QED  BY <1>7, <1>12, <1>13

(* The nodes that _provision_to_demand_joint launches come after the last. *)
LEMMA NewNodes ==
  ASSUME IInv, Provision
  PROVE  LET types == Launches
             from == Cardinality(Launched)
             new == (from+1)..(from+Len(types))
         IN  /\ types \in Seq(Tiers) /\ types # <<>> /\ Allowed(types) /\ from \in Nat
             /\ \E j \in Jobs : phase[j] # "absent"
             /\ new \subseteq Nodes /\ Launched = 1..from
             /\ \A n \in new : n - from \in 1..Len(types)
             /\ \A n \in Nodes :
                  /\ n \in new => /\ state[n] = "none" /\ state'[n] = "LAUNCHING"
                                  /\ tier'[n] = types[n - from] /\ tier'[n] \in Tiers
                  /\ n \notin new => state'[n] = state[n] /\ tier'[n] = tier[n]
<1> DEFINE types == Launches
           from == Cardinality(Launched)
           new == (from+1)..(from+Len(types))
<1>1. /\ types # <<>> /\ from + Len(types) <= MaxNodes
      /\ state' = [n \in Nodes |-> IF n \in new THEN "LAUNCHING" ELSE state[n]]
      /\ tier' = [n \in Nodes |-> IF n \in new THEN types[n - from] ELSE tier[n]]
  BY DEF Provision
<1>2. TypeOK /\ Configured /\ InOrder(state) /\ MaxNodes \in Nat
  BY TierAssumption DEF IInv, LaunchOrder
<1>3. /\ types \in Seq(Tiers) /\ Allowed(types)
      /\ types # <<>> => \E j \in Jobs : phase[j] = "queued"
  BY <1>2, LaunchesType
<1>4. from \in Nat /\ Launched = 1..from
  <2>1. Launched \in SUBSET (1..MaxNodes)
    BY DEF Launched, Nodes
  <2>2. \A x \in Launched, y \in 1..MaxNodes : y < x => y \in Launched
    BY <1>2 DEF Launched, Nodes, InOrder
  <2>. QED  BY <1>2, <2>1, <2>2, PrefixIsInterval
<1> HIDE DEF types, from
<1>5. \A n \in new : n - from \in 1..Len(types) /\ n \in Nodes
  BY <1>1, <1>2, <1>3, <1>4 DEF Nodes
<1>6. \A n \in new : types[n - from] \in Tiers
  BY <1>3, <1>5
<1>7. \A n \in new : state[n] = "none"
  <2>1. \A n \in new : n \notin Launched
    BY <1>3, <1>4
  <2>. QED  BY <1>5, <2>1 DEF Launched
<1>8. \E j \in Jobs : phase[j] # "absent"
  <2>1. PICK j \in Jobs : phase[j] = "queued"
    BY <1>1, <1>3
  <2>. QED  BY <2>1
<1>9. \A n \in Nodes :
        /\ n \in new => /\ state[n] = "none" /\ state'[n] = "LAUNCHING"
                        /\ tier'[n] = types[n - from] /\ tier'[n] \in Tiers
        /\ n \notin new => state'[n] = state[n] /\ tier'[n] = tier[n]
  BY <1>1, <1>6, <1>7
<1>. QED  BY <1>1, <1>3, <1>4, <1>5, <1>8, <1>9 DEF types, from

(* The nodes launched for the overflow of the queue.                       *)
LEMMA ProvisionStep ==
  ASSUME IInv, Provision
  PROVE  IInv'
<1> DEFINE types == Launches
           from == Cardinality(Launched)
           new == (from+1)..(from+Len(types))
<1>1. /\ state' = [n \in Nodes |-> IF n \in new THEN "LAUNCHING" ELSE state[n]]
      /\ tier' = [n \in Nodes |-> IF n \in new THEN types[n - from] ELSE tier[n]]
      /\ last_spawn' = [t \in Tiers |-> IF t \in Range(types) THEN now ELSE last_spawn[t]]
      /\ UNCHANGED <<configVars, now, windowVars, jobVars>>
      /\ draining' = draining /\ clock' = clock /\ idle_from' = idle_from
  BY DEF Provision
<1>2. /\ from \in Nat /\ types \in Seq(Tiers) /\ Launched = 1..from
      /\ \E j \in Jobs : phase[j] # "absent"
      /\ \A n \in Nodes :
           /\ n \in new => /\ state[n] = "none" /\ state'[n] = "LAUNCHING"
                           /\ tier'[n] = types[n - from] /\ tier'[n] \in Tiers
           /\ n \notin new => state'[n] = state[n] /\ tier'[n] = tier[n]
  BY NewNodes
<1>3. TypeOK /\ Configured /\ InOrder(state)
  BY DEF IInv, LaunchOrder
<1> HIDE DEF types, from
<1>4. state' \in [Nodes -> States] /\ tier' \in [Nodes -> Tiers \cup {0}]
  <2>1. \A n \in Nodes : state'[n] \in States /\ tier'[n] \in Tiers \cup {0}
    BY <1>2, <1>3 DEF TypeOK, States
  <2>. QED  BY <1>1, <2>1
<1>5. last_spawn' \in [Tiers -> {Never} \cup 0..MaxNow]
  BY <1>1, <1>3 DEF TypeOK
<1>6. \A n \in Nodes : tier'[n] = 0 <=> state'[n] \in {"none", "TERMINATED"}
  <2> TAKE n \in Nodes
  <2>1. tier[n] = 0 <=> state[n] \in {"none", "TERMINATED"}
    BY <1>3 DEF TypeOK
  <2>2. CASE n \in new
    BY <1>2, <2>2, Finite
  <2>3. CASE n \notin new
    BY <1>2, <2>1, <2>3
  <2>. QED  BY <2>2, <2>3
<1>7. \A n \in Nodes : On(host, n) # {} => state'[n] = state[n] /\ tier'[n] = tier[n]
  <2> SUFFICES ASSUME NEW n \in Nodes, NEW j \in Jobs, host[j] = n
               PROVE  n \notin new
    BY <1>2 DEF On
  <2>1. state[n] = "READY"
    BY Finite DEF IInv, JobsFit
  <2>. QED  BY <1>2, <2>1
<1>8. InOrder(state')
  <2> SUFFICES ASSUME NEW n \in Nodes, NEW m \in Nodes, state'[n] # "none", m < n,
                      state'[m] = "none"
               PROVE  FALSE
    BY DEF InOrder
  <2>1. m \notin new /\ state[m] = "none"
    BY <1>2
  <2>2. m \notin Launched
    BY <2>1 DEF Launched
  <2>3. CASE n \in new
    BY <1>2, <2>1, <2>2, <2>3 DEF Nodes
  <2>4. CASE n \notin new
    BY <1>2, <1>3, <2>1, <2>4 DEF InOrder
  <2>. QED  BY <2>3, <2>4
<1>9. \A n \in Nodes : clock'[n].wake = Never \/ clock'[n].wake >= now
  BY <1>1, <1>3 DEF TypeOK
<1>10. \A n \in Nodes : ClockKept(n)'
  <2> TAKE n \in Nodes
  <2>1. ClockKept(n) /\ plus' = plus /\ windows' = windows /\ now' = now /\ host' = host
        /\ phase' = phase
    BY <1>1 DEF IInv, configVars, jobVars
  <2>2. Queues' = Queues
    <3>1. UNCHANGED <<configVars, now, windowVars>> /\ \E j \in Jobs : phase'[j] # "absent"
      BY <1>1, <1>2, <2>1
    <3>. QED  BY <1>2, <3>1, WindowsUnchanged
  <2>3. NoClock' = NoClock /\ Thresholds' = Thresholds
    BY DEF NoClock, Thresholds
  <2>4. /\ clock[n] # NoClock => windows # <<>> /\ Up(state, n)
        /\ \A th \in Thresholds : idle_from[n][th] # Never =>
             /\ windows # <<>> /\ Up(state, n)
             /\ idle_from[n][th] <= now /\ th <= IdleVcpu(host, n)
    BY <2>1 DEF ClockKept, HistoryKept
  <2>5. CASE n \in new
    <3>1. ~Up(state, n) /\ ~Up(state, n)'
      BY <1>2, <2>5 DEF Up
    <3>2. clock'[n] = NoClock /\ \A th \in Thresholds : idle_from'[n][th] = Never
      BY <1>1, <2>4, <3>1
    <3>3. HistoryKept(n)'
      BY <2>3, <3>2 DEF HistoryKept
    <3>4. TimerWaits(n)' /\ AccruedIdle(n)'
      BY <2>3, <3>2, NoClockType DEF TimerWaits, AccruedIdle
    <3>. QED  BY <3>2, <3>3, <3>4, NoClockType DEF ClockKept
  <2>6. CASE n \notin new
    <3>1. tier'[n] = tier[n] /\ state'[n] = state[n]
      BY <1>2, <2>6
    <3>2. IdleVcpu(host, n)' = IdleVcpu(host, n) /\ Up(state, n)' = Up(state, n)
          /\ Steady(tier[n])' = Steady(tier[n]) /\ (Rules(Queues, n))' = Rules(Queues, n)
      BY <2>1, <2>2, <3>1 DEF IdleVcpu, LoadOf, On, Up, Steady, Rules
    <3>3. HistoryKept(n)'
      BY <1>1, <2>1, <2>3, <2>4, <3>2 DEF HistoryKept
    <3>4. TimerWaits(n)'
      BY <1>1, <2>1, <3>2 DEF ClockKept, TimerWaits
    <3>5. AccruedIdle(n)'
      BY <1>1, <2>1, <2>3, <3>2 DEF ClockKept, AccruedIdle
    <3>. QED  BY <1>1, <2>1, <3>3, <3>4, <3>5 DEF ClockKept
  <2>. QED  BY <2>5, <2>6
<1>11. /\ draining' \subseteq Nodes /\ clock' \in [Nodes -> Clock]
       /\ idle_from' \in [Nodes -> [Thresholds -> Nat \cup {Never}]]
       /\ UNCHANGED <<configVars, now, windowVars, jobVars>>
  BY <1>1, <1>3 DEF TypeOK, Configured
<1>. QED  BY <1>2, <1>4, <1>5, <1>6, <1>7, <1>8, <1>9, <1>10, <1>11, QuietStep

-----------------------------------------------------------------------------
(* No job has arrived and no node is launched.                             *)
LEMMA InitInvariant ==
  ASSUME Init
  PROVE  IInv
<1>1. /\ plus \in BOOLEAN /\ windows \in Policies /\ load \in Workloads /\ PreflightPasses(load)
      /\ now = 0 /\ idx = 1 /\ swap_at = Never
      /\ tiers = [j \in Jobs |-> <<>>]
      /\ phase = [j \in Jobs |-> "absent"] /\ host = [j \in Jobs |-> 0]
      /\ state = [n \in Nodes |-> "none"] /\ draining = {} /\ tier = [n \in Nodes |-> 0]
      /\ last_spawn = [t \in Tiers |-> Never]
      /\ clock = [n \in Nodes |-> NoClock]
      /\ idle_from = [n \in Nodes |-> [th \in Thresholds |-> Never]]
  BY DEF Init
<1>2. TypeOK
  <2>1. idx \in 1..Max({1, Len(windows)})
    <3> DEFINE n == Len(windows)
               m == Max({1, n})
    <3>1. n \in Int
      <4>1. ValidDay(windows)
        BY <1>1, TierAssumption
      <4>2. windows \in Seq(Range(windows))
        BY <4>1 DEF ValidDay
      <4>. QED  BY <4>2
    <3> HIDE DEF n
    <3>2. 1 \in Int /\ n \in Int
      BY <3>1
    <3>3. m \in {1, n} /\ m >= 1
      BY ONLY <3>2, GreatestOfTwo
    <3> HIDE DEF m
    <3>4. 1 \in 1..m
      BY <3>1, <3>3
    <3>. QED  BY <1>1, <3>4 DEF m, n
  <2>2. now \in 0..MaxNow
    BY <1>1, TierAssumption
  <2>3. \A n \in Nodes : clock[n].wake = Never
    BY <1>1, NoClockType
  <2>4. tiers \in [Jobs -> Seq(Tiers)]
    BY <1>1
  <2>. QED  BY <1>1, <2>1, <2>2, <2>3, <2>4 DEF TypeOK
<1>3. Configured
  BY <1>1, NoClockType DEF Configured
<1>4. LaunchOrder
  BY <1>1 DEF LaunchOrder, InOrder
<1>5. JobsFit(phase, host, state, tiers)
  <2>1. \A n \in Nodes : On(host, n) = {}
    BY <1>1, Finite DEF On
  <2>. QED  BY <1>1, <2>1 DEF JobsFit
<1>6. TiersHost /\ RejectedWarned
  BY <1>1 DEF TiersHost, RejectedWarned, Range
<1>7. WindowKept
  BY <1>1 DEF WindowKept
<1>8. \A n \in Nodes : ClockKept(n)
  <2> TAKE n \in Nodes
  <2>1. clock[n] = NoClock /\ \A th \in Thresholds : idle_from[n][th] = Never
    BY <1>1
  <2>2. HistoryKept(n)
    BY <2>1 DEF HistoryKept
  <2>3. TimerWaits(n) /\ AccruedIdle(n)
    BY <2>1, NoClockType DEF TimerWaits, AccruedIdle
  <2>. QED  BY <1>1, <2>2, <2>3 DEF ClockKept
<1>. QED  BY <1>2, <1>3, <1>4, <1>5, <1>6, <1>7, <1>8 DEF IInv

(* A step that changes nothing.                                            *)
LEMMA StutterStep ==
  ASSUME IInv, UNCHANGED vars
  PROVE  IInv'
<1>1. /\ plus' = plus /\ windows' = windows /\ load' = load /\ now' = now
      /\ idx' = idx /\ swap_at' = swap_at
      /\ tiers' = tiers /\ phase' = phase /\ host' = host /\ state' = state
      /\ draining' = draining /\ tier' = tier /\ last_spawn' = last_spawn
      /\ clock' = clock /\ idle_from' = idle_from
  BY DEF vars, configVars, windowVars, jobVars, nodeVars
<1>2. TypeOK /\ Configured /\ WindowKept /\ LaunchOrder /\ TiersHost /\ RejectedWarned
      /\ JobsFit(phase, host, state, tiers) /\ \A n \in Nodes : ClockKept(n)
  BY DEF IInv
<1>3. TypeOK' /\ LaunchOrder' /\ TiersHost' /\ RejectedWarned'
  BY <1>1, <1>2 DEF TypeOK, LaunchOrder, InOrder, TiersHost, Hosting, RejectedWarned, PreflightWarns
<1>4. Configured'
  <2>1. Clock' = Clock /\ PreflightPasses(load)' = PreflightPasses(load') /\ Thresholds' = Thresholds
    BY DEF Clock, PreflightPasses, Thresholds, Named, NoZone
  <2>. QED  BY <1>1, <1>2, <2>1 DEF Configured
<1>5. WindowKept'
  <2>1. WindowAt(now)' = WindowAt(now) /\ WindowAt(now - 1)' = WindowAt(now - 1)
    BY <1>1 DEF WindowAt
  <2>. QED  BY <1>1, <1>2, <2>1 DEF WindowKept
<1>6. JobsFit(phase, host, state, tiers)'
  <2>1. \A n \in Nodes : (On(host, n))' = On(host, n) /\ (LoadOf(host, n, Soft))' = LoadOf(host, n, Soft)
                         /\ (Effective(tier[n]))' = Effective(tier[n])
    BY <1>1 DEF On, LoadOf, Effective
  <2>. QED  BY <1>1, <1>2, <2>1 DEF JobsFit
<1>7. \A n \in Nodes : ClockKept(n)'
  <2> TAKE n \in Nodes
  <2>1. Queues' = Queues /\ NoClock' = NoClock /\ Thresholds' = Thresholds
    BY <1>1 DEF Queues, WindowAt, NoClock, Thresholds
  <2>2. IdleVcpu(host, n)' = IdleVcpu(host, n) /\ Up(state, n)' = Up(state, n)
        /\ Steady(tier[n])' = Steady(tier[n]) /\ (Rules(Queues, n))' = Rules(Queues, n)
    BY <1>1, <2>1 DEF IdleVcpu, LoadOf, On, Up, Steady, Rules
  <2>3. HistoryKept(n)'
    BY <1>1, <1>2, <2>1, <2>2 DEF ClockKept, HistoryKept
  <2>4. TimerWaits(n)'
    BY <1>1, <1>2, <2>2 DEF ClockKept, TimerWaits
  <2>5. AccruedIdle(n)'
    BY <1>1, <1>2, <2>1, <2>2 DEF ClockKept, AccruedIdle
  <2>. QED  BY <1>1, <1>2, <2>3, <2>4, <2>5 DEF ClockKept
<1>. QED  BY <1>3, <1>4, <1>5, <1>6, <1>7 DEF IInv

(* The invariant holds in every reachable state.                           *)
THEOREM TierInvariant == Spec => []IInv
<1>1. Init => IInv
  BY InitInvariant
<1>2. IInv /\ [Next]_vars => IInv'
  <2> SUFFICES ASSUME IInv, [Next]_vars PROVE IInv'
    OBVIOUS
  <2>1. CASE \E j \in Jobs : Arrive(j) \/ Complete(j)
    BY <2>1, ArriveStep, CompleteStep
  <2>2. CASE Provision
    BY <2>2, ProvisionStep
  <2>3. CASE \E n \in Nodes : NodeReady(n) \/ DrainFires(n) \/ IdleFires(n)
    BY <2>3, NodeReadyStep, DrainFiresStep, IdleFiresStep
  <2>4. CASE PolicySwap
    BY <2>4, PolicySwapStep
  <2>5. CASE Tick
    BY <2>5, TickStep
  <2>6. CASE UNCHANGED vars
    BY <2>6, StutterStep
  <2>. QED  BY <2>1, <2>2, <2>3, <2>4, <2>5, <2>6 DEF Next
<1>. QED  BY <1>1, <1>2, PTL DEF Spec

-----------------------------------------------------------------------------
(* The variables keep their types, a node has a tier from its launch to    *)
(* its end whichever handler ends it, and no timer is left in the past.    *)
THEOREM TierTypes == Spec => []TypeOK
<1>1. IInv => TypeOK
  BY DEF IInv
<1>. QED  BY <1>1, TierInvariant, PTL

(* BSIM-106, BSIM-108: the requests on the node of a job leave room for    *)
(* its burst, since placement keeps them below what the tier leaves beside *)
(* its reservation, and the tier's reservation hosts the burst; and a job  *)
(* is only rejected for the reasons given at BurstsHaveRoom.               *)
THEOREM BurstsRoom == Spec => []BurstsHaveRoom
<1>1. IInv => BurstsHaveRoom
  <2> SUFFICES ASSUME IInv PROVE BurstsHaveRoom
    OBVIOUS
  <2>1. TypeOK /\ JobsFit(phase, host, state, tiers) /\ TiersHost /\ RejectedWarned
    BY DEF IInv
  <2>2. ASSUME NEW j \in Jobs, phase[j] = "running"
        PROVE  /\ tier[host[j]] \in Range(tiers[j])
               /\ LoadOf(host, host[j], Soft) + Burst[j] <= TierDefs[tier[host[j]]].ram - Overhead
    <3> DEFINE n == host[j]
               t == tier[n]
               spike == TierDefs[t].spike
               ram == TierDefs[t].ram
               used == LoadOf(host, n, Soft)
    <3>1. n \in Nodes /\ j \in On(host, n) /\ t \in Range(tiers[j])
      BY <2>1, <2>2 DEF TypeOK, JobsFit, On
    <3>2. t \in Tiers /\ spike >= Burst[j]
      BY <2>1, <3>1 DEF TiersHost, Hosting
    <3>3. Effective(t) > 0 /\ used <= Effective(t)
      BY <2>1, <3>1 DEF JobsFit
    <3>4. /\ spike \in Nat /\ ram \in Nat
          /\ Effective(t) > 0 => Effective(t) = ram - Overhead - spike
      BY <3>2, TierType
    <3>5. used \in Nat /\ Burst[j] \in Int /\ Overhead \in Nat
      BY LoadType, TierAssumption
    <3> HIDE DEF used, spike, ram
    <3>6. used + Burst[j] <= ram - Overhead
      BY <3>2, <3>3, <3>4, <3>5
    <3>. QED  BY <3>1, <3>6 DEF used, ram
  <2>. QED  BY <2>1, <2>2 DEF BurstsHaveRoom, RejectedWarned
<1>. QED  BY <1>1, TierInvariant, PTL

(* A node that drains, or that a drain terminates, had a rule of its tier  *)
(* met for as long as the rule asks, however its clock was stopped and     *)
(* started: what its timer waits for is kept by every step (TimerWaits).   *)
THEOREM DrainedIdle == Spec => DrainedNodesWereIdle
<1> DEFINE A == \A n \in Nodes :
             (clock[n].wake = now /\ clock'[n].wake = Never
                /\ (n \in draining' \ draining \/ (Up(state, n) /\ state'[n] = "TERMINATED"))) =>
               \/ plus /\ ~Steady(tier[n])
               \/ \E r \in Rules(Queues, n) :
                    /\ idle_from[n][r.idle_vcpu] # Never
                    /\ now - idle_from[n][r.idle_vcpu] >= r.duration
<1>1. IInv => A
  <2> SUFFICES ASSUME IInv, NEW n \in Nodes, clock[n].wake = now
               PROVE  \/ plus /\ ~Steady(tier[n])
                      \/ \E r \in Rules(Queues, n) :
                           /\ idle_from[n][r.idle_vcpu] # Never
                           /\ now - idle_from[n][r.idle_vcpu] >= r.duration
    OBVIOUS
  <2>1. clock[n].wake # Never
    BY TierAssumption DEF IInv, TypeOK, Never
  <2>. QED  BY <2>1 DEF IInv, ClockKept, TimerWaits
<1>2. IInv /\ [Next]_vars => [A]_vars
  BY <1>1
<1>3. DrainedNodesWereIdle <=> [][A]_vars
  BY DEF DrainedNodesWereIdle
<1> HIDE DEF A
<1>. QED  BY <1>2, <1>3, TierInvariant, PTL DEF Spec

(* Once a job has arrived, the scheduler goes by policies in force.        *)
LEMMA GoesByInForce ==
  ASSUME IInv, \E j \in Jobs : phase[j] # "absent"
  PROVE  Queues \in InForce
<1>1. CASE windows = <<>> \/ plus
  BY <1>1 DEF Queues, InForce
<1>2. CASE windows # <<>> /\ ~plus
  <2>1. \/ now > 0 /\ idx = WindowAt(now - 1)
        \/ idx = WindowAt(now)
    BY <1>2 DEF IInv, WindowKept
  <2>. QED  BY <1>2, <2>1 DEF Queues, InForce
<1>. QED  BY <1>1, <1>2

(* The nodes of a tier, once those of a pass are launched.                 *)
LEMMA CountAfter ==
  ASSUME IInv, Provision, NEW t \in Tiers
  PROVE  Cardinality({n \in Nodes : tier'[n] = t}) <= CountOf(t) + Cardinality(Copies(Launches, t))
<1> DEFINE types == Launches
           from == Cardinality(Launched)
           new == (from+1)..(from+Len(types))
           before == {n \in Nodes : tier[n] = t /\ state[n] # "TERMINATED"}
           added == {from + i : i \in Copies(types, t)}
           after == {n \in Nodes : tier'[n] = t}
<1>1. /\ types \in Seq(Tiers) /\ from \in Nat
      /\ \A n \in new : n - from \in 1..Len(types)
      /\ \A n \in Nodes : /\ n \in new => tier'[n] = types[n - from]
                          /\ n \notin new => tier'[n] = tier[n]
  BY NewNodes
<1>2. TypeOK
  BY DEF IInv
<1> HIDE DEF types, from
<1>3. IsFiniteSet(before) /\ Cardinality(before) \in Nat /\ CountOf(t) = Cardinality(before)
  <2>1. IsFiniteSet(before)
    BY Finite, FS_Subset
  <2>. QED  BY <2>1, FS_CardinalityType DEF CountOf
<1>4. IsFiniteSet(Copies(types, t)) /\ Cardinality(Copies(types, t)) \in Nat
  BY <1>1, CopiesAppend
<1>5. IsFiniteSet(added) /\ Cardinality(added) <= Cardinality(Copies(types, t))
      /\ Cardinality(added) \in Nat
  <2> DEFINE C == Copies(types, t)
             f == [i \in C |-> from + i]
  <2>1. f \in Surjection(C, added)
    BY DEF Surjection
  <2> HIDE DEF C, f, added
  <2>2. IsFiniteSet(added) /\ Cardinality(added) <= Cardinality(C)
    BY <1>4, <2>1, FS_Surjection DEF C
  <2>. QED  BY <2>2, FS_CardinalityType DEF C
<1>6. after \subseteq before \cup added
  <2> SUFFICES ASSUME NEW n \in Nodes, tier'[n] = t PROVE n \in before \/ n \in added
    OBVIOUS
  <2>1. CASE n \in new
    <3>1. n - from \in 1..Len(types) /\ types[n - from] = t /\ n \in Int
      BY <1>1, <2>1 DEF Nodes
    <3>2. n - from \in Copies(types, t) /\ n = from + (n - from)
      BY <1>1, <3>1 DEF Copies
    <3>. QED  BY <3>2
  <2>2. CASE n \notin new
    <3>1. tier[n] = t /\ t # 0
      BY <1>1, <2>2, Finite
    <3>. QED  BY <1>2, <3>1 DEF TypeOK
  <2>. QED  BY <2>1, <2>2
<1> HIDE DEF before, added, after
<1>7. /\ IsFiniteSet(before \cup added)
      /\ Cardinality(before \cup added) <= Cardinality(before) + Cardinality(added)
  <2>1. /\ IsFiniteSet(before \cup added) /\ IsFiniteSet(before \cap added)
        /\ Cardinality(before \cup added)
             = Cardinality(before) + Cardinality(added) - Cardinality(before \cap added)
    BY <1>3, <1>5, FS_Union, FS_Intersection
  <2>2. Cardinality(before \cap added) \in Nat
    BY <2>1, FS_CardinalityType
  <2>. QED  BY <1>3, <1>5, <2>1, <2>2
<1>8. Cardinality(after) <= Cardinality(before \cup added) /\ Cardinality(after) \in Nat
      /\ Cardinality(before \cup added) \in Nat
  BY <1>6, <1>7, FS_Subset, FS_CardinalityType
<1>9. Cardinality(after) <= CountOf(t) + Cardinality(Copies(types, t))
  BY <1>3, <1>4, <1>5, <1>7, <1>8
<1>. QED  BY <1>9 DEF after, types

(* Nodes are launched by _provision_to_demand_joint only.                  *)
LEMMA OnlyProvisionLaunches ==
  ASSUME IInv, [Next]_vars, NEW n \in Nodes, state[n] = "none", state'[n] = "LAUNCHING"
  PROVE  Provision
<1>1. TypeOK /\ JobsFit(phase, host, state, tiers)
  BY DEF IInv
<1>2. ASSUME NEW j \in Jobs, Arrive(j) PROVE state' = state
  BY <1>2 DEF Arrive, TrySchedule
<1>3. ASSUME NEW j \in Jobs, Complete(j) PROVE FALSE
  <2>1. state' = IF On([host EXCEPT ![j] = 0], host[j]) # {} THEN state
                 ELSE [state EXCEPT ![host[j]] =
                         IF host[j] \in draining THEN "TERMINATED" ELSE "IDLE"]
    BY <1>3 DEF Complete, TrySchedule
  <2>. QED  BY <1>1, <2>1 DEF TypeOK
<1>4. ASSUME NEW m \in Nodes, NodeReady(m) PROVE FALSE
  <2>1. state' = [state EXCEPT ![m] = "READY"]
    BY <1>4 DEF NodeReady, TrySchedule
  <2>. QED  BY <1>1, <2>1 DEF TypeOK
<1>5. ASSUME NEW m \in Nodes, DrainFires(m) PROVE FALSE
  <2>1. state'[n] \in {"TERMINATED", state[n]}
    BY <1>5 DEF DrainFires
  <2>. QED  BY <2>1
<1>6. ASSUME NEW m \in Nodes, IdleFires(m) PROVE FALSE
  BY <1>1, <1>6 DEF IdleFires, TypeOK
<1>7. PolicySwap => state' = state
  BY DEF PolicySwap, TrySchedule
<1>8. Tick \/ UNCHANGED vars => state' = state
  BY DEF Tick, vars, nodeVars
<1>. QED  BY <1>2, <1>3, <1>4, <1>5, <1>6, <1>7, <1>8 DEF Next

(* Every launch is for a tier of a policy in force and within its          *)
(* max_nodes, however many nodes one pass launches, and the passes that    *)
(* launch for a tier are as far apart as its spawn rate asks.              *)
THEOREM LaunchesPolicy == Spec => LaunchesWithinPolicy
<1> DEFINE A == \A t \in Tiers :
             (\E n \in Nodes : state[n] = "none" /\ state'[n] = "LAUNCHING" /\ tier'[n] = t) =>
               \E queues \in InForce :
                 /\ t \in DOMAIN queues
                 /\ Cardinality({n \in Nodes : tier'[n] = t}) <= queues[t].max_nodes
                 /\ last_spawn[t] = Never \/ now >= last_spawn[t] + queues[t].gap
<1>1. IInv /\ [Next]_vars => A
  <2> SUFFICES ASSUME IInv, [Next]_vars, NEW t \in Tiers, NEW n \in Nodes,
                      state[n] = "none", state'[n] = "LAUNCHING", tier'[n] = t
               PROVE  \E queues \in InForce :
                        /\ t \in DOMAIN queues
                        /\ Cardinality({m \in Nodes : tier'[m] = t}) <= queues[t].max_nodes
                        /\ last_spawn[t] = Never \/ now >= last_spawn[t] + queues[t].gap
    OBVIOUS
  <2>1. Provision
    BY OnlyProvisionLaunches
  <2> DEFINE types == Launches
             from == Cardinality(Launched)
             new == (from+1)..(from+Len(types))
  <2>2. /\ types \in Seq(Tiers) /\ Allowed(types)
        /\ \E j \in Jobs : phase[j] # "absent"
        /\ \A m \in new : m - from \in 1..Len(types)
        /\ n \in new => tier'[n] = types[n - from]
        /\ n \notin new => state'[n] = state[n]
    BY <2>1, NewNodes
  <2>3. Queues \in InForce
    BY <2>2, GoesByInForce
  <2> HIDE DEF types, from
  <2>4. t \in Range(types)
    <3>1. n \in new /\ n - from \in 1..Len(types) /\ types[n - from] = t
      BY <2>2
    <3>. QED  BY <2>2, <3>1 DEF Range
  <2>5. /\ t \in DOMAIN Queues /\ SpawnEligible(t)
        /\ CountOf(t) + Cardinality(Copies(types, t)) <= Queues[t].max_nodes
    BY <2>2, <2>4 DEF Allowed
  <2>6. TypeOK /\ Configured
    BY DEF IInv
  <2>7. Cardinality({m \in Nodes : tier'[m] = t}) <= Queues[t].max_nodes
    <3> DEFINE S == {m \in Nodes : tier'[m] = t}
    <3>1. Cardinality(S) <= CountOf(t) + Cardinality(Copies(types, t))
      BY <2>1, CountAfter DEF types
    <3>2. Cardinality(S) \in Nat
      <4>1. IsFiniteSet(S)
        BY Finite, FS_Subset
      <4>. QED  BY <4>1, FS_CardinalityType
    <3>3. CountOf(t) \in Nat /\ Queues[t].max_nodes \in Nat /\ Cardinality(Copies(types, t)) \in Nat
      BY <2>2, <2>5, <2>6, CountType, QueuesAreTiers, CopiesAppend
    <3> HIDE DEF S
    <3>4. Cardinality(S) <= Queues[t].max_nodes
      BY <2>5, <3>1, <3>2, <3>3
    <3>. QED  BY <3>4 DEF S
  <2>8. last_spawn[t] = Never \/ now >= last_spawn[t] + Queues[t].gap
    <3>1. now \in Int /\ last_spawn[t] \in Int /\ Queues[t].gap \in Nat
      <4>1. now \in Int /\ last_spawn[t] \in Int
        BY <2>6, TierAssumption DEF TypeOK, Never
      <4>. QED  BY <2>5, <2>6, <4>1, QueuesAreTiers
    <3>. QED  BY <2>5, <3>1 DEF SpawnEligible
  <2>. QED  BY <2>3, <2>5, <2>7, <2>8
<1>2. IInv /\ [Next]_vars => [A]_vars
  BY <1>1
<1>3. LaunchesWithinPolicy <=> [][A]_vars
  BY DEF LaunchesWithinPolicy
<1> HIDE DEF A
<1>. QED  BY <1>2, <1>3, TierInvariant, PTL DEF Spec

-----------------------------------------------------------------------------
(* The refinement of ClusterContract.  The jobs of a node are within the   *)
(* room of its tier: the second part of the inductive invariant.           *)
Hosted == \A n \in Nodes : On(host, n) # {} => On(host, n) \in Rooms[tier[n]]

(* No job waits beside room it could have: the third part.                 *)
NothingWaits ==
  \A j \in Jobs : phase[j] = "queued" =>
    \A n \in OpenTo(state, draining, tiers[j]) : On(host, n) \cup {j} \notin Rooms[tier[n]]

(* A node that drains is up: the fourth part.                              *)
DrainingUp == \A n \in draining : Up(state, n)

(* A node has room for a job when its jobs are, with that one, within its  *)
(* room.                                                                   *)
LEMMA FitsIsRoom ==
  ASSUME NEW h, NEW n, NEW j \in Jobs, h[j] # n, tier[n] \in Tiers
  PROVE  FitsOn(h, n, j) <=> On(h, n) \cup {j} \in Rooms[tier[n]]
<1> DEFINE S == On(h, n) \cup {j}
<1>1. /\ Asked(S, Soft, NumJobs) = LoadOf(h, n, Soft) + Soft[j]
      /\ Asked(S, Vcpu, NumJobs) = LoadOf(h, n, Vcpu) + Vcpu[j]
  <2>1. j \notin On(h, n)
    BY DEF On
  <2> DEFINE T == On(h, n)
  <2>2. j \notin T /\ j \in 1..NumJobs /\ NumJobs \in Nat
    BY <2>1, NumJobsAssumption DEF Jobs
  <2>3. Soft \in [1..NumJobs -> Nat]
    BY TierAssumption DEF Jobs
  <2>4. Vcpu \in [1..NumJobs -> Nat]
    BY TierAssumption DEF Jobs
  <2> HIDE DEF T
  <2>5. Asked(T \cup {j}, Soft, NumJobs) = Asked(T, Soft, NumJobs) + Soft[j]
    BY <2>2, <2>3, SumAdd, ZenonT(60)
  <2>6. Asked(T \cup {j}, Vcpu, NumJobs) = Asked(T, Vcpu, NumJobs) + Vcpu[j]
    BY <2>2, <2>4, SumAdd, ZenonT(60)
  <2>. QED  BY <2>5, <2>6 DEF LoadOf, T
<1>2. S \in SUBSET Jobs
  BY DEF On
<1> HIDE DEF S
<1>3. S \in Rooms[tier[n]] <=> /\ Effective(tier[n]) > 0
                               /\ Asked(S, Soft, NumJobs) <= Effective(tier[n])
                               /\ Asked(S, Vcpu, NumJobs) <= TierDefs[tier[n]].vcpu
  BY <1>2 DEF Rooms
<1>4. Asked(S, Vcpu, NumJobs) <= TierDefs[tier[n]].vcpu <=> Vcpu[j] <= IdleVcpu(h, n)
  <2> DEFINE v == TierDefs[tier[n]].vcpu
             l == LoadOf(h, n, Vcpu)
  <2>1. v \in Int /\ l \in Int /\ Vcpu[j] \in Int
    BY TierType, LoadType, TierAssumption
  <2>2. IdleVcpu(h, n) = v - l
    BY DEF IdleVcpu
  <2> HIDE DEF v, l
  <2>3. l + Vcpu[j] <= v <=> Vcpu[j] <= v - l
    BY <2>1
  <2>. QED  BY <1>1, <2>2, <2>3 DEF v, l
<1>. QED  BY <1>1, <1>3, <1>4 DEF FitsOn, S

(* Fewer jobs are within the room of a tier too.                           *)
LEMMA RoomsShrink ==
  ASSUME NEW t \in Tiers, NEW T \in Rooms[t], NEW S \in SUBSET T
  PROVE  S \in Rooms[t]
<1>1. T \in SUBSET Jobs /\ Effective(t) > 0 /\ Asked(T, Soft, NumJobs) <= Effective(t)
      /\ Asked(T, Vcpu, NumJobs) <= TierDefs[t].vcpu
  BY DEF Rooms
<1>2. /\ NumJobs \in Nat
      /\ Soft \in [1..NumJobs -> Nat] /\ Vcpu \in [1..NumJobs -> Nat]
  BY TierAssumption, NumJobsAssumption DEF Jobs
<1>3. /\ Asked(S, Soft, NumJobs) <= Asked(T, Soft, NumJobs)
      /\ Asked(S, Vcpu, NumJobs) <= Asked(T, Vcpu, NumJobs)
  BY <1>2, SumMonotone
<1>4. /\ Asked(S, Soft, NumJobs) \in Nat /\ Asked(T, Soft, NumJobs) \in Nat
      /\ Asked(S, Vcpu, NumJobs) \in Nat /\ Asked(T, Vcpu, NumJobs) \in Nat
  BY <1>2, SumType
<1>5. Effective(t) \in Int /\ TierDefs[t].vcpu \in Int
  BY TierType
<1>. QED  BY <1>1, <1>3, <1>4, <1>5 DEF Rooms

(* What _try_schedule does with the jobs that it finds at ph and on h.     *)
LEMMA ScheduledJobs ==
  ASSUME NEW ph, NEW tr, NEW h, NEW st, NEW dr, NEW touched, NEW queues,
         Schedulable(ph, tr, h, st, dr),
         TrySchedule(ph, tr, h, st, dr, touched, queues),
         \A n \in Nodes : On(h, n) # {} => On(h, n) \in Rooms[tier[n]]
  PROVE  /\ \A j \in Jobs : ph[j] # "queued" => phase'[j] = ph[j] /\ host'[j] = h[j]
         /\ \A j \in Jobs : ph[j] = "queued" =>
              \/ phase'[j] = "queued" /\ host'[j] = 0
              \/ phase'[j] = "running" /\ host'[j] \in OpenTo(st, dr, tr[j])
         /\ state' = st /\ draining' = dr /\ tiers' = tr
         /\ \A n \in Nodes : On(host', n) # {} => On(host', n) \in Rooms[tier[n]]
         /\ \A j \in Jobs : phase'[j] = "queued" =>
              \A n \in OpenTo(st, dr, tr[j]) :
                {k \in On(host', n) : ph[k] = "queued" => k < j} \cup {j} \notin Rooms[tier[n]]
<1> DEFINE Q == Queued(ph)
           Pick(g, j) == BestFit(OpenTo(st, dr, tr[j]), g, j)
<1>1. PICK placed \in [Q -> {n \in Nodes : st[n] = "READY"} \cup {0}] :
        /\ GreedyPass(Q, h, placed, Pick)
        /\ host' = [j \in Jobs |-> IF j \in Q THEN placed[j] ELSE h[j]]
        /\ phase' = [j \in Jobs |-> IF j \in Q /\ placed[j] # 0 THEN "running" ELSE ph[j]]
        /\ tiers' = tr
        /\ state' = st
        /\ draining' = dr
  BY DEF TrySchedule
<1> DEFINE Before(j) == Until(j, Q, h, placed)
<1>2. /\ \A j \in Jobs : OpenTo(st, dr, tr[j]) \subseteq Nodes
      /\ 0 \notin Nodes /\ Q \in SUBSET Jobs
  BY DEF OpenTo, Nodes, Queued
<1>3. \A j \in Jobs : j \in Q <=> ph[j] = "queued"
  BY DEF Queued
<1>4. \A j \in Q : placed[j] = BestFit(OpenTo(st, dr, tr[j]), Before(j), j)
  BY <1>1 DEF GreedyPass
<1>5. h \in [Jobs -> Nodes \cup {0}] /\ \A j \in Q : h[j] = 0
  BY DEF Schedulable, JobsFit, Queued
<1>6. \A j \in Q, k \in Jobs : Before(j)[k] = IF k \in Q THEN IF k < j THEN placed[k] ELSE 0 ELSE h[k]
  BY <1>5 DEF Until
<1>7. \A n \in Nodes : st[n] = "READY" => tier[n] \in Tiers
  BY DEF Schedulable, Up
<1> HIDE DEF Before, Q
<1>8. ASSUME NEW n \in Nodes, NEW j \in Q
      PROVE  Before(j)[j] = 0 /\ j \in Jobs /\ Before(j)[j] # n
  <2>1. j \in Jobs /\ j \in Int
    BY <1>2 DEF Jobs
  <2>. QED  BY <1>2, <1>6, <2>1
<1>9. \A n \in Nodes : On(host', n) # {} => On(host', n) \in Rooms[tier[n]]
  <2> SUFFICES ASSUME NEW n \in Nodes
               PROVE  On(host', n) # {} => On(host', n) \in Rooms[tier[n]]
    OBVIOUS
  <2>1. \A j \in Q : placed[j] = n => On(Before(j), n) \cup {j} \in Rooms[tier[n]]
    <3> SUFFICES ASSUME NEW j \in Q, placed[j] = n
                 PROVE  On(Before(j), n) \cup {j} \in Rooms[tier[n]]
      OBVIOUS
    <3>1. n \in OpenTo(st, dr, tr[j]) /\ FitsOn(Before(j), n, j)
      BY <1>2, <1>4, BestFitFits
    <3>2. tier[n] \in Tiers
      BY <1>7, <3>1 DEF OpenTo
    <3>. QED  BY <1>8, <3>1, <3>2, FitsIsRoom
  <2> DEFINE N == NumJobs
             after == host'
             room == Rooms[tier[n]]
  <2>2. FillsWithin(N, Q, h, placed, after, n, room)
    BY <1>1, <1>2, <1>5, <2>1, NumJobsAssumption DEF Jobs, On, Before, FillsWithin
  <2> HIDE DEF N, after, room
  <2>3. {k \in 1..N : after[k] = n} # {} => {k \in 1..N : after[k] = n} \in room
    BY <2>2, PassWithin
  <2>. QED  BY <2>3 DEF N, after, room, On, Jobs
<1>10. ASSUME NEW j \in Jobs, phase'[j] = "queued", NEW n \in OpenTo(st, dr, tr[j])
       PROVE  {k \in On(host', n) : ph[k] = "queued" => k < j} \cup {j} \notin Rooms[tier[n]]
  <2>1. j \in Q /\ placed[j] = 0
    BY <1>1, <1>3, <1>10
  <2>2. ~FitsOn(Before(j), n, j)
    BY <1>2, <1>4, <2>1, BestFitFits
  <2>3. n \in Nodes /\ tier[n] \in Tiers
    BY <1>7 DEF OpenTo
  <2>4. On(Before(j), n) \cup {j} \notin Rooms[tier[n]]
    BY <1>8, <2>1, <2>2, <2>3, FitsIsRoom
  <2>5. On(Before(j), n) = {k \in On(host', n) : ph[k] = "queued" => k < j}
    <3>1. \A k \in Jobs : host'[k] = IF k \in Q THEN placed[k] ELSE h[k]
      BY <1>1
    <3>2. \A k \in Jobs : Before(j)[k] = n <=> host'[k] = n /\ (ph[k] = "queued" => k < j)
      BY <1>2, <1>3, <1>6, <2>1, <2>3, <3>1
    <3>. QED  BY <3>2 DEF On
  <2>. QED  BY <2>4, <2>5
<1>11. \A j \in Jobs : /\ ph[j] # "queued" => phase'[j] = ph[j] /\ host'[j] = h[j]
                       /\ ph[j] = "queued" =>
                            \/ phase'[j] = "queued" /\ host'[j] = 0
                            \/ phase'[j] = "running" /\ host'[j] \in OpenTo(st, dr, tr[j])
  <2> TAKE j \in Jobs
  <2>1. j \in Q => placed[j] = 0 \/ placed[j] \in OpenTo(st, dr, tr[j])
    BY <1>2, <1>4, BestFitFits
  <2>. QED  BY <1>1, <1>2, <1>3, <2>1
<1>. QED  BY <1>1, <1>9, <1>10, <1>11

(* A node that hosts a job is up and has a tier.                           *)
LEMMA HostTier ==
  ASSUME IInv, NEW n \in Nodes, On(host, n) # {}
  PROVE  state[n] = "READY" /\ tier[n] \in Tiers
<1>1. state[n] = "READY"
  BY Finite DEF IInv, JobsFit, On
<1>. QED  BY <1>1, UpHasTier DEF IInv, Up

(* ph, tr and h are where the jobs stand before _try_schedule and after    *)
(* what made it run: nothing has changed for a job, or it has just         *)
(* arrived, or it has just ended.                                          *)
JobEvent(k, ph, tr, h) ==
  \/ ph[k] = phase[k] /\ tr[k] = tiers[k] /\ h[k] = host[k]
  \/ /\ phase[k] = "absent" /\ ph[k] = "queued" /\ h[k] = host[k]
     /\ \A i \in 1..(k-1) : phase[i] # "absent"
  \/ phase[k] = "running" /\ ph[k] = "done" /\ h[k] = 0

(* A step that schedules keeps what the contract asks of the jobs.         *)
LEMMA PassKeepsContract ==
  ASSUME IInv, IInv', Hosted,
         NEW ph, NEW tr, NEW h, NEW st, NEW dr, NEW touched, NEW queues,
         Schedulable(ph, tr, h, st, dr),
         TrySchedule(ph, tr, h, st, dr, touched, queues),
         \A n \in Nodes : st[n] = "READY" => tier'[n] = tier[n],
         \A k \in Jobs : JobEvent(k, ph, tr, h)
  PROVE  /\ Hosted' /\ NothingWaits'
         /\ \A k \in Jobs : Contract!JobStep(k)
         /\ \A n \in Nodes : Contract!WithinRoom(n)
         /\ \A k \in Jobs, n \in Nodes : Contract!FirstComeFirstServed(k, n)
         /\ \A k \in Jobs : phase'[k] # phase[k] /\ phase[k] \in {"absent", "running"}
                              => ph[k] # phase[k]
<1>1. \A n \in Nodes : On(h, n) # {} => On(h, n) \in Rooms[tier[n]]
  <2> SUFFICES ASSUME NEW n \in Nodes, On(h, n) # {} PROVE On(h, n) \in Rooms[tier[n]]
    OBVIOUS
  <2>1. On(h, n) \in SUBSET On(host, n)
    BY Finite DEF On, JobEvent
  <2>2. tier[n] \in Tiers
    BY <2>1, HostTier
  <2>3. On(host, n) \in Rooms[tier[n]]
    BY <2>1 DEF Hosted
  <2>. QED  BY <2>1, <2>2, <2>3, RoomsShrink
<1>2. /\ \A j \in Jobs : ph[j] # "queued" => phase'[j] = ph[j] /\ host'[j] = h[j]
      /\ \A j \in Jobs : ph[j] = "queued" =>
           \/ phase'[j] = "queued" /\ host'[j] = 0
           \/ phase'[j] = "running" /\ host'[j] \in OpenTo(st, dr, tr[j])
      /\ state' = st /\ draining' = dr /\ tiers' = tr
      /\ \A n \in Nodes : On(host', n) # {} => On(host', n) \in Rooms[tier[n]]
      /\ \A j \in Jobs : phase'[j] = "queued" =>
           \A n \in OpenTo(st, dr, tr[j]) :
             {k \in On(host', n) : ph[k] = "queued" => k < j} \cup {j} \notin Rooms[tier[n]]
  BY <1>1, ScheduledJobs
<1>3. \A n \in Nodes : NodeState'[n] = "READY" <=> st[n] = "READY" /\ n \notin dr
  BY <1>2 DEF NodeState
<1>4. \A k \in Jobs : /\ phase'[k] = "running" => (ph[k] = "queued" <=> phase[k] # "running")
                      /\ phase'[k] # phase[k] /\ phase[k] \in {"absent", "running"} => ph[k] # phase[k]
  BY <1>2 DEF JobEvent
<1>5. /\ \A k \in Jobs : host'[k] # 0 <=> phase'[k] = "running"
      /\ \A k \in Jobs : phase'[k] = "running" =>
           state'[host'[k]] = "READY" /\ tier'[host'[k]] \in Range(tiers'[k])
  BY DEF IInv, JobsFit
<1>6. ASSUME NEW n \in Nodes, On(host', n) # {}
      PROVE  tier'[n] = tier[n] /\ tier[n] \in Tiers /\ On(host', n) \in Rooms[tier[n]]
  <2>1. st[n] = "READY"
    BY <1>2, <1>5, <1>6, Finite DEF On
  <2>. QED  BY <1>2, <1>6, <2>1 DEF Schedulable, Up
<1>7. ASSUME NEW k \in Jobs PROVE Contract!JobStep(k)
  <2>1. phase'[k] # phase[k] => <<phase[k], phase'[k]>> \in Contract!JobMoves
    BY <1>2 DEF JobEvent, Contract!JobMoves
  <2>2. phase'[k] # phase[k] /\ phase[k] = "absent" => \A i \in 1..(k-1) : phase[i] # "absent"
    BY <1>2 DEF JobEvent
  <2>3. /\ phase'[k] # "running" => host'[k] = 0
        /\ phase'[k] = "running" /\ phase[k] = "running" => host'[k] = host[k]
    BY <1>2, <1>4, <1>5 DEF JobEvent
  <2>4. phase[k] # "running" /\ phase'[k] = "running" =>
          host'[k] \in Nodes /\ NodeState'[host'[k]] = "READY"
    BY <1>2, <1>3, <1>4 DEF OpenTo
  <2>5. phase'[k] \in {"queued", "running"} /\ phase[k] # "absent" => tiers'[k] = tiers[k]
    BY <1>2 DEF JobEvent
  <2>. QED  BY <2>1, <2>2, <2>3, <2>4, <2>5
            DEF Contract!JobStep, Contract!Moves, Contract!Starts, Contract!Nodes, Nodes
<1>8. ASSUME NEW n \in Nodes PROVE Contract!WithinRoom(n)
  <2>1. Contract!OnAfter(n) = On(host', n)
    BY DEF Contract!OnAfter, Contract!Jobs, Jobs, On
  <2>2. \A k \in On(host', n) : k \in Jobs /\ tier'[n] \in Range(tiers'[k])
    BY <1>5, Finite DEF On
  <2>. QED  BY <1>6, <2>1, <2>2 DEF Contract!WithinRoom
<1>9. ASSUME NEW j \in Jobs, NEW n \in Nodes PROVE Contract!FirstComeFirstServed(j, n)
  <2>1. Contract!Ahead(j, n) = {k \in On(host', n) : ph[k] = "queued" => k < j}
    <3>1. Contract!OnAfter(n) = On(host', n)
      BY DEF Contract!OnAfter, Contract!Jobs, Jobs, On
    <3>2. \A k \in On(host', n) : Contract!Starts(k) <=> ph[k] = "queued"
      BY <1>4, <1>5, Finite DEF Contract!Starts, On
    <3>. QED  BY <3>1, <3>2 DEF Contract!Ahead
  <2>2. NodeState'[n] = "READY" /\ tier'[n] \in Range(tiers'[j]) =>
          n \in OpenTo(st, dr, tr[j]) /\ tier'[n] = tier[n]
    BY <1>2, <1>3 DEF OpenTo
  <2>. QED  BY <1>2, <2>1, <2>2 DEF Contract!FirstComeFirstServed
<1>10. Hosted'
  BY <1>6 DEF Hosted, On
<1>11. NothingWaits'
  <2> SUFFICES ASSUME NEW j \in Jobs, phase'[j] = "queued", NEW n \in Nodes,
                      state'[n] = "READY", n \notin draining', tier'[n] \in Range(tiers'[j]),
                      On(host', n) \cup {j} \in Rooms[tier'[n]]
               PROVE  FALSE
    BY DEF NothingWaits, OpenTo, On
  <2> DEFINE found == {k \in On(host', n) : ph[k] = "queued" => k < j} \cup {j}
  <2>1. n \in OpenTo(st, dr, tr[j]) /\ tier'[n] = tier[n] /\ tier[n] \in Tiers
    BY <1>2 DEF OpenTo, Schedulable, Up
  <2>2. found \notin Rooms[tier[n]]
    BY <1>2, <2>1
  <2>3. found \in SUBSET (On(host', n) \cup {j})
    OBVIOUS
  <2> HIDE DEF found
  <2>. QED  BY <2>1, <2>2, <2>3, RoomsShrink
<1>. QED  BY <1>4, <1>7, <1>8, <1>9, <1>10, <1>11

(* A step that starts no job and opens no node keeps it too.               *)
LEMMA QuietKeepsContract ==
  ASSUME IInv, IInv', Hosted, NothingWaits, host' = host, tiers' = tiers,
         \A k \in Jobs : \/ phase'[k] = phase[k]
                         \/ /\ phase[k] = "absent" /\ phase'[k] = "rejected"
                            /\ \A i \in 1..(k-1) : phase[i] # "absent",
         \A n \in Nodes : state'[n] = "READY" /\ n \notin draining' =>
           state[n] = "READY" /\ n \notin draining,
         \A n \in Nodes : state'[n] = "READY" => tier'[n] = tier[n]
  PROVE  /\ Hosted' /\ NothingWaits'
         /\ \A k \in Jobs : Contract!JobStep(k)
         /\ \A n \in Nodes : Contract!WithinRoom(n)
         /\ \A k \in Jobs, n \in Nodes : Contract!FirstComeFirstServed(k, n)
<1>1. /\ \A k \in Jobs : host[k] # 0 <=> phase[k] = "running"
      /\ \A k \in Jobs : phase'[k] = "running" =>
           state'[host[k]] = "READY" /\ tier'[host[k]] \in Range(tiers[k])
  BY DEF IInv, JobsFit
<1>2. \A k \in Jobs : ~Contract!Starts(k) /\ (phase'[k] = "queued" => phase[k] = "queued")
  BY DEF Contract!Starts
<1>3. ASSUME NEW n \in Nodes, On(host, n) # {}
      PROVE  /\ tier'[n] = tier[n] /\ On(host, n) \in Rooms[tier[n]]
             /\ \A k \in On(host, n) : k \in Jobs /\ tier[n] \in Range(tiers[k])
  <2>1. \A k \in On(host, n) : /\ k \in Jobs /\ state'[n] = "READY"
                               /\ tier'[n] \in Range(tiers[k])
    BY <1>1, <1>2, Finite DEF On
  <2>. QED  BY <1>3, <2>1 DEF Hosted
<1>4. \A n \in Nodes : Contract!OnAfter(n) = On(host, n)
  BY DEF Contract!OnAfter, Contract!Jobs, Jobs, On
<1>5. Hosted'
  BY <1>3 DEF Hosted, On
<1>6. ASSUME NEW k \in Jobs PROVE Contract!JobStep(k)
  <2>1. phase'[k] # phase[k] => <<phase[k], phase'[k]>> \in Contract!JobMoves
    BY DEF Contract!JobMoves
  <2>. QED  BY <1>1, <1>2, <2>1 DEF Contract!JobStep, Contract!Moves, Contract!Starts
<1>7. ASSUME NEW n \in Nodes PROVE Contract!WithinRoom(n)
  BY <1>3, <1>4 DEF Contract!WithinRoom
<1>8. ASSUME NEW j \in Jobs, NEW n \in Nodes, phase'[j] = "queued", state'[n] = "READY",
             n \notin draining', tier'[n] \in Range(tiers[j])
      PROVE  tier'[n] = tier[n] /\ On(host, n) \cup {j} \notin Rooms[tier[n]]
  <2>1. phase[j] = "queued" /\ n \in OpenTo(state, draining, tiers[j]) /\ tier'[n] = tier[n]
    BY <1>2, <1>8 DEF OpenTo
  <2>. QED  BY <2>1 DEF NothingWaits
<1>9. ASSUME NEW j \in Jobs, NEW n \in Nodes PROVE Contract!FirstComeFirstServed(j, n)
  <2> SUFFICES ASSUME phase'[j] = "queued", NodeState'[n] = "READY", tier'[n] \in Range(tiers'[j])
               PROVE  Contract!Ahead(j, n) \cup {j} \notin Rooms[tier'[n]]
    BY DEF Contract!FirstComeFirstServed
  <2>1. state'[n] = "READY" /\ n \notin draining'
    BY DEF NodeState
  <2>2. Contract!Ahead(j, n) = On(host, n)
    <3>1. \A k \in On(host, n) : k \in Jobs
      BY DEF On
    <3>. QED  BY <1>2, <1>4, <3>1 DEF Contract!Ahead
  <2>. QED  BY <1>8, <2>1, <2>2
<1>10. NothingWaits'
  BY <1>8 DEF NothingWaits, OpenTo, On
<1>. QED  BY <1>5, <1>6, <1>7, <1>9, <1>10

(* What is left to show of a step of a node: its move, when it is the turn *)
(* of the node, and that it keeps its tier.                                *)
LEMMA NodeKeepsContract ==
  ASSUME IInv, IInv', DrainingUp, DrainingUp', NEW n \in Nodes,
         NodeState'[n] # NodeState[n] => <<NodeState[n], NodeState'[n]>> \in Contract!NodeMoves,
         state[n] = "LAUNCHING" /\ state'[n] = "READY" => \A m \in 1..(n-1) : state[m] # "LAUNCHING",
         state'[n] = "IDLE" /\ state[n] # "IDLE" => \E j \in Jobs : host[j] = n /\ phase'[j] = "done",
         state[n] # "none" /\ NodeState'[n] # "TERMINATED" => tier'[n] = tier[n]
  PROVE  Contract!NodeStep(n)
<1>1. /\ \A m \in Nodes : m \in draining => state[m] \in {"READY", "IDLE"}
      /\ \A m \in Nodes : m \in draining' => state'[m] \in {"READY", "IDLE"}
  BY DEF DrainingUp, Up
<1>2. /\ \A m \in Nodes : NodeState[m] = IF m \in draining THEN "DRAINING" ELSE state[m]
      /\ \A m \in Nodes : NodeState'[m] = IF m \in draining' THEN "DRAINING" ELSE state'[m]
  BY DEF NodeState
<1>3. NodeState[n] = "none" /\ NodeState'[n] # "none" => \A m \in 1..(n-1) : NodeState'[m] # "none"
  <2> SUFFICES ASSUME NodeState'[n] # "none", NEW m \in 1..(n-1) PROVE NodeState'[m] # "none"
    OBVIOUS
  <2>1. m \in Nodes /\ m < n
    BY TierAssumption DEF Nodes
  <2>2. state'[n] # "none"
    BY <1>1, <1>2
  <2>3. state'[m] # "none"
    BY <2>1, <2>2 DEF IInv, LaunchOrder, InOrder
  <2>. QED  BY <1>2, <2>1, <2>3
<1>4. NodeState[n] = "LAUNCHING" /\ NodeState'[n] = "READY" =>
        \A m \in 1..(n-1) : NodeState[m] # "LAUNCHING"
  <2>1. \A m \in 1..(n-1) : m \in Nodes
    BY TierAssumption DEF Nodes
  <2>. QED  BY <1>1, <1>2, <2>1
<1>5. NodeState'[n] = "IDLE" /\ NodeState[n] # "IDLE" => \E j \in Jobs : host[j] = n /\ phase'[j] = "done"
  BY <1>1, <1>2 DEF Contract!NodeMoves
<1>6. NodeState'[n] \in {"IDLE", "TERMINATED"} => Contract!OnAfter(n) = {}
  <2>1. \A j \in Jobs : host'[j] = n => state'[n] = "READY"
    BY Finite DEF IInv, JobsFit
  <2>2. Contract!OnAfter(n) # {} => state'[n] = "READY"
    BY <2>1 DEF Contract!OnAfter, Contract!Jobs, Jobs
  <2>. QED  BY <1>2, <2>2
<1>7. NodeState[n] # "none" /\ NodeState'[n] # "TERMINATED" => tier'[n] = tier[n]
  BY <1>1, <1>2
<1>. QED  BY <1>3, <1>4, <1>5, <1>6, <1>7
          DEF Contract!NodeStep, Contract!Jobs, Jobs

(* The parts of a step of the contract.                                    *)
LEMMA ContractStep ==
  ASSUME \A k \in Jobs : Contract!JobStep(k),
         \A m \in Nodes : Contract!NodeStep(m) /\ Contract!WithinRoom(m),
         \A k \in Jobs, m \in Nodes : Contract!FirstComeFirstServed(k, m),
         NEW j, NEW n,
         \A k \in Jobs : phase'[k] # phase[k] /\ phase[k] \in {"absent", "running"} => k = j,
         \A m \in Nodes : NodeState[m] = "LAUNCHING" /\ NodeState'[m] = "READY" => m = n,
         \/ \A k \in Jobs : ~(phase'[k] # phase[k] /\ phase[k] \in {"absent", "running"})
         \/ \A m \in Nodes : ~(NodeState[m] = "LAUNCHING" /\ NodeState'[m] = "READY")
  PROVE  Contract!Next
<1>1. Contract!OneEvent
  BY DEF Contract!OneEvent, Contract!Moves, Contract!Nodes, Contract!Jobs, Nodes, Jobs
<1>. QED  BY <1>1 DEF Contract!Next, Contract!Jobs, Contract!Nodes, Jobs, Nodes

(* A job that arrives, and is queued or rejected.                          *)
LEMMA ArriveKeepsContract ==
  ASSUME IInv, IInv', Hosted, NothingWaits, DrainingUp, NEW j \in Jobs, Arrive(j)
  PROVE  Hosted' /\ NothingWaits' /\ DrainingUp' /\ Contract!Next
<1> DEFINE viable == Viable(j, Resolved(j))
           ph == [phase EXCEPT ![j] = "queued"]
           tr == [tiers EXCEPT ![j] = viable]
<1>1. /\ phase[j] = "absent" /\ tier' = tier
      /\ \A i \in 1..(j-1) : phase[i] # "absent"
      /\ \/ phase' = [phase EXCEPT ![j] = "rejected"]
            /\ UNCHANGED <<tiers, host, state, draining>>
         \/ TrySchedule(ph, tr, host, state, draining, {}, Queues)
  BY DEF Arrive
<1>2. state' = state /\ draining' = draining
  BY <1>1 DEF TrySchedule
<1>3. Schedulable(ph, tr, host, state, draining)
  <2>1. TypeOK /\ Configured /\ now \in Nat
    BY TierAssumption DEF IInv, TypeOK
  <2>2. viable \in Seq(Tiers)
    BY <2>1, ViableHost
  <2> HIDE DEF viable
  <2>. QED  BY <1>1, <2>2, ArriveSchedulable
<1>4. /\ ph[j] = "queued"
      /\ \A k \in Jobs : k # j => ph[k] = phase[k] /\ tr[k] = tiers[k]
  BY DEF IInv, TypeOK
<1> HIDE DEF ph, tr, viable
<1>5. /\ Hosted' /\ NothingWaits'
      /\ \A k \in Jobs : Contract!JobStep(k)
      /\ \A m \in Nodes : Contract!WithinRoom(m)
      /\ \A k \in Jobs, m \in Nodes : Contract!FirstComeFirstServed(k, m)
      /\ \A k \in Jobs : phase'[k] # phase[k] /\ phase[k] \in {"absent", "running"} => k = j
  <2>1. CASE /\ phase' = [phase EXCEPT ![j] = "rejected"]
             /\ UNCHANGED <<tiers, host, state, draining>>
    <3>1. \A k \in Jobs : \/ phase'[k] = phase[k]
                          \/ /\ phase[k] = "absent" /\ phase'[k] = "rejected" /\ k = j
                             /\ \A i \in 1..(k-1) : phase[i] # "absent"
      BY <1>1, <2>1 DEF IInv, TypeOK
    <3>2. /\ \A n \in Nodes : state'[n] = "READY" /\ n \notin draining' =>
               state[n] = "READY" /\ n \notin draining
          /\ \A n \in Nodes : state'[n] = "READY" => tier'[n] = tier[n]
      BY <1>1, <2>1
    <3>3. host' = host /\ tiers' = tiers
      BY <2>1
    <3>4. /\ Hosted' /\ NothingWaits'
          /\ \A k \in Jobs : Contract!JobStep(k)
          /\ \A m \in Nodes : Contract!WithinRoom(m)
          /\ \A k \in Jobs, m \in Nodes : Contract!FirstComeFirstServed(k, m)
      BY <3>1, <3>2, <3>3, QuietKeepsContract
    <3>. QED  BY <3>1, <3>4
  <2>2. CASE TrySchedule(ph, tr, host, state, draining, {}, Queues)
    <3>1. \A k \in Jobs : JobEvent(k, ph, tr, host)
      BY <1>1, <1>4 DEF JobEvent
    <3>2. \A n \in Nodes : state[n] = "READY" => tier'[n] = tier[n]
      BY <1>1
    <3>3. /\ Hosted' /\ NothingWaits'
          /\ \A k \in Jobs : Contract!JobStep(k)
          /\ \A m \in Nodes : Contract!WithinRoom(m)
          /\ \A k \in Jobs, m \in Nodes : Contract!FirstComeFirstServed(k, m)
          /\ \A k \in Jobs : phase'[k] # phase[k] /\ phase[k] \in {"absent", "running"}
                               => ph[k] # phase[k]
      BY <1>3, <2>2, <3>1, <3>2, PassKeepsContract
    <3>. QED  BY <1>4, <3>3
  <2>. QED  BY <1>1, <2>1, <2>2
<1>6. DrainingUp'
  BY <1>2 DEF DrainingUp, Up
<1>7. \A m \in Nodes : NodeState'[m] = NodeState[m]
  BY <1>2 DEF NodeState
<1>8. ASSUME NEW m \in Nodes PROVE Contract!NodeStep(m)
  BY <1>1, <1>2, <1>6, <1>7, NodeKeepsContract
<1>9. \A m \in Nodes : ~(NodeState[m] = "LAUNCHING" /\ NodeState'[m] = "READY")
  BY <1>7
<1>10. Contract!Next
  BY <1>5, <1>8, <1>9, ContractStep
<1>. QED  BY <1>5, <1>6, <1>10

(* A job that ends: its node stays, is IDLE or is let go.                  *)
LEMMA EndKeepsContract ==
  ASSUME IInv, IInv', Hosted, DrainingUp, NEW j \in Jobs, Complete(j)
  PROVE  Hosted' /\ NothingWaits' /\ DrainingUp' /\ Contract!Next
<1> DEFINE n == host[j]
           h == [host EXCEPT ![j] = 0]
           ph == [phase EXCEPT ![j] = "done"]
           tr == [tiers EXCEPT ![j] = <<>>]
           last == On(h, n) = {}
           st == IF ~last THEN state
                 ELSE [state EXCEPT ![n] = IF n \in draining THEN "TERMINATED" ELSE "IDLE"]
           gone == IF last /\ n \in draining THEN {n} ELSE {}
           dr == draining \ gone
<1>1. /\ phase[j] = "running"
      /\ TrySchedule(ph, tr, h, st, dr, {n}, Queues)
      /\ tier' = TierWithout(gone)
  BY DEF Complete
<1>2. /\ n \in Nodes /\ state[n] = "READY" /\ tier[n] \in Tiers /\ 0 \notin Nodes
      /\ \A k \in Jobs : k # j => h[k] = host[k] /\ ph[k] = phase[k] /\ tr[k] = tiers[k]
      /\ h[j] = 0 /\ ph[j] = "done" /\ tr[j] = <<>>
      /\ \A m \in Nodes : m # n => st[m] = state[m] /\ On(h, m) = On(host, m)
      /\ last /\ n \in draining => st[n] = "TERMINATED"
      /\ last /\ n \notin draining => st[n] = "IDLE"
      /\ ~last => st[n] = "READY"
      /\ \A m \in Nodes : m \in gone <=> m = n /\ last /\ n \in draining
      /\ dr \subseteq draining
      /\ Schedulable(ph, tr, h, st, dr)
  BY EndSchedulable
<1>3. \A m \in Nodes : m \in dr <=> m \in draining /\ m \notin gone
  OBVIOUS
<1>4. \A m \in Nodes : m \notin gone => tier'[m] = tier[m]
  BY <1>1 DEF TierWithout
<1>5. host[j] = n
  OBVIOUS
<1> HIDE DEF n, h, ph, tr, last, st, gone, dr
<1>6. state' = st /\ draining' = dr /\ phase'[j] = "done"
  <2>1. j \notin Queued(ph)
    BY <1>2 DEF Queued
  <2>. QED  BY <1>1, <1>2, <2>1 DEF TrySchedule
<1>7. \A k \in Jobs : JobEvent(k, ph, tr, h)
  BY <1>1, <1>2 DEF JobEvent
<1>8. \A m \in Nodes : st[m] = "READY" => tier'[m] = tier[m]
  BY <1>2, <1>4
<1>9. /\ Hosted' /\ NothingWaits'
      /\ \A k \in Jobs : Contract!JobStep(k)
      /\ \A m \in Nodes : Contract!WithinRoom(m)
      /\ \A k \in Jobs, m \in Nodes : Contract!FirstComeFirstServed(k, m)
      /\ \A k \in Jobs : phase'[k] # phase[k] /\ phase[k] \in {"absent", "running"}
                           => ph[k] # phase[k]
  BY <1>1, <1>2, <1>7, <1>8, PassKeepsContract
<1>10. DrainingUp'
  <2>1. draining \subseteq Nodes
    BY DEF IInv, TypeOK
  <2>2. \A m \in dr : m \in Nodes /\ m \in draining /\ m \notin gone /\ state[m] \in {"READY", "IDLE"}
    BY <1>2, <1>3, <2>1 DEF DrainingUp, Up
  <2>3. \A m \in dr : st[m] \in {"READY", "IDLE"}
    BY <1>2, <2>2
  <2>. QED  BY <1>6, <2>3 DEF DrainingUp, Up
<1>11. \A m \in Nodes : /\ NodeState[m] = (IF m \in draining THEN "DRAINING" ELSE state[m])
                        /\ NodeState'[m] = (IF m \in dr THEN "DRAINING" ELSE st[m])
  BY <1>6 DEF NodeState
<1>12. ASSUME NEW m \in Nodes PROVE Contract!NodeStep(m)
  <2>1. CASE m # n
    <3>1. NodeState'[m] = NodeState[m] /\ state'[m] = state[m] /\ tier'[m] = tier[m]
      BY <1>2, <1>3, <1>4, <1>6, <1>11, <2>1
    <3>. QED  BY <1>10, <3>1, NodeKeepsContract
  <2>2. CASE m = n
    <3>1. NodeState'[m] # NodeState[m] => <<NodeState[m], NodeState'[m]>> \in Contract!NodeMoves
      BY <1>2, <1>3, <1>11, <2>2 DEF Contract!NodeMoves
    <3>2. \E k \in Jobs : host[k] = m /\ phase'[k] = "done"
      BY <1>5, <1>6, <2>2
    <3>3. NodeState'[m] # "TERMINATED" => tier'[m] = tier[m]
      BY <1>2, <1>3, <1>4, <1>11, <2>2
    <3>. QED  BY <1>2, <1>10, <2>2, <3>1, <3>2, <3>3, NodeKeepsContract
  <2>. QED  BY <2>1, <2>2
<1>13. Contract!Next
  <2>1. \A k \in Jobs : phase'[k] # phase[k] /\ phase[k] \in {"absent", "running"} => k = j
    BY <1>2, <1>9
  <2>2. \A m \in Nodes : ~(NodeState[m] = "LAUNCHING" /\ NodeState'[m] = "READY")
    BY <1>2, <1>11
  <2>. QED  BY <1>9, <1>12, <2>1, <2>2, ContractStep
<1>. QED  BY <1>9, <1>10, <1>13

(* A node that has warmed up.                                              *)
LEMMA ReadyKeepsContract ==
  ASSUME IInv, IInv', Hosted, DrainingUp, NEW n \in Nodes, NodeReady(n)
  PROVE  Hosted' /\ NothingWaits' /\ DrainingUp' /\ Contract!Next
<1> DEFINE st == [state EXCEPT ![n] = "READY"]
<1>1. /\ tier' = tier /\ state[n] = "LAUNCHING"
      /\ \A m \in 1..(n-1) : state[m] # "LAUNCHING"
      /\ TrySchedule(phase, tiers, host, st, draining, {n}, Queues)
  BY DEF NodeReady
<1>2. Schedulable(phase, tiers, host, st, draining)
  BY <1>1, ReadySchedulable
<1>3. st[n] = "READY" /\ \A m \in Nodes : m # n => st[m] = state[m]
  BY DEF IInv, TypeOK
<1>4. state' = st /\ draining' = draining
  BY <1>1 DEF TrySchedule
<1> HIDE DEF st
<1>5. \A k \in Jobs : JobEvent(k, phase, tiers, host)
  BY DEF JobEvent
<1>6. \A m \in Nodes : st[m] = "READY" => tier'[m] = tier[m]
  BY <1>1
<1>7. /\ Hosted' /\ NothingWaits'
      /\ \A k \in Jobs : Contract!JobStep(k)
      /\ \A m \in Nodes : Contract!WithinRoom(m)
      /\ \A k \in Jobs, m \in Nodes : Contract!FirstComeFirstServed(k, m)
      /\ \A k \in Jobs : ~(phase'[k] # phase[k] /\ phase[k] \in {"absent", "running"})
  BY <1>1, <1>2, <1>5, <1>6, PassKeepsContract
<1>8. n \notin draining
  BY <1>1 DEF DrainingUp, Up
<1>9. /\ NodeState[n] = "LAUNCHING" /\ NodeState'[n] = "READY"
      /\ \A m \in Nodes : m # n => NodeState'[m] = NodeState[m] /\ state'[m] = state[m]
  BY <1>1, <1>3, <1>4, <1>8 DEF NodeState
<1>10. DrainingUp'
  <2>1. draining \subseteq Nodes
    BY DEF IInv, TypeOK
  <2>. QED  BY <1>4, <1>8, <1>9, <2>1 DEF DrainingUp, Up
<1>11. ASSUME NEW m \in Nodes PROVE Contract!NodeStep(m)
  <2>1. NodeState'[m] # NodeState[m] => <<NodeState[m], NodeState'[m]>> \in Contract!NodeMoves
    BY <1>9 DEF Contract!NodeMoves
  <2>2. state[m] = "LAUNCHING" /\ state'[m] = "READY" => \A i \in 1..(m-1) : state[i] # "LAUNCHING"
    BY <1>1, <1>9
  <2>3. ~(state'[m] = "IDLE" /\ state[m] # "IDLE")
    BY <1>3, <1>4, <1>9
  <2>. QED  BY <1>1, <1>10, <2>1, <2>2, <2>3, NodeKeepsContract
<1>12. Contract!Next
  <2>1. \A m \in Nodes : NodeState[m] = "LAUNCHING" /\ NodeState'[m] = "READY" => m = n
    BY <1>9
  <2>. QED  BY <1>7, <1>11, <2>1, ContractStep
<1>. QED  BY <1>7, <1>10, <1>12

(* A boundary of the windows: what waits is tried again.                   *)
LEMMA SwapKeepsContract ==
  ASSUME IInv, IInv', Hosted, DrainingUp, PolicySwap
  PROVE  Hosted' /\ NothingWaits' /\ DrainingUp' /\ Contract!Next
<1> DEFINE q == windows[WindowAfter(idx)].queues
<1>1. tier' = tier /\ TrySchedule(phase, tiers, host, state, draining, Nodes, q)
  BY DEF PolicySwap
<1>2. Schedulable(phase, tiers, host, state, draining)
  BY UpHasTier DEF IInv, Schedulable, TypeOK, Phases, States
<1>3. state' = state /\ draining' = draining
  BY <1>1 DEF TrySchedule
<1> HIDE DEF q
<1>4. \A k \in Jobs : JobEvent(k, phase, tiers, host)
  BY DEF JobEvent
<1>5. \A m \in Nodes : state[m] = "READY" => tier'[m] = tier[m]
  BY <1>1
<1>6. /\ Hosted' /\ NothingWaits'
      /\ \A k \in Jobs : Contract!JobStep(k)
      /\ \A m \in Nodes : Contract!WithinRoom(m)
      /\ \A k \in Jobs, m \in Nodes : Contract!FirstComeFirstServed(k, m)
      /\ \A k \in Jobs : ~(phase'[k] # phase[k] /\ phase[k] \in {"absent", "running"})
  BY <1>1, <1>2, <1>4, <1>5, PassKeepsContract
<1>7. DrainingUp'
  BY <1>3 DEF DrainingUp, Up
<1>8. \A m \in Nodes : NodeState'[m] = NodeState[m]
  BY <1>3 DEF NodeState
<1>9. ASSUME NEW m \in Nodes PROVE Contract!NodeStep(m)
  BY <1>1, <1>3, <1>7, <1>8, NodeKeepsContract
<1>10. \A m \in Nodes : ~(NodeState[m] = "LAUNCHING" /\ NodeState'[m] = "READY")
  BY <1>8
<1>11. Contract!Next
  BY <1>6, <1>9, <1>10, ContractStep
<1>. QED  BY <1>6, <1>7, <1>11

(* A step that only changes where nodes are in their lives.                *)
LEMMA LivesKeepContract ==
  ASSUME IInv, IInv', Hosted, NothingWaits, DrainingUp, DrainingUp',
         phase' = phase, host' = host, tiers' = tiers,
         \A m \in Nodes :
           \/ state'[m] = state[m] /\ tier'[m] = tier[m] /\ (m \in draining' <=> m \in draining)
           \/ state[m] = "none" /\ state'[m] = "LAUNCHING"
           \/ state'[m] = state[m] /\ Up(state, m) /\ tier'[m] = tier[m] /\ m \in draining'
           \/ state'[m] = "TERMINATED" /\ Up(state, m)
  PROVE  Hosted' /\ NothingWaits' /\ Contract!Next
<1>1. /\ \A m \in Nodes : m \in draining => state[m] \in {"READY", "IDLE"}
      /\ \A m \in Nodes : m \in draining' => state'[m] \in {"READY", "IDLE"}
      /\ \A m \in Nodes : Up(state, m) <=> state[m] \in {"READY", "IDLE"}
  BY DEF DrainingUp, Up
<1>2. \A m \in Nodes : /\ NodeState[m] = (IF m \in draining THEN "DRAINING" ELSE state[m])
                       /\ NodeState'[m] = (IF m \in draining' THEN "DRAINING" ELSE state'[m])
  BY DEF NodeState
<1>3. /\ Hosted' /\ NothingWaits'
      /\ \A k \in Jobs : Contract!JobStep(k)
      /\ \A m \in Nodes : Contract!WithinRoom(m)
      /\ \A k \in Jobs, m \in Nodes : Contract!FirstComeFirstServed(k, m)
  <2>1. /\ \A m \in Nodes : state'[m] = "READY" /\ m \notin draining' =>
             state[m] = "READY" /\ m \notin draining
        /\ \A m \in Nodes : state'[m] = "READY" => tier'[m] = tier[m]
    OBVIOUS
  <2>. QED  BY <2>1, QuietKeepsContract
<1>4. ASSUME NEW m \in Nodes PROVE Contract!NodeStep(m)
  <2>1. NodeState'[m] # NodeState[m] => <<NodeState[m], NodeState'[m]>> \in Contract!NodeMoves
    BY <1>1, <1>2 DEF Contract!NodeMoves
  <2>2. /\ ~(state[m] = "LAUNCHING" /\ state'[m] = "READY")
        /\ ~(state'[m] = "IDLE" /\ state[m] # "IDLE")
    OBVIOUS
  <2>3. state[m] # "none" /\ NodeState'[m] # "TERMINATED" => tier'[m] = tier[m]
    BY <1>1, <1>2
  <2>. QED  BY <2>1, <2>2, <2>3, NodeKeepsContract
<1>5. \A m \in Nodes : ~(NodeState[m] = "LAUNCHING" /\ NodeState'[m] = "READY")
  BY <1>1, <1>2
<1>6. \A k \in Jobs : ~(phase'[k] # phase[k] /\ phase[k] \in {"absent", "running"})
  OBVIOUS
<1>. QED  BY <1>3, <1>4, <1>5, <1>6, ContractStep

(* A timer that fires: its node drains or is let go.                       *)
LEMMA TimerKeepsContract ==
  ASSUME IInv, IInv', Hosted, NothingWaits, DrainingUp, NEW n \in Nodes,
         DrainFires(n) \/ IdleFires(n)
  PROVE  Hosted' /\ NothingWaits' /\ DrainingUp' /\ Contract!Next
<1>1. phase' = phase /\ host' = host /\ tiers' = tiers
  BY DEF DrainFires, IdleFires, jobVars
<1>2. draining \subseteq Nodes
  BY DEF IInv, TypeOK
<1>3. /\ \A m \in Nodes : m # n => /\ state'[m] = state[m] /\ tier'[m] = tier[m]
                                   /\ (m \in draining' <=> m \in draining)
      /\ draining' \subseteq draining \cup {n}
      /\ Up(state, n)
      /\ \/ state'[n] = "TERMINATED" /\ n \notin draining'
         \/ state'[n] = state[n] /\ tier'[n] = tier[n] /\ n \in draining'
  <2>1. CASE DrainFires(n)
    <3> DEFINE gone == IF plus /\ On(host, n) = {} THEN {n} ELSE {}
    <3>1. /\ clock[n].wake = now
          /\ state' = [m \in Nodes |-> IF m \in gone THEN "TERMINATED" ELSE state[m]]
          /\ tier' = TierWithout(gone)
          /\ draining' = IF gone = {} THEN draining \cup {n} ELSE draining \ gone
      BY <2>1 DEF DrainFires
    <3>2. gone = {} \/ gone = {n}
      OBVIOUS
    <3> HIDE DEF gone
    <3>3. Up(state, n)
      <4>1. now # Never
        BY TierAssumption DEF IInv, TypeOK, Never
      <4>2. clock[n] # NoClock
        BY <3>1, <4>1, NoClockType
      <4>. QED  BY <4>2 DEF IInv, ClockKept, HistoryKept
    <3>. QED  BY <3>1, <3>2, <3>3 DEF TierWithout
  <2>2. CASE IdleFires(n)
    <3>1. /\ state[n] = "IDLE" /\ n \notin draining /\ draining' = draining
          /\ state' = [state EXCEPT ![n] = "TERMINATED"] /\ tier' = TierWithout({n})
      BY <2>2 DEF IdleFires
    <3>. QED  BY <3>1 DEF Up, TierWithout, IInv, TypeOK
  <2>. QED  BY <2>1, <2>2
<1>4. DrainingUp'
  <2> SUFFICES ASSUME NEW m \in draining' PROVE Up(state', m)
    BY DEF DrainingUp, Up
  <2>1. CASE m = n
    BY <1>3, <2>1 DEF Up
  <2>2. CASE m # n
    BY <1>2, <1>3, <2>2 DEF DrainingUp, Up
  <2>. QED  BY <2>1, <2>2
<1>5. \A m \in Nodes :
        \/ state'[m] = state[m] /\ tier'[m] = tier[m] /\ (m \in draining' <=> m \in draining)
        \/ state[m] = "none" /\ state'[m] = "LAUNCHING"
        \/ state'[m] = state[m] /\ Up(state, m) /\ tier'[m] = tier[m] /\ m \in draining'
        \/ state'[m] = "TERMINATED" /\ Up(state, m)
  BY <1>3
<1>. QED  BY <1>1, <1>4, <1>5, LivesKeepContract

(* The nodes launched for the overflow of the queue.                       *)
LEMMA ProvisionKeepsContract ==
  ASSUME IInv, IInv', Hosted, NothingWaits, DrainingUp, Provision
  PROVE  Hosted' /\ NothingWaits' /\ DrainingUp' /\ Contract!Next
<1> DEFINE types == Launches
           from == Cardinality(Launched)
           new == (from+1)..(from+Len(types))
<1>1. phase' = phase /\ host' = host /\ tiers' = tiers /\ draining' = draining
  BY DEF Provision, jobVars
<1>2. \A n \in Nodes :
        /\ n \in new => state[n] = "none" /\ state'[n] = "LAUNCHING"
        /\ n \notin new => state'[n] = state[n] /\ tier'[n] = tier[n]
  BY NewNodes
<1> HIDE DEF types, from, new
<1>3. DrainingUp'
  <2>1. draining \subseteq Nodes
    BY DEF IInv, TypeOK
  <2>. QED  BY <1>1, <1>2, <2>1 DEF DrainingUp, Up
<1>4. \A m \in Nodes :
        \/ state'[m] = state[m] /\ tier'[m] = tier[m] /\ (m \in draining' <=> m \in draining)
        \/ state[m] = "none" /\ state'[m] = "LAUNCHING"
        \/ state'[m] = state[m] /\ Up(state, m) /\ tier'[m] = tier[m] /\ m \in draining'
        \/ state'[m] = "TERMINATED" /\ Up(state, m)
  BY <1>1, <1>2
<1>. QED  BY <1>1, <1>3, <1>4, LivesKeepContract

(* Both schedulers keep the contract of ClusterContract when jobs name     *)
(* their tiers and windows decide what is launched: each job is run once,  *)
(* on a node of a tier it may run on, in its room, and none that waits is  *)
(* passed over for one that came after it.                                 *)
THEOREM TierKeepsContract == Spec => KeepsContract
<1>1. Init => Hosted /\ NothingWaits /\ DrainingUp /\ Contract!Init
  <2> SUFFICES ASSUME Init PROVE Hosted /\ NothingWaits /\ DrainingUp /\ Contract!Init
    OBVIOUS
  <2>1. Hosted
    BY Finite DEF Init, Hosted, On
  <2>2. NothingWaits /\ DrainingUp
    BY DEF Init, NothingWaits, DrainingUp
  <2>3. NodeState = [n \in Nodes |-> "none"]
    BY DEF Init, NodeState
  <2>. QED  BY <2>1, <2>2, <2>3 DEF Init, Contract!Init, Contract!Jobs, Contract!Nodes, Jobs, Nodes
<1>2. /\ IInv /\ IInv' /\ Hosted /\ NothingWaits /\ DrainingUp /\ [Next]_vars
      => Hosted' /\ NothingWaits' /\ DrainingUp' /\ [Contract!Next]_(Contract!vars)
  <2> SUFFICES ASSUME IInv, IInv', Hosted, NothingWaits, DrainingUp, [Next]_vars
               PROVE  Hosted' /\ NothingWaits' /\ DrainingUp' /\ [Contract!Next]_(Contract!vars)
    OBVIOUS
  <2>1. ASSUME NEW j \in Jobs, Arrive(j) PROVE Hosted' /\ NothingWaits' /\ DrainingUp' /\ Contract!Next
    BY <2>1, ArriveKeepsContract
  <2>2. ASSUME NEW j \in Jobs, Complete(j) PROVE Hosted' /\ NothingWaits' /\ DrainingUp' /\ Contract!Next
    BY <2>2, EndKeepsContract
  <2>3. CASE Provision
    BY <2>3, ProvisionKeepsContract
  <2>4. ASSUME NEW n \in Nodes, NodeReady(n) PROVE Hosted' /\ NothingWaits' /\ DrainingUp' /\ Contract!Next
    BY <2>4, ReadyKeepsContract
  <2>5. ASSUME NEW n \in Nodes, DrainFires(n) \/ IdleFires(n)
        PROVE  Hosted' /\ NothingWaits' /\ DrainingUp' /\ Contract!Next
    BY <2>5, TimerKeepsContract
  <2>6. CASE PolicySwap
    BY <2>6, SwapKeepsContract
  <2>7. CASE Tick \/ UNCHANGED vars
    <3>1. UNCHANGED <<phase, tiers, host, state, draining, tier>>
      BY <2>7 DEF Tick, vars, jobVars, nodeVars
    <3>2. Hosted' /\ NothingWaits' /\ DrainingUp'
      BY <3>1 DEF Hosted, NothingWaits, DrainingUp, On, OpenTo, Up
    <3>3. UNCHANGED Contract!vars
      BY <3>1 DEF Contract!vars, NodeState
    <3>. QED  BY <3>2, <3>3
  <2>. QED  BY <2>1, <2>2, <2>3, <2>4, <2>5, <2>6, <2>7 DEF Next
<1>. QED  BY <1>1, <1>2, TierInvariant, PTL DEF Spec, KeepsContract, Contract!Spec
=============================================================================
