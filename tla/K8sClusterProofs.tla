-------------------------- MODULE K8sClusterProofs --------------------------
(***************************************************************************)
(* Proofs about K8sCluster, for any jobs, any memory use, any number of    *)
(* retries and nodes: its types, that a node's books are those of the      *)
(* processes on it, that no slot is on a node that has been let go, that   *)
(* retries are bounded, and that no job that has just come waits beside    *)
(* room.                                                                   *)
(***************************************************************************)
EXTENDS K8sCluster, PackingProofs

(* The queue lists the processes that are queued, each once.               *)
QueueOK(ph, q) ==
  /\ q \in Seq(Procs)
  /\ \A i, k \in 1..Len(q) : q[i] = q[k] => i = k
  /\ \A p \in Procs : ph[p] = "queued" <=> \E i \in 1..Len(q) : q[i] = p

Waits == {"absent", "queued", "rejected"}

(* A job has no copies before its first process has run, and its tiers are *)
(* known as long as that one is queued.                                    *)
FirstCopy(ph, kn) ==
  \A j \in Jobs :
    /\ ph[<<j, 0>>] \in Waits => \A k \in Copies \ {0} : ph[<<j, k>>] = "absent"
    /\ tiered /\ ph[<<j, 0>>] = "queued" => j \in kn

(* A slot is one of a process of its job that has been placed.             *)
SlotsOfStarted(ph, sl) ==
  \A n \in Nodes, j \in Jobs : sl[n][j] # NoSlot =>
    /\ sl[n][j].proc \in Procs /\ sl[n][j].proc[1] = j
    /\ ph[sl[n][j].proc] \notin Waits

(* The processes of job j on node n, and what all on n have requested.     *)
On(h, n, j) == {p \in Procs : p[1] = j /\ h[p] = n}

Shares(h, n, Amount) == [j \in Jobs |-> Amount[j] * Cardinality(On(h, n, j))]

Requests(h, n, Amount) == Total(Shares(h, n, Amount), NumJobs)

Balanced(h, ram, vcpu) ==
  \A n \in Nodes : ram[n] = Requests(h, n, Soft) /\ vcpu[n] = Requests(h, n, Vcpu)

Live(sl, st) == \A n \in Nodes : Holds(sl, n) # {} => st[n] \in {"READY", "DRAINING"}

States == {"none", "LAUNCHING", "READY", "IDLE", "DRAINING", "TERMINATED"}

(* What an action hands to _try_schedule, and what it leaves.              *)
Consistent(ph, h, q, sl, ram, vcpu, st, kn) ==
  /\ ph \in [Procs -> Phases] /\ h \in [Procs -> Nodes \cup {0}]
  /\ \A p \in Procs : h[p] # 0 <=> ph[p] \in Active
  /\ sl \in [Nodes -> [Jobs -> Slot]]
  /\ ram \in [Nodes -> Nat] /\ vcpu \in [Nodes -> Nat]
  /\ st \in [Nodes -> States] /\ kn \subseteq Jobs
  /\ QueueOK(ph, q) /\ FirstCopy(ph, kn) /\ SlotsOfStarted(ph, sl)
  /\ Balanced(h, ram, vcpu) /\ Live(sl, st)

(* The inductive invariant.                                                *)
IInv ==
  /\ Consistent(phase, host, queue, slots, allocated_ram, allocated_vcpu, state, known)
  /\ tiered \in TierModes /\ retry \in [Procs -> Nat] /\ cancelled \subseteq Procs
  /\ completed \subseteq Jobs /\ terminal \subseteq Jobs
  /\ idle_timers \in [Nodes -> Nat] /\ monitors \subseteq Nodes
  /\ RetryLimit /\ NoIdleRoom

-----------------------------------------------------------------------------
(* What the jobs with an entry in S request.                               *)
PerJob(q, S, Amount) == [j \in Jobs |-> IF \E i \in S : q[i][1] = j THEN Amount[j] ELSE 0]

(* The requests of entries of different jobs are a sum over these jobs.    *)
LEMMA RequestedOnce ==
  ASSUME NEW q \in Seq(Procs), NEW S \in SUBSET (1..Len(q)), NEW Amount \in [Jobs -> Nat],
         \A i, k \in S : q[i][1] = q[k][1] => i = k
  PROVE  Requested(q, S, Amount) = Total(PerJob(q, S, Amount), NumJobs)
<1> DEFINE n == Len(q)
           F(m) == [i \in 1..n |-> IF i \in S /\ i <= m THEN Amount[q[i][1]] ELSE 0]
           G(m) == [j \in Jobs |-> IF \E i \in S : i <= m /\ q[i][1] = j THEN Amount[j] ELSE 0]
           I == {m \in Nat : m <= n => Total(F(m), n) = Total(G(m), NumJobs)}
<1>1. n \in Nat /\ NumJobs \in Nat /\ Jobs = 1..NumJobs /\ S \subseteq 1..n
  BY K8sAssumption DEF Jobs
<1>2. \A i \in 1..n : q[i] \in Procs /\ q[i][1] \in Jobs /\ Amount[q[i][1]] \in Nat
  BY DEF Procs
<1>3. \A m \in Nat : F(m) \in [1..n -> Nat] /\ G(m) \in [1..NumJobs -> Nat]
  BY <1>1, <1>2
<1>4. 0 \in I
  <2>1. \A i \in 1..n : F(0)[i] = 0
    BY <1>1
  <2>2. \A j \in 1..NumJobs : G(0)[j] = 0
    BY <1>1
  <2>3. F(0) \in [1..n -> Int] /\ G(0) \in [1..NumJobs -> Int]
    BY <1>3
  <2> HIDE DEF F, G
  <2>4. Total(F(0), n) = 0 /\ Total(G(0), NumJobs) = 0
    BY <1>1, <2>1, <2>2, <2>3, TotalZero
  <2>. QED  BY <2>4
<1>5. ASSUME NEW m \in Nat, m \in I
      PROVE  m+1 \in I
  <2>1. SUFFICES ASSUME m+1 <= n
                 PROVE  Total(F(m+1), n) = Total(G(m+1), NumJobs)
    OBVIOUS
  <2>2. Total(F(m), n) = Total(G(m), NumJobs) /\ m+1 \in 1..n
    BY <1>1, <1>5, <2>1
  <2>3. \A i \in 1..n : i <= m+1 <=> i <= m \/ i = m+1
    BY <1>1
  <2>4. CASE m+1 \notin S
    <3>1. F(m+1) = F(m)
      BY <2>3, <2>4
    <3>2. G(m+1) = G(m)
      BY <1>1, <2>3, <2>4
    <3> HIDE DEF F, G
    <3>. QED  BY <2>2, <3>1, <3>2
  <2>5. CASE m+1 \in S
    <3> DEFINE j == q[m+1][1]
    <3>1. j \in Jobs /\ Amount[j] \in Nat
      BY <1>2, <2>2
    <3>2. /\ F(m+1)[m+1] = Amount[j] /\ F(m)[m+1] = 0
          /\ \A i \in 1..n : i # m+1 => F(m+1)[i] = F(m)[i]
      BY <2>2, <2>3, <2>5
    <3>3. \A i \in S : q[i][1] = j => i = m+1
      BY <2>5
    <3>4. G(m+1)[j] = Amount[j] /\ G(m)[j] = 0
      <4>1. G(m+1)[j] = Amount[j]
        BY <2>2, <2>5, <3>1
      <4>2. ~\E i \in S : i <= m /\ q[i][1] = j
        BY <3>3
      <4>. QED  BY <3>1, <4>1, <4>2
    <3>5. \A k \in Jobs : k # j => G(m+1)[k] = G(m)[k]
      BY <1>1, <2>3
    <3>6. F(m) \in [1..n -> Int] /\ F(m+1) \in [1..n -> Int]
          /\ G(m) \in [1..NumJobs -> Int] /\ G(m+1) \in [1..NumJobs -> Int]
      BY <1>3
    <3> HIDE DEF F, G, j
    <3>7. Total(F(m+1), n) = Total(F(m), n) + (F(m+1)[m+1] - F(m)[m+1])
      BY <1>1, <2>2, <3>2, <3>6, TotalChange
    <3>8. Total(G(m+1), NumJobs) = Total(G(m), NumJobs) + (G(m+1)[j] - G(m)[j])
      BY <1>1, <3>1, <3>5, <3>6, TotalChange
    <3>. QED  BY <2>2, <3>2, <3>4, <3>7, <3>8
  <2>. QED  BY <2>4, <2>5
<1>6. n \in I
  <2> HIDE DEF I
  <2>. QED  BY <1>1, <1>4, <1>5, NatSetInduction
<1>7. Total(F(n), n) = Total(G(n), NumJobs)
  <2> HIDE DEF F, G
  <2>. QED  BY <1>1, <1>6
<1>8. \A i \in S : i <= n
  BY <1>1
<1>9. F(n) = [i \in 1..n |-> IF i \in S THEN Amount[q[i][1]] ELSE 0]
  BY <1>8
<1>10. G(n) = PerJob(q, S, Amount)
  BY <1>8 DEF PerJob
<1>. QED  BY <1>7, <1>9, <1>10 DEF Requested

(* Requested is what a set of entries asks for.                            *)
LEMMA RequestedIsAsked ==
  ASSUME NEW q \in Seq(Procs), NEW S, NEW Amount \in [Jobs -> Nat]
  PROVE  /\ [i \in 1..Len(q) |-> Amount[q[i][1]]] \in [1..Len(q) -> Nat]
         /\ Requested(q, S, Amount) = Asked(S, [i \in 1..Len(q) |-> Amount[q[i][1]]], Len(q))
<1>1. \A i \in 1..Len(q) : q[i] \in Procs /\ Amount[q[i][1]] \in Nat
  BY DEF Procs
<1> DEFINE A == [i \in 1..Len(q) |-> Amount[q[i][1]]]
<1>2. [i \in 1..Len(q) |-> IF i \in S THEN Amount[q[i][1]] ELSE 0]
        = [i \in 1..Len(q) |-> IF i \in S THEN A[i] ELSE 0]
  OBVIOUS
<1>. QED  BY <1>1, <1>2 DEF Requested, Asked

(* An entry asks for its amount beside those that it is not one of.        *)
LEMMA RequestedBeside ==
  ASSUME NEW q \in Seq(Procs), NEW S, NEW T, S \subseteq T, NEW i \in 1..Len(q), i \notin S,
         NEW Amount \in [Jobs -> Nat]
  PROVE  /\ Requested(q, S \cup {i}, Amount) = Requested(q, S, Amount) + Amount[q[i][1]]
         /\ Requested(q, S, Amount) <= Requested(q, T, Amount)
         /\ Requested(q, S, Amount) \in Nat /\ Requested(q, T, Amount) \in Nat
         /\ q[i][1] \in Jobs
<1> DEFINE A == [k \in 1..Len(q) |-> Amount[q[k][1]]]
<1>1. Len(q) \in Nat /\ q[i][1] \in Jobs /\ A[i] = Amount[q[i][1]]
  BY DEF Procs
<1>2. /\ A \in [1..Len(q) -> Nat]
      /\ \A U : Requested(q, U, Amount) = Asked(U, A, Len(q))
  BY RequestedIsAsked
<1> HIDE DEF A
<1> DEFINE n == Len(q)
<1>3. n \in Nat /\ i \in 1..n /\ A \in [1..n -> Nat]
  BY <1>1, <1>2
<1> HIDE DEF n
<1>4. Asked(S \cup {i}, A, n) = Asked(S, A, n) + A[i]
  BY <1>3, SumAdd
<1>5. Asked(S, A, n) <= Asked(T, A, n)
  BY <1>3, SumMonotone
<1>6. Asked(S, A, n) \in Nat /\ Asked(T, A, n) \in Nat
  BY <1>3, SumType
<1>. QED  BY <1>1, <1>2, <1>4, <1>5, <1>6 DEF n

(* One process alone asks for its amount.                                  *)
LEMMA RequestedAlone ==
  ASSUME NEW p \in Procs, NEW Amount \in [Jobs -> Nat]
  PROVE  Requested(<<p>>, {1}, Amount) = Amount[p[1]]
<1>1. <<p>> \in Seq(Procs) /\ Len(<<p>>) = 1 /\ <<p>>[1] = p
  OBVIOUS
<1> DEFINE A == [i \in 1..1 |-> Amount[<<p>>[i][1]]]
<1>2. Requested(<<p>>, {}, Amount) = 0
  <2>1. A \in [1..1 -> Nat] /\ Requested(<<p>>, {}, Amount) = Asked({}, A, 1)
    BY <1>1, RequestedIsAsked
  <2> HIDE DEF A
  <2>. QED  BY <2>1, SumEmpty
<1>3. Requested(<<p>>, {} \cup {1}, Amount) = Requested(<<p>>, {}, Amount) + Amount[<<p>>[1][1]]
  <2> DEFINE s == <<p>>
  <2>1. s \in Seq(Procs) /\ 1 \in 1..Len(s) /\ {} \subseteq {} /\ 1 \notin {}
    BY <1>1
  <2> HIDE DEF s
  <2>2. Requested(s, {} \cup {1}, Amount) = Requested(s, {}, Amount) + Amount[s[1][1]]
    BY <2>1, RequestedBeside
  <2>. QED  BY <2>2 DEF s
<1>4. Amount[p[1]] \in Nat /\ {} \cup {1} = {1}
  BY DEF Procs
<1>. QED  BY <1>1, <1>2, <1>3, <1>4

-----------------------------------------------------------------------------
(* The processes of a job on a node are finitely many.                     *)
LEMMA OnFinite ==
  ASSUME NEW h, NEW n, NEW j
  PROVE  IsFiniteSet(On(h, n, j)) /\ Cardinality(On(h, n, j)) \in Nat
<1>1. IsFiniteSet(Jobs) /\ IsFiniteSet(Copies)
  BY K8sAssumption, FS_Interval DEF Jobs, Copies
<1>2. IsFiniteSet(Procs)
  BY <1>1, FS_Product DEF Procs
<1>3. On(h, n, j) \subseteq Procs
  BY DEF On
<1>4. IsFiniteSet(On(h, n, j))
  BY <1>2, <1>3, FS_Subset
<1>. QED  BY <1>4, FS_CardinalityType

(* The summands of Requests are naturals.                                  *)
LEMMA RequestsType ==
  ASSUME NEW h, NEW n, NEW Amount \in [Jobs -> Nat]
  PROVE  /\ Shares(h, n, Amount) \in [1..NumJobs -> Nat]
         /\ Requests(h, n, Amount) \in Nat
<1>1. \A j \in Jobs : Amount[j] * Cardinality(On(h, n, j)) \in Nat
  <2> TAKE j \in Jobs
  <2> DEFINE c == Cardinality(On(h, n, j))
  <2>1. c \in Nat /\ Amount[j] \in Nat
    BY OnFinite
  <2> HIDE DEF c
  <2>2. Amount[j] * c \in Nat
    BY <2>1
  <2>. QED  BY <2>2 DEF c
<1>2. Shares(h, n, Amount) \in [1..NumJobs -> Nat]
  BY <1>1 DEF Jobs, Shares
<1>. QED  BY <1>2, K8sAssumption, TotalNat DEF Requests

(* From h to g, the entries S of q, of different jobs, are placed on n.    *)
Join(q, S, n, h, g) ==
  /\ \A i, k \in S : q[i][1] = q[k][1] => i = k
  /\ \A i \in S : h[q[i]] # n
  /\ \A p \in Procs : g[p] = n <=> h[p] = n \/ \E i \in S : q[i] = p

(* The books when they are.                                                *)
LEMMA RequestsPlaced ==
  ASSUME NEW q \in Seq(Procs), NEW S \in SUBSET (1..Len(q)), NEW Amount \in [Jobs -> Nat],
         NEW n, NEW h, NEW g, Join(q, S, n, h, g)
  PROVE  Requests(g, n, Amount) = Requests(h, n, Amount) + Requested(q, S, Amount)
<1> DEFINE F == Shares(h, n, Amount)
           G == Shares(g, n, Amount)
           E == PerJob(q, S, Amount)
<1>1. \A j \in Jobs : G[j] = F[j] + E[j]
  <2> TAKE j \in Jobs
  <2> DEFINE c == Cardinality(On(h, n, j))
             d == Cardinality(On(g, n, j))
  <2>1. c \in Nat /\ d \in Nat /\ Amount[j] \in Nat /\ IsFiniteSet(On(h, n, j))
    BY OnFinite
  <2>2. CASE \E i \in S : q[i][1] = j
    <3>1. PICK i \in S : q[i][1] = j
      BY <2>2
    <3>2. \A k \in S : q[k][1] = j => k = i
      BY <3>1 DEF Join
    <3>3. q[i] \in Procs /\ q[i] \notin On(h, n, j)
      BY DEF Join, On
    <3>4. On(g, n, j) = On(h, n, j) \cup {q[i]}
      BY <3>1, <3>2, <3>3 DEF Join, On
    <3>5. d = c + 1
      BY <2>1, <3>3, <3>4, FS_AddElement
    <3>6. E[j] = Amount[j]
      BY <2>2 DEF PerJob
    <3> HIDE DEF c, d, E
    <3>7. Amount[j] * d = Amount[j] * c + Amount[j]
      BY <2>1, <3>5
    <3>. QED  BY <3>6, <3>7 DEF c, d, Shares
  <2>3. CASE ~\E i \in S : q[i][1] = j
    <3>1. On(g, n, j) = On(h, n, j)
      BY <2>3 DEF Join, On
    <3>2. E[j] = 0
      BY <2>3 DEF PerJob
    <3>3. F[j] \in Nat
      <4> HIDE DEF c
      <4>1. Amount[j] * c \in Nat
        BY <2>1
      <4>. QED  BY <4>1 DEF c, Shares
    <3>. QED  BY <3>1, <3>2, <3>3 DEF Shares
  <2>. QED  BY <2>2, <2>3
<1>2. F \in [1..NumJobs -> Int] /\ G \in [1..NumJobs -> Int]
  <2>1. F \in [1..NumJobs -> Nat]
    BY RequestsType
  <2>2. G \in [1..NumJobs -> Nat]
    BY RequestsType
  <2> HIDE DEF F, G
  <2>. QED  BY <2>1, <2>2
<1>3. E \in [1..NumJobs -> Int] /\ Jobs = 1..NumJobs /\ NumJobs \in Nat
  BY K8sAssumption DEF Jobs, PerJob
<1>4. Requested(q, S, Amount) = Total(E, NumJobs)
  <2>1. \A i, k \in S : q[i][1] = q[k][1] => i = k
    BY DEF Join
  <2>. QED  BY <2>1, RequestedOnce
<1>5. Requests(g, n, Amount) = Total(G, NumJobs) /\ Requests(h, n, Amount) = Total(F, NumJobs)
  BY DEF Requests
<1> HIDE DEF E, F, G
<1>6. \A k \in 1..NumJobs : G[k] = F[k] + E[k]
  BY <1>1, <1>3
<1>7. E \in [1..NumJobs -> Int] /\ NumJobs \in Nat
  BY <1>3
<1>8. Total(G, NumJobs) = Total(F, NumJobs) + Total(E, NumJobs)
  BY <1>2, <1>6, <1>7, TotalAdd
<1>. QED  BY <1>4, <1>5, <1>8

(* The books when process p ends.                                          *)
LEMMA RequestsLess ==
  ASSUME NEW h, NEW p \in Procs, NEW g, NEW Amount \in [Jobs -> Nat], NEW n, h[p] = n,
         g[p] # n, \A r \in Procs : r # p => g[r] = h[r]
  PROVE  Less(Requests(h, n, Amount), Amount[p[1]]) = Requests(g, n, Amount)
<1> DEFINE F == Shares(h, n, Amount)
           G == Shares(g, n, Amount)
           j == p[1]
           c == Cardinality(On(h, n, j))
           d == Cardinality(On(g, n, j))
<1>1. j \in Jobs /\ Amount[j] \in Nat
  BY DEF Procs
<1>2. c \in Nat /\ d \in Nat /\ c = d + 1
  <2>1. On(h, n, j) = On(g, n, j) \cup {p} /\ p \notin On(g, n, j)
    BY DEF On
  <2>. QED  BY <2>1, OnFinite, FS_AddElement
<1>3. \A k \in Jobs : k # j => On(g, n, k) = On(h, n, k)
  BY DEF On
<1>4. \A k \in Jobs : k # j => G[k] = F[k]
  BY <1>3 DEF Shares
<1>5. F[j] = Amount[j] * c /\ G[j] = Amount[j] * d
  BY <1>1 DEF Shares
<1>6. F \in [1..NumJobs -> Int] /\ G \in [1..NumJobs -> Int] /\ Jobs = 1..NumJobs
      /\ NumJobs \in Nat
  <2>1. F \in [1..NumJobs -> Nat]
    BY RequestsType
  <2>2. G \in [1..NumJobs -> Nat]
    BY RequestsType
  <2> HIDE DEF F, G
  <2>. QED  BY <2>1, <2>2, K8sAssumption DEF Jobs
<1>7. Requests(h, n, Amount) = Total(F, NumJobs) /\ Requests(g, n, Amount) = Total(G, NumJobs)
  BY DEF Requests
<1>8. Requests(g, n, Amount) \in Nat
  BY RequestsType
<1> HIDE DEF F, G, c, d, j
<1>9. Total(F, NumJobs) = Total(G, NumJobs) + (F[j] - G[j])
  BY <1>1, <1>4, <1>6, TotalChange
<1>10. Amount[j] * c = Amount[j] * d + Amount[j]
  BY <1>1, <1>2
<1>11. Amount[j] * d \in Int
  BY <1>1, <1>2
<1>12. Requests(h, n, Amount) = Requests(g, n, Amount) + Amount[j]
  BY <1>1, <1>5, <1>7, <1>8, <1>9, <1>10, <1>11
<1>. QED  BY <1>1, <1>8, <1>12 DEF Less, j

(* The books of a node do not change with what happens elsewhere.          *)
LEMMA RequestsElsewhere ==
  ASSUME NEW h, NEW g, NEW n, NEW Amount,
         \A p \in Procs : g[p] = n <=> h[p] = n
  PROVE  Requests(g, n, Amount) = Requests(h, n, Amount)
<1>1. \A j : On(g, n, j) = On(h, n, j)
  BY DEF On
<1>. QED  BY <1>1 DEF Requests, Shares

-----------------------------------------------------------------------------
(* The node taken for an entry has room for it behind the entries before   *)
(* it, and there is one if any READY node has.                             *)
LEMMA BestFitFits ==
  ASSUME NEW q \in Seq(Procs), NEW placed, NEW i \in 1..Len(q), NEW ram \in [Nodes -> Nat],
         NEW vcpu, NEW st
  PROVE  \/ /\ BestFit(q, placed, i, ram, vcpu, st) = 0
            /\ \A n \in Nodes : st[n] = "READY" => ~FitsBehind(q, placed, i, n, ram, vcpu)
         \/ /\ BestFit(q, placed, i, ram, vcpu, st) \in Nodes
            /\ st[BestFit(q, placed, i, ram, vcpu, st)] = "READY"
            /\ FitsBehind(q, placed, i, BestFit(q, placed, i, ram, vcpu, st), ram, vcpu)
<1> DEFINE fit == {n \in Nodes : st[n] = "READY" /\ FitsBehind(q, placed, i, n, ram, vcpu)}
           load(n) == ram[n] + Requested(q, {k \in 1..(i-1) : placed[k] = n}, Soft)
           Better(n, m) == load(n) > load(m) \/ (load(n) = load(m) /\ n <= m)
           R == {p \in fit \X fit : Better(p[1], p[2])}
           best == CHOOSE x \in fit : \A y \in fit : Better(x, y)
<1>1. BestFit(q, placed, i, ram, vcpu, st) = IF fit = {} THEN 0 ELSE best
  BY DEF BestFit
<1>2. \A n \in Nodes : n \in fit <=> st[n] = "READY" /\ FitsBehind(q, placed, i, n, ram, vcpu)
  OBVIOUS
<1>3. IsFiniteSet(fit) /\ fit \subseteq Nodes
  <2>1. IsFiniteSet(Nodes)
    BY K8sAssumption, FS_Interval DEF Nodes
  <2>. QED  BY <2>1, FS_Subset
<1>4. \A n \in fit : load(n) \in Int /\ n \in Int
  <2> TAKE n \in fit
  <2> DEFINE S == {k \in 1..(i-1) : placed[k] = n}
  <2>1. Requested(q, S, Soft) \in Nat
    <3>1. S \subseteq S /\ i \notin S /\ Soft \in [Jobs -> Nat]
      BY K8sAssumption
    <3> HIDE DEF S
    <3>. QED  BY <3>1, RequestedBeside
  <2>2. n \in Nodes /\ ram[n] \in Nat
    BY <1>3
  <2> HIDE DEF S
  <2>3. ram[n] + Requested(q, S, Soft) \in Int
    BY <2>1, <2>2
  <2>. QED  BY <2>2, <2>3 DEF Nodes, S
<1> HIDE DEF fit, load
<1>5. CASE fit # {}
  <2>1. \A x, y \in fit : Better(x, y) \/ Better(y, x)
    BY <1>4
  <2>2. \A x, y, z \in fit : Better(x, y) /\ Better(y, z) => Better(x, z)
    BY <1>4
  <2> HIDE DEF Better
  <2>3. \A x, y \in fit : <<x, y>> \in R <=> Better(x, y)
    OBVIOUS
  <2> HIDE DEF R
  <2>4. \A x, y \in fit : <<x, y>> \in R \/ <<y, x>> \in R
    BY <2>1, <2>3
  <2>5. \A x, y, z \in fit : <<x, y>> \in R /\ <<y, z>> \in R => <<x, z>> \in R
    BY <2>2, <2>3
  <2>6. \E x \in fit : \A y \in fit : <<x, y>> \in R
    BY <1>3, <1>5, <2>4, <2>5, GreatestExists
  <2>7. best \in fit
    BY <2>3, <2>6
  <2> HIDE DEF best
  <2>. QED  BY <1>1, <1>2, <1>3, <1>5, <2>7
<1>6. CASE fit = {}
  <2> HIDE DEF best
  <2>. QED  BY <1>1, <1>2, <1>6
<1>. QED  BY <1>5, <1>6

(* What _try_schedule hands over is consistent again, and no job that has  *)
(* just come waits beside room.                                            *)
LEMMA Scheduled ==
  ASSUME NEW ph, NEW h, NEW q, NEW sl, NEW ram, NEW vcpu, NEW st, NEW kn,
         Consistent(ph, h, q, sl, ram, vcpu, st, kn),
         TrySchedule(ph, h, q, sl, ram, vcpu, st, kn),
         tiered' = tiered
  PROVE  Consistent(phase, host, queue, slots, allocated_ram, allocated_vcpu, state, known)'
         /\ NoIdleRoom'
<1> DEFINE N == Len(q)
           At(placed, n) == {i \in 1..N : placed[i] = n}
           Started(placed, n, j) == {i \in At(placed, n) : q[i][1] = j}
           Gone(placed) == {q[i] : i \in {k \in 1..N : Leaves(q, placed, k)}}
           at(placed, p) == placed[CHOOSE i \in 1..N : q[i] = p]
           Ready == {n \in Nodes : st[n] = "READY"}
<1>1. PICK placed \in [1..N -> Ready \cup {0}] :
        /\ \A i \in 1..N :
             placed[i] = IF /\ Compatible(q[i][1], kn)
                            /\ \A k \in 1..(i-1) : q[k][1] = q[i][1] => placed[k] = 0
                         THEN BestFit(q, placed, i, ram, vcpu, st) ELSE 0
        /\ phase' = [p \in Procs |-> IF p \notin Gone(placed) THEN ph[p]
                                     ELSE IF at(placed, p) = 0 THEN "dropped" ELSE "download"]
        /\ host' = [p \in Procs |-> IF p \in Gone(placed) THEN at(placed, p) ELSE h[p]]
        /\ queue' = Keep(q, Procs \ Gone(placed))
        /\ slots' = [n \in Nodes |-> [j \in Jobs |->
                       IF Started(placed, n, j) = {} THEN sl[n][j]
                       ELSE NewSlot(q[CHOOSE i \in Started(placed, n, j) : TRUE])]]
        /\ allocated_ram' = [n \in Nodes |-> ram[n] + Requested(q, At(placed, n), Soft)]
        /\ allocated_vcpu' = [n \in Nodes |-> vcpu[n] + Requested(q, At(placed, n), Vcpu)]
        /\ state' = st
        /\ known' = kn
  BY DEF TrySchedule
<1> DEFINE gone == Gone(placed)
           On1(n) == At(placed, n)
<1>2. /\ q \in Seq(Procs) /\ N \in Nat
      /\ \A i \in 1..N : q[i] \in Procs /\ q[i][1] \in Jobs
      /\ \A i, k \in 1..N : q[i] = q[k] => i = k
      /\ \A p \in Procs : ph[p] = "queued" <=> \E i \in 1..N : q[i] = p
  BY DEF Consistent, QueueOK, Procs
<1>3. /\ ph \in [Procs -> Phases] /\ h \in [Procs -> Nodes \cup {0}]
      /\ \A p \in Procs : h[p] # 0 <=> ph[p] \in Active
      /\ sl \in [Nodes -> [Jobs -> Slot]]
      /\ ram \in [Nodes -> Nat] /\ vcpu \in [Nodes -> Nat]
      /\ st \in [Nodes -> States] /\ kn \subseteq Jobs
      /\ FirstCopy(ph, kn) /\ SlotsOfStarted(ph, sl) /\ Balanced(h, ram, vcpu) /\ Live(sl, st)
  BY DEF Consistent
<1>4. 0 \notin Nodes /\ \A n \in Nodes : n # 0
  BY DEF Nodes
<1>5. \A i \in 1..N : placed[i] # 0 => placed[i] \in Nodes /\ st[placed[i]] = "READY"
  OBVIOUS
<1>6. \A i, k \in 1..N : placed[i] # 0 /\ placed[k] # 0 /\ q[i][1] = q[k][1] => i = k
  <2>1. \A i, k \in 1..N : k < i /\ placed[k] # 0 /\ q[k][1] = q[i][1] => placed[i] = 0
    <3> TAKE i, k \in 1..N
    <3>1. k < i => k \in 1..(i-1)
      BY <1>2
    <3>. QED  BY <1>1, <3>1
  <2>2. \A i, k \in 1..N : i < k \/ k < i \/ i = k
    BY <1>2
  <2>. QED  BY <2>1, <2>2
<1>7. \A i \in 1..N : at(placed, q[i]) = placed[i]
  <2> TAKE i \in 1..N
  <2>1. (CHOOSE k \in 1..N : q[k] = q[i]) = i
    BY <1>2
  <2>. QED  BY <2>1
<1>8. \A i \in 1..N : placed[i] # 0 => Leaves(q, placed, i)
  BY DEF Leaves
<1>9. \A i \in 1..N : q[i] \in gone <=> Leaves(q, placed, i)
  BY <1>2
<1>10. \A p \in Procs : p \in gone => ph[p] = "queued" /\ h[p] = 0 /\ \E i \in 1..N : q[i] = p
  <2>1. "queued" \notin Active
    BY DEF Active
  <2>2. \A p \in gone : \E i \in 1..N : q[i] = p
    OBVIOUS
  <2>. QED  BY <1>2, <1>3, <2>1, <2>2
<1>11. \A p \in Procs : p \notin gone => phase'[p] = ph[p] /\ host'[p] = h[p]
  BY <1>1
<1>12. \A i \in 1..N : q[i] \in gone =>
         /\ host'[q[i]] = placed[i]
         /\ phase'[q[i]] = IF placed[i] = 0 THEN "dropped" ELSE "download"
  BY <1>1, <1>2, <1>7
<1>13. \A p \in gone : /\ phase'[p] \in {"dropped", "download"}
                       /\ host'[p] \in Nodes \cup {0}
                       /\ host'[p] # 0 <=> phase'[p] = "download"
  BY <1>1, <1>2, <1>10, <1>12
<1>14. gone \subseteq Procs
  BY <1>2
<1> HIDE DEF at, Gone
<1>15. /\ phase' \in [Procs -> Phases] /\ host' \in [Procs -> Nodes \cup {0}]
       /\ \A p \in Procs : host'[p] # 0 <=> phase'[p] \in Active
  <2>1. \A p \in Procs : /\ phase'[p] \in Phases /\ host'[p] \in Nodes \cup {0}
                         /\ host'[p] # 0 <=> phase'[p] \in Active
    <3> TAKE p \in Procs
    <3>1. CASE p \in gone
      BY <1>13, <3>1 DEF Phases, Active
    <3>2. CASE p \notin gone
      BY <1>3, <1>11, <3>2
    <3>. QED  BY <3>1, <3>2
  <2>2. phase' = [p \in Procs |-> phase'[p]] /\ host' = [p \in Procs |-> host'[p]]
    BY <1>1
  <2>. QED  BY <2>1, <2>2
<1>16. QueueOK(phase', queue')
  <2>1. /\ queue' \in Seq(Procs)
        /\ \A p \in Procs : (\E i \in 1..Len(queue') : queue'[i] = p)
                              <=> p \in Procs \ gone /\ \E i \in 1..N : q[i] = p
        /\ \A i, k \in 1..Len(queue') : queue'[i] = queue'[k] => i = k
    <3> DEFINE K == Procs \ gone
    <3>1. queue' = Keep(q, K)
      BY <1>1
    <3>2. \A p \in Procs : p \in K <=> p \in Procs \ gone
      OBVIOUS
    <3> HIDE DEF K
    <3>3. q \in Seq(Procs) /\ \A i, k \in 1..Len(q) : q[i] = q[k] => i = k
      BY <1>2
    <3>4. Keep(q, K) \in Seq(Procs)
      BY <3>3, KeepEntries
    <3>5. \A x : (\E k \in 1..Len(Keep(q, K)) : Keep(q, K)[k] = x)
                  <=> x \in K /\ \E i \in 1..Len(q) : q[i] = x
      BY <3>3, KeepEntries
    <3>6. \A i, k \in 1..Len(Keep(q, K)) : Keep(q, K)[i] = Keep(q, K)[k] => i = k
      BY <3>3, KeepEntries
    <3>. QED  BY <3>1, <3>2, <3>4, <3>5, <3>6
  <2>2. \A p \in Procs : phase'[p] = "queued" <=> ph[p] = "queued" /\ p \notin gone
    BY <1>11, <1>13
  <2>. QED  BY <1>2, <2>1, <2>2 DEF QueueOK
<1>17. \A p \in Procs : phase'[p] \in Waits => p \notin gone /\ phase'[p] = ph[p]
  BY <1>11, <1>13 DEF Waits
<1>18. \A p \in Procs : ph[p] \notin Waits => phase'[p] = ph[p]
  BY <1>10, <1>11 DEF Waits
<1>19. (FirstCopy(phase, known))'
  <2>1. \A j \in Jobs : <<j, 0>> \in Procs /\ \A k \in Copies : <<j, k>> \in Procs
    BY K8sAssumption DEF Procs, Copies
  <2>2. ASSUME NEW j \in Jobs, phase'[<<j, 0>>] \in Waits, NEW k \in Copies \ {0}
        PROVE  phase'[<<j, k>>] = "absent"
    <3>1. ph[<<j, 0>>] \in Waits
      BY <1>17, <2>1, <2>2
    <3>2. ph[<<j, k>>] = "absent"
      BY <1>3, <3>1 DEF FirstCopy
    <3>3. <<j, k>> \notin gone
      BY <1>10, <2>1, <3>2
    <3>. QED  BY <1>11, <2>1, <3>2, <3>3
  <2>3. ASSUME NEW j \in Jobs, tiered, phase'[<<j, 0>>] = "queued"
        PROVE  j \in known'
    <3>1. ph[<<j, 0>>] = "queued"
      BY <1>17, <2>1, <2>3 DEF Waits
    <3>. QED  BY <1>1, <1>3, <2>3, <3>1 DEF FirstCopy
  <2>. QED  BY <2>2, <2>3 DEF FirstCopy
<1>20. \A n \in Nodes, j \in Jobs :
         IF Started(placed, n, j) = {} THEN slots'[n][j] = sl[n][j]
         ELSE \E i \in 1..N : placed[i] = n /\ q[i][1] = j /\ slots'[n][j] = NewSlot(q[i])
  <2> TAKE n \in Nodes, j \in Jobs
  <2>1. slots'[n][j] = IF Started(placed, n, j) = {} THEN sl[n][j]
                       ELSE NewSlot(q[CHOOSE i \in Started(placed, n, j) : TRUE])
    BY <1>1
  <2>2. CASE Started(placed, n, j) # {}
    <3> DEFINE i == CHOOSE x \in Started(placed, n, j) : TRUE
    <3>1. i \in Started(placed, n, j)
      BY <2>2
    <3>2. i \in 1..N /\ placed[i] = n /\ q[i][1] = j
      BY <3>1
    <3> HIDE DEF i
    <3>. QED  BY <2>1, <2>2, <3>2 DEF i
  <2>3. CASE Started(placed, n, j) = {}
    BY <2>1, <2>3
  <2>. QED  BY <2>2, <2>3
<1>21. \A p \in Procs : /\ NewSlot(p) \in Slot /\ NewSlot(p) # NoSlot
                        /\ NewSlot(p).proc = p
  BY DEF NewSlot, NoSlot, Slot, Active
<1>22. slots' \in [Nodes -> [Jobs -> Slot]]
  <2>1. \A n \in Nodes, j \in Jobs : slots'[n][j] \in Slot
    <3> TAKE n \in Nodes, j \in Jobs
    <3>1. CASE Started(placed, n, j) = {}
      <4>1. slots'[n][j] = sl[n][j]
        BY <1>20, <3>1
      <4>. QED  BY <1>3, <4>1
    <3>2. CASE Started(placed, n, j) # {}
      <4>1. PICK i \in 1..N : slots'[n][j] = NewSlot(q[i])
        BY <1>20, <3>2
      <4>. QED  BY <1>2, <1>21, <4>1
    <3>. QED  BY <3>1, <3>2
  <2>2. slots' = [n \in Nodes |-> [j \in Jobs |-> slots'[n][j]]]
    BY <1>1
  <2>. QED  BY <2>1, <2>2
<1>23. SlotsOfStarted(phase', slots')
  <2> SUFFICES ASSUME NEW n \in Nodes, NEW j \in Jobs, slots'[n][j] # NoSlot
               PROVE  /\ slots'[n][j].proc \in Procs /\ slots'[n][j].proc[1] = j
                      /\ phase'[slots'[n][j].proc] \notin Waits
    BY DEF SlotsOfStarted
  <2>1. CASE Started(placed, n, j) = {}
    <3>1. slots'[n][j] = sl[n][j]
      BY <1>20, <2>1
    <3>2. sl[n][j].proc \in Procs /\ sl[n][j].proc[1] = j /\ ph[sl[n][j].proc] \notin Waits
      BY <1>3, <3>1 DEF SlotsOfStarted
    <3>. QED  BY <1>18, <3>1, <3>2
  <2>2. CASE Started(placed, n, j) # {}
    <3>1. PICK i \in 1..N : placed[i] = n /\ q[i][1] = j /\ slots'[n][j] = NewSlot(q[i])
      BY <1>20, <2>2
    <3>2. slots'[n][j].proc = q[i] /\ q[i] \in Procs
      BY <1>2, <1>21, <3>1
    <3>3. phase'[q[i]] = "download"
      BY <1>4, <1>8, <1>9, <1>12, <3>1
    <3>. QED  BY <3>1, <3>2, <3>3 DEF Waits
  <2>. QED  BY <2>1, <2>2
<1>24. Live(slots', state')
  <2> SUFFICES ASSUME NEW n \in Nodes, Holds(slots', n) # {}
               PROVE  st[n] \in {"READY", "DRAINING"}
    BY <1>1 DEF Live
  <2>1. PICK j \in Jobs : slots'[n][j] # NoSlot
    BY DEF Holds
  <2>2. CASE Started(placed, n, j) = {}
    <3>1. sl[n][j] # NoSlot
      BY <1>20, <2>1, <2>2
    <3>2. Holds(sl, n) # {}
      BY <3>1 DEF Holds
    <3>. QED  BY <1>3, <3>2 DEF Live
  <2>3. CASE Started(placed, n, j) # {}
    BY <1>4, <1>5, <1>20, <2>3
  <2>. QED  BY <2>2, <2>3
<1>25. \A n \in Nodes : Join(q, On1(n), n, h, host')
  <2> TAKE n \in Nodes
  <2>0. \A i \in On1(n) : i \in 1..N /\ placed[i] = n /\ n # 0 /\ q[i] \in gone
    BY <1>4, <1>8, <1>9
  <2>1. \A i, k \in On1(n) : q[i][1] = q[k][1] => i = k
    BY <1>6, <2>0
  <2>2. \A i \in On1(n) : h[q[i]] # n
    BY <1>2, <1>10, <2>0
  <2>3. ASSUME NEW p \in Procs
        PROVE  host'[p] = n <=> h[p] = n \/ \E i \in On1(n) : q[i] = p
    <3>1. CASE p \notin gone
      <4>1. ~\E i \in On1(n) : q[i] = p
        BY <2>0, <3>1
      <4>. QED  BY <1>11, <3>1, <4>1
    <3>2. CASE p \in gone
      <4>1. PICK i \in 1..N : q[i] = p
        BY <1>10, <3>2
      <4>2. host'[p] = placed[i] /\ h[p] # n
        BY <1>4, <1>10, <1>12, <3>2, <4>1
      <4>3. (\E k \in On1(n) : q[k] = p) <=> placed[i] = n
        BY <1>2, <4>1
      <4>. QED  BY <4>2, <4>3
    <3>. QED  BY <3>1, <3>2
  <2> HIDE DEF On1
  <2>. QED  BY <2>1, <2>2, <2>3 DEF Join
<1>26. \A n \in Nodes : On1(n) \in SUBSET (1..N)
  OBVIOUS
<1>27. /\ \A n \in Nodes : allocated_ram'[n] = ram[n] + Requested(q, On1(n), Soft)
       /\ \A n \in Nodes : allocated_vcpu'[n] = vcpu[n] + Requested(q, On1(n), Vcpu)
       /\ allocated_ram' = [n \in Nodes |-> allocated_ram'[n]]
       /\ allocated_vcpu' = [n \in Nodes |-> allocated_vcpu'[n]]
  BY <1>1
<1>28. Soft \in [Jobs -> Nat] /\ Vcpu \in [Jobs -> Nat]
  BY K8sAssumption
<1>29. ASSUME NEW n \in Nodes
       PROVE  /\ allocated_ram'[n] = Requests(host', n, Soft)
              /\ allocated_vcpu'[n] = Requests(host', n, Vcpu)
              /\ allocated_ram'[n] \in Nat /\ allocated_vcpu'[n] \in Nat
  <2>1. ram[n] = Requests(h, n, Soft) /\ vcpu[n] = Requests(h, n, Vcpu)
    BY <1>3 DEF Balanced
  <2> HIDE DEF On1
  <2> DEFINE S == On1(n)
  <2>0. q \in Seq(Procs) /\ S \in SUBSET (1..Len(q)) /\ Join(q, S, n, h, host')
    BY <1>2, <1>25, <1>26
  <2> HIDE DEF S
  <2>2. Requests(host', n, Soft) = Requests(h, n, Soft) + Requested(q, S, Soft)
    BY <1>28, <2>0, RequestsPlaced
  <2>3. Requests(host', n, Vcpu) = Requests(h, n, Vcpu) + Requested(q, S, Vcpu)
    BY <1>28, <2>0, RequestsPlaced
  <2>4. Requests(host', n, Soft) \in Nat /\ Requests(host', n, Vcpu) \in Nat
    BY <1>28, RequestsType
  <2>. QED  BY <1>27, <2>1, <2>2, <2>3, <2>4 DEF S
<1>30. allocated_ram' \in [Nodes -> Nat] /\ allocated_vcpu' \in [Nodes -> Nat]
       /\ Balanced(host', allocated_ram', allocated_vcpu')
  <2> HIDE DEF On1
  <2>. QED  BY <1>27, <1>29 DEF Balanced
<1>31. Consistent(phase, host, queue, slots, allocated_ram, allocated_vcpu, state, known)'
  <2>1. state' \in [Nodes -> States] /\ known' \subseteq Jobs
    BY <1>1, <1>3
  <2>. QED  BY <1>15, <1>16, <1>19, <1>22, <1>23, <1>24, <1>30, <2>1 DEF Consistent
<1>32. ASSUME NEW k \in 1..Len(queue'), NEW n \in Nodes, queue'[k][2] = 0, st[n] = "READY"
       PROVE  ~FitsBehind(<<queue'[k]>>, <<0>>, 1, n, allocated_ram', allocated_vcpu')
  <2> DEFINE p == queue'[k]
             j == p[1]
  <2>1. p \in Procs /\ phase'[p] = "queued" /\ j \in Jobs /\ p = <<j, 0>>
    <3>1. p \in Procs /\ phase'[p] = "queued"
      BY <1>16 DEF QueueOK
    <3>. QED  BY <1>32, <3>1 DEF Procs
  <2>2. p \notin gone /\ ph[p] = "queued"
    BY <1>17, <2>1 DEF Waits
  <2>3. PICK i \in 1..N : q[i] = p
    BY <1>2, <2>1, <2>2
  <2>4. \A m \in 1..N : q[m][1] = j => m = i
    <3> SUFFICES ASSUME NEW m \in 1..N, q[m][1] = j PROVE q[m] = q[i]
      BY <1>2
    <3>1. q[m] \in Procs /\ ph[q[m]] = "queued"
      BY <1>2
    <3>2. \A c \in Copies \ {0} : ph[<<j, c>>] = "absent"
      BY <1>3, <2>1, <2>2 DEF FirstCopy, Waits
    <3>3. PICK c \in Copies : q[m] = <<j, c>>
      BY <3>1 DEF Procs
    <3>4. c = 0
      BY <3>1, <3>2, <3>3
    <3>. QED  BY <2>1, <2>3, <3>3, <3>4
  <2>5. placed[i] = 0
    BY <1>8, <1>9, <2>2, <2>3
  <2>6. placed[i] = BestFit(q, placed, i, ram, vcpu, st)
    <3>1. Compatible(j, kn)
      BY <1>3, <2>1, <2>2 DEF Compatible, FirstCopy
    <3>2. \A m \in 1..(i-1) : q[m][1] # j
      <4> TAKE m \in 1..(i-1)
      <4>1. m \in 1..N /\ m # i
        BY <1>2
      <4>. QED  BY <2>4, <4>1
    <3>. QED  BY <1>1, <2>3, <3>1, <3>2
  <2>7. ~FitsBehind(q, placed, i, n, ram, vcpu)
    <3>1. BestFit(q, placed, i, ram, vcpu, st) \notin Nodes
      BY <1>4, <2>5, <2>6
    <3>. QED  BY <1>2, <1>3, <1>32, <3>1, BestFitFits
  <2> DEFINE ahead == {m \in 1..(i-1) : placed[m] = n}
  <2>8. ahead \subseteq On1(n) /\ i \notin ahead
    BY <1>2
  <2>9. \A Amount \in [Jobs -> Nat] :
          /\ Requested(q, ahead \cup {i}, Amount) = Requested(q, ahead, Amount) + Amount[j]
          /\ Requested(q, ahead, Amount) <= Requested(q, On1(n), Amount)
          /\ Requested(q, ahead, Amount) \in Nat /\ Requested(q, On1(n), Amount) \in Nat
          /\ Amount[j] \in Nat
    <3> HIDE DEF ahead, On1
    <3> TAKE Amount \in [Jobs -> Nat]
    <3> DEFINE S == ahead
               T == On1(n)
    <3>1. q \in Seq(Procs) /\ i \in 1..Len(q) /\ S \subseteq T /\ i \notin S
      BY <1>2, <2>8
    <3> HIDE DEF S, T
    <3>2. /\ Requested(q, S \cup {i}, Amount) = Requested(q, S, Amount) + Amount[q[i][1]]
          /\ Requested(q, S, Amount) <= Requested(q, T, Amount)
          /\ Requested(q, S, Amount) \in Nat /\ Requested(q, T, Amount) \in Nat
      BY <3>1, RequestedBeside
    <3>. QED  BY <2>1, <2>3, <3>2 DEF S, T
  <2>10. \A Amount \in [Jobs -> Nat] : Requested(<<p>>, {1}, Amount) = Amount[j]
    BY <2>1, RequestedAlone
  <2>11. {m \in 1..(1-1) : <<0>>[m] = n} \cup {1} = {1}
    OBVIOUS
  <2>12. SUFFICES ASSUME Effective > 0,
                         allocated_ram'[n] + Requested(<<p>>, {1}, Soft) <= Effective,
                         allocated_vcpu'[n] + Requested(<<p>>, {1}, Vcpu) <= NodeVcpu
                  PROVE  FALSE
    BY <2>11 DEF FitsBehind
  <2>13. Effective \in Int /\ NodeVcpu \in Int
    BY K8sAssumption DEF Effective
  <2>14. ram[n] + Requested(q, ahead \cup {i}, Soft) <= Effective
    <3>1. ram[n] \in Nat /\ allocated_ram'[n] = ram[n] + Requested(q, On1(n), Soft)
      BY <1>3, <1>27
    <3> HIDE DEF ahead, On1, j, p
    <3>2. /\ Requested(q, ahead \cup {i}, Soft) = Requested(q, ahead, Soft) + Soft[j]
          /\ Requested(q, ahead, Soft) <= Requested(q, On1(n), Soft)
          /\ Requested(q, ahead, Soft) \in Nat /\ Requested(q, On1(n), Soft) \in Nat
          /\ Soft[j] \in Nat /\ Requested(<<p>>, {1}, Soft) = Soft[j]
      BY <1>28, <2>9, <2>10
    <3>. QED  BY <2>12, <2>13, <3>1, <3>2
  <2>15. vcpu[n] + Requested(q, ahead \cup {i}, Vcpu) <= NodeVcpu
    <3>1. vcpu[n] \in Nat /\ allocated_vcpu'[n] = vcpu[n] + Requested(q, On1(n), Vcpu)
      BY <1>3, <1>27
    <3> HIDE DEF ahead, On1, j, p
    <3>2. /\ Requested(q, ahead \cup {i}, Vcpu) = Requested(q, ahead, Vcpu) + Vcpu[j]
          /\ Requested(q, ahead, Vcpu) <= Requested(q, On1(n), Vcpu)
          /\ Requested(q, ahead, Vcpu) \in Nat /\ Requested(q, On1(n), Vcpu) \in Nat
          /\ Vcpu[j] \in Nat /\ Requested(<<p>>, {1}, Vcpu) = Vcpu[j]
      BY <1>28, <2>9, <2>10
    <3>. QED  BY <2>12, <2>13, <3>1, <3>2
  <2>. QED  BY <2>7, <2>12, <2>14, <2>15 DEF FitsBehind
<1>33. NoIdleRoom'
  BY <1>1, <1>32 DEF NoIdleRoom
<1>. QED  BY <1>31, <1>33

-----------------------------------------------------------------------------
(* What is consistent before a process ends and after, when on_job_complete *)
(* asks for a schedule.                                                    *)
LEMMA Ends ==
  ASSUME NEW ph, NEW q, NEW sl, NEW p \in Procs, ph[p] \in Active,
         Consistent(ph, host, q, sl, allocated_ram, allocated_vcpu, state, known),
         Finish(p, ph, q, sl), monitors \subseteq Nodes, idle_timers \in [Nodes -> Nat]
  PROVE  /\ Consistent(phase, host, queue, slots, allocated_ram, allocated_vcpu, state, known)'
         /\ NoIdleRoom' /\ tiered' = tiered
         /\ monitors' \subseteq Nodes /\ idle_timers' \in [Nodes -> Nat]
<1> DEFINE n == host[p]
           j == p[1]
           left == [sl EXCEPT ![n][j] = NoSlot]
           st == StateAfter(n, left)
           ph1 == [ph EXCEPT ![p] = "ended"]
           h1 == [host EXCEPT ![p] = 0]
           ram == [allocated_ram EXCEPT ![n] = Less(@, Soft[j])]
           vcpu == [allocated_vcpu EXCEPT ![n] = Less(@, Vcpu[j])]
           kn == known \ {j}
<1>1. /\ ph \in [Procs -> Phases] /\ host \in [Procs -> Nodes \cup {0}]
      /\ \A r \in Procs : host[r] # 0 <=> ph[r] \in Active
      /\ sl \in [Nodes -> [Jobs -> Slot]]
      /\ allocated_ram \in [Nodes -> Nat] /\ allocated_vcpu \in [Nodes -> Nat]
      /\ state \in [Nodes -> States] /\ known \subseteq Jobs
      /\ QueueOK(ph, q) /\ FirstCopy(ph, known) /\ SlotsOfStarted(ph, sl)
      /\ Balanced(host, allocated_ram, allocated_vcpu) /\ Live(sl, state)
  BY DEF Consistent
<1>2. n \in Nodes /\ n # 0 /\ j \in Jobs /\ 0 \notin Nodes
  BY <1>1 DEF Nodes, Procs
<1>3. ph[p] \notin Waits
  BY DEF Active, Waits
<1>4. /\ ph1 \in [Procs -> Phases] /\ ph1[p] = "ended"
      /\ \A r \in Procs : r # p => ph1[r] = ph[r]
  BY <1>1 DEF Phases
<1>5. /\ h1 \in [Procs -> Nodes \cup {0}] /\ h1[p] = 0
      /\ \A r \in Procs : r # p => h1[r] = host[r]
  BY <1>1
<1>6. \A r \in Procs : h1[r] # 0 <=> ph1[r] \in Active
  <2>1. "ended" \notin Active
    BY DEF Active
  <2> HIDE DEF ph1, h1
  <2>. QED  BY <1>1, <1>4, <1>5, <2>1
<1>7. /\ left \in [Nodes -> [Jobs -> Slot]] /\ left[n][j] = NoSlot
      /\ \A m \in Nodes, k \in Jobs : left[m][k] # NoSlot => left[m][k] = sl[m][k]
      /\ \A m \in Nodes : m # n => left[m] = sl[m]
  <2>1. NoSlot \in Slot
    BY DEF Slot
  <2>. QED  BY <1>1, <1>2, <2>1
<1>8. \A m \in Nodes : Holds(left, m) # {} => Holds(sl, m) # {}
  <2> HIDE DEF left
  <2>. QED  BY <1>7 DEF Holds
<1>9. st \in [Nodes -> States] /\ Live(left, st)
  <2> HIDE DEF left
  <2>1. \A m \in Nodes : m # n \/ Holds(left, n) # {} => st[m] = state[m]
    BY <1>1 DEF StateAfter
  <2>2. st \in [Nodes -> States]
    BY <1>1 DEF StateAfter, States
  <2> HIDE DEF st
  <2>3. Live(left, st)
    <3> SUFFICES ASSUME NEW m \in Nodes, Holds(left, m) # {}
                 PROVE  st[m] \in {"READY", "DRAINING"}
      BY DEF Live
    <3>1. st[m] = state[m]
      BY <2>1
    <3>. QED  BY <1>1, <1>8, <3>1 DEF Live
  <2>. QED  BY <2>2, <2>3
<1>10. QueueOK(ph1, q)
  <2>1. \A r \in Procs : ph1[r] = "queued" <=> ph[r] = "queued"
    <3> HIDE DEF ph1
    <3>. QED  BY <1>3, <1>4 DEF Waits
  <2> HIDE DEF ph1
  <2>. QED  BY <1>1, <2>1 DEF QueueOK
<1>11. \A k \in Jobs : ph1[<<k, 0>>] \in Waits =>
         k # j /\ ph1[<<k, 0>>] = ph[<<k, 0>>] /\ \A c \in Copies \ {0} : ph[<<k, c>>] = "absent"
  <2> SUFFICES ASSUME NEW k \in Jobs, ph1[<<k, 0>>] \in Waits
               PROVE  k # j /\ ph1[<<k, 0>>] = ph[<<k, 0>>]
                      /\ \A c \in Copies \ {0} : ph[<<k, c>>] = "absent"
    OBVIOUS
  <2> HIDE DEF ph1
  <2>1. <<k, 0>> \in Procs
    BY K8sAssumption DEF Procs, Copies
  <2>2. <<k, 0>> # p
    BY <1>4 DEF Waits
  <2>3. ph1[<<k, 0>>] = ph[<<k, 0>>]
    BY <1>4, <2>1, <2>2
  <2>4. \A c \in Copies \ {0} : ph[<<k, c>>] = "absent"
    BY <1>1, <2>3 DEF FirstCopy
  <2>5. k # j
    <3>1. PICK c \in Copies : p = <<j, c>>
      BY DEF Procs
    <3>. QED  BY <1>3, <2>2, <2>4, <3>1 DEF Waits
  <2>. QED  BY <2>3, <2>4, <2>5
<1>12. FirstCopy(ph1, kn)
  <2> SUFFICES ASSUME NEW k \in Jobs
               PROVE  /\ ph1[<<k, 0>>] \in Waits =>
                           \A c \in Copies \ {0} : ph1[<<k, c>>] = "absent"
                      /\ tiered /\ ph1[<<k, 0>>] = "queued" => k \in kn
    BY DEF FirstCopy
  <2> HIDE DEF ph1
  <2>1. ASSUME ph1[<<k, 0>>] \in Waits, NEW c \in Copies \ {0}
        PROVE  ph1[<<k, c>>] = "absent"
    <3>1. <<k, c>> \in Procs /\ ph[<<k, c>>] = "absent"
      BY <1>11, <2>1 DEF Procs
    <3>. QED  BY <1>3, <1>4, <3>1 DEF Waits
  <2>2. ASSUME tiered, ph1[<<k, 0>>] = "queued"
        PROVE  k \in kn
    <3>1. k # j /\ ph[<<k, 0>>] = "queued"
      BY <1>11, <2>2 DEF Waits
    <3>. QED  BY <1>1, <2>2, <3>1 DEF FirstCopy
  <2>. QED  BY <2>1, <2>2
<1>13. SlotsOfStarted(ph1, left)
  <2> HIDE DEF ph1, left
  <2>1. \A r \in Procs : ph[r] \notin Waits => ph1[r] \notin Waits
    BY <1>4 DEF Waits
  <2>2. \A m \in Nodes, k \in Jobs : left[m][k] # NoSlot =>
          left[m][k] = sl[m][k] /\ sl[m][k].proc \in Procs /\ sl[m][k].proc[1] = k
          /\ ph[sl[m][k].proc] \notin Waits
    BY <1>1, <1>7 DEF SlotsOfStarted
  <2>. QED  BY <2>1, <2>2 DEF SlotsOfStarted
<1>14. ram \in [Nodes -> Nat] /\ vcpu \in [Nodes -> Nat] /\ Balanced(h1, ram, vcpu)
  <2>1. Soft \in [Jobs -> Nat] /\ Vcpu \in [Jobs -> Nat]
    BY K8sAssumption
  <2>2. \A m \in Nodes : /\ allocated_ram[m] = Requests(host, m, Soft)
                         /\ allocated_vcpu[m] = Requests(host, m, Vcpu)
    BY <1>1 DEF Balanced
  <2>3. ram[n] = Less(allocated_ram[n], Soft[j]) /\ vcpu[n] = Less(allocated_vcpu[n], Vcpu[j])
    BY <1>1, <1>2
  <2>4. \A m \in Nodes : m # n => ram[m] = allocated_ram[m] /\ vcpu[m] = allocated_vcpu[m]
    BY <1>1
  <2>5. ram = [m \in Nodes |-> ram[m]] /\ vcpu = [m \in Nodes |-> vcpu[m]]
    BY <1>1
  <2> HIDE DEF ram, vcpu, h1
  <2>6. host[p] = n /\ h1[p] # n /\ \A r \in Procs : r # p => h1[r] = host[r]
    BY <1>2, <1>5
  <2>7. /\ Less(Requests(host, n, Soft), Soft[j]) = Requests(h1, n, Soft)
        /\ Less(Requests(host, n, Vcpu), Vcpu[j]) = Requests(h1, n, Vcpu)
    <3> DEFINE m == n
    <3>1. host[p] = m /\ h1[p] # m
      BY <2>6
    <3> HIDE DEF m
    <3>2. Less(Requests(host, m, Soft), Soft[p[1]]) = Requests(h1, m, Soft)
      BY <2>1, <2>6, <3>1, RequestsLess
    <3>3. Less(Requests(host, m, Vcpu), Vcpu[p[1]]) = Requests(h1, m, Vcpu)
      BY <2>1, <2>6, <3>1, RequestsLess
    <3>. QED  BY <3>2, <3>3 DEF m
  <2>8. ASSUME NEW m \in Nodes, m # n
        PROVE  Requests(h1, m, Soft) = Requests(host, m, Soft)
               /\ Requests(h1, m, Vcpu) = Requests(host, m, Vcpu)
    <3>1. \A r \in Procs : h1[r] = m <=> host[r] = m
      BY <1>2, <1>5, <2>6, <2>8
    <3>. QED  BY <3>1, RequestsElsewhere
  <2>9. \A m \in Nodes : ram[m] = Requests(h1, m, Soft) /\ vcpu[m] = Requests(h1, m, Vcpu)
    <3> TAKE m \in Nodes
    <3>1. CASE m = n
      BY <2>2, <2>3, <2>7, <3>1
    <3>2. CASE m # n
      BY <2>2, <2>4, <2>8, <3>2
    <3>. QED  BY <3>1, <3>2
  <2>10. \A m \in Nodes : ram[m] \in Nat /\ vcpu[m] \in Nat
    <3> TAKE m \in Nodes
    <3>1. Requests(h1, m, Soft) \in Nat /\ Requests(h1, m, Vcpu) \in Nat
      BY <2>1, RequestsType
    <3>. QED  BY <2>9, <3>1
  <2>. QED  BY <2>5, <2>9, <2>10 DEF Balanced
<1>15. Consistent(ph1, h1, q, left, ram, vcpu, st, kn)
  <2>1. kn \subseteq Jobs
    BY <1>1
  <2> HIDE DEF ph1, h1, left, ram, vcpu, st, kn
  <2>. QED  BY <1>4, <1>5, <1>6, <1>7, <1>9, <1>10, <1>12, <1>13, <1>14, <2>1 DEF Consistent
<1>16. /\ TrySchedule(ph1, h1, q, left, ram, vcpu, st, kn) /\ tiered' = tiered
       /\ idle_timers' = [idle_timers EXCEPT ![n] =
                            IF Holds(left, n) = {} /\ st[n] = "IDLE" THEN @ + 1 ELSE @]
       /\ monitors' = IF st[n] \in {"DRAINING", "TERMINATED"} THEN monitors \ {n} ELSE monitors
  BY DEF Finish
<1>17. monitors' \subseteq Nodes /\ idle_timers' \in [Nodes -> Nat]
  <2> HIDE DEF left, st
  <2>. QED  BY <1>2, <1>16
<1> HIDE DEF ph1, h1, left, ram, vcpu, st, kn
<1>. QED  BY <1>15, <1>16, <1>17, Scheduled

-----------------------------------------------------------------------------
(* A process on a node moves its job's slot on, if there is one.           *)
LEMMA SlotMoves ==
  ASSUME NEW p \in Procs, NEW x \in Active, phase[p] \in Active,
         Consistent(phase, host, queue, slots, allocated_ram, allocated_vcpu, state, known)
  PROVE  Consistent(phase, host, queue, Updated(p, x), allocated_ram, allocated_vcpu, state, known)
<1> DEFINE n == host[p]
           j == p[1]
           sl == Updated(p, x)
<1>1. /\ slots \in [Nodes -> [Jobs -> Slot]] /\ n \in Nodes /\ j \in Jobs
      /\ SlotsOfStarted(phase, slots) /\ Live(slots, state)
  BY DEF Consistent, Procs
<1>2. /\ sl[n][j] = IF slots[n][j] = NoSlot THEN NoSlot
                    ELSE [proc |-> slots[n][j].proc, phase |-> x]
      /\ \A m \in Nodes, k \in Jobs : m # n \/ k # j => sl[m][k] = slots[m][k]
      /\ sl = [m \in Nodes |-> [k \in Jobs |-> sl[m][k]]]
  BY <1>1 DEF Updated
<1>3. \A r : [proc |-> r, phase |-> x].proc = r
             /\ (r \in Procs => [proc |-> r, phase |-> x] \in Slot)
  BY DEF Slot
<1> HIDE DEF sl
<1>4. ASSUME NEW m \in Nodes, NEW k \in Jobs
      PROVE  /\ sl[m][k] \in Slot
             /\ sl[m][k] # NoSlot => slots[m][k] # NoSlot /\ sl[m][k].proc = slots[m][k].proc
  <2>1. CASE (m = n /\ k = j) /\ slots[m][k] # NoSlot
    <3> DEFINE r == slots[m][k].proc
    <3>1. r \in Procs /\ sl[m][k] = [proc |-> r, phase |-> x]
      BY <1>1, <1>2, <2>1 DEF SlotsOfStarted
    <3> HIDE DEF r
    <3>2. sl[m][k].proc = r /\ sl[m][k] \in Slot
      BY <1>3, <3>1
    <3>. QED  BY <2>1, <3>2 DEF r
  <2>2. CASE (m = n /\ k = j) /\ slots[m][k] = NoSlot
    BY <1>2, <2>2 DEF Slot
  <2>3. CASE m # n \/ k # j
    BY <1>1, <1>2, <2>3
  <2>. QED  BY <2>1, <2>2, <2>3
<1>5. sl \in [Nodes -> [Jobs -> Slot]]
  BY <1>2, <1>4
<1>6. SlotsOfStarted(phase, sl)
  <2> SUFFICES ASSUME NEW m \in Nodes, NEW k \in Jobs, sl[m][k] # NoSlot
               PROVE  /\ sl[m][k].proc \in Procs /\ sl[m][k].proc[1] = k
                      /\ phase[sl[m][k].proc] \notin Waits
    BY DEF SlotsOfStarted
  <2>1. slots[m][k] # NoSlot /\ sl[m][k].proc = slots[m][k].proc
    BY <1>4
  <2>2. slots[m][k].proc \in Procs /\ slots[m][k].proc[1] = k /\ phase[slots[m][k].proc] \notin Waits
    BY <1>1, <2>1 DEF SlotsOfStarted
  <2>. QED  BY <2>1, <2>2
<1>7. Live(sl, state)
  <2>1. \A m \in Nodes : Holds(sl, m) # {} => Holds(slots, m) # {}
    BY <1>4 DEF Holds
  <2>. QED  BY <1>1, <2>1 DEF Live
<1>8. Consistent(phase, host, queue, sl, allocated_ram, allocated_vcpu, state, known)
  BY <1>5, <1>6, <1>7 DEF Consistent
<1>. QED  BY <1>8 DEF sl

(* A process that runs goes on to another phase.                           *)
LEMMA PhaseMoves ==
  ASSUME NEW ph, NEW p \in Procs, NEW x \in Active, ph[p] \in Active, NEW h, NEW q, NEW sl,
         NEW ram, NEW vcpu, NEW st, NEW kn, Consistent(ph, h, q, sl, ram, vcpu, st, kn)
  PROVE  Consistent([ph EXCEPT ![p] = x], h, q, sl, ram, vcpu, st, kn)
<1> DEFINE g == [ph EXCEPT ![p] = x]
<1>1. /\ ph \in [Procs -> Phases] /\ \A r \in Procs : h[r] # 0 <=> ph[r] \in Active
      /\ QueueOK(ph, q) /\ FirstCopy(ph, kn) /\ SlotsOfStarted(ph, sl)
  BY DEF Consistent
<1>2. g \in [Procs -> Phases] /\ g[p] = x /\ \A r \in Procs : r # p => g[r] = ph[r]
  BY <1>1 DEF Phases
<1>3. x \notin Waits /\ ph[p] \notin Waits
  BY DEF Active, Waits
<1> HIDE DEF g
<1>4. /\ \A r \in Procs : g[r] \in Active <=> ph[r] \in Active
      /\ \A r \in Procs : g[r] \in Waits \/ ph[r] \in Waits => g[r] = ph[r]
  BY <1>2, <1>3
<1>5. \A r \in Procs : g[r] = "queued" <=> ph[r] = "queued"
  BY <1>4 DEF Waits
<1>6. QueueOK(g, q)
  BY <1>1, <1>5 DEF QueueOK
<1>7. FirstCopy(g, kn)
  <2>1. \A j \in Jobs : <<j, 0>> \in Procs /\ \A k \in Copies : <<j, k>> \in Procs
    BY K8sAssumption DEF Procs, Copies
  <2>2. ASSUME NEW j \in Jobs, g[<<j, 0>>] \in Waits, NEW k \in Copies \ {0}
        PROVE  g[<<j, k>>] = "absent"
    <3>1. ph[<<j, 0>>] \in Waits
      BY <1>4, <2>1, <2>2
    <3>2. ph[<<j, k>>] = "absent"
      BY <1>1, <3>1 DEF FirstCopy
    <3>. QED  BY <1>4, <2>1, <3>2 DEF Waits
  <2>3. \A j \in Jobs : tiered /\ g[<<j, 0>>] = "queued" => j \in kn
    BY <1>1, <1>5, <2>1 DEF FirstCopy
  <2>. QED  BY <2>2, <2>3 DEF FirstCopy
<1>8. SlotsOfStarted(g, sl)
  <2>1. \A r \in Procs : ph[r] \notin Waits => g[r] \notin Waits
    BY <1>4
  <2>. QED  BY <1>1, <2>1 DEF SlotsOfStarted
<1>9. Consistent(g, h, q, sl, ram, vcpu, st, kn)
  BY <1>1, <1>2, <1>4, <1>6, <1>7, <1>8 DEF Consistent
<1>. QED  BY <1>9 DEF g

(* A copy of a job that has run is queued.                                 *)
LEMMA Requeued ==
  ASSUME NEW ph, NEW c \in Procs, ph[c] = "absent", ph[<<c[1], 0>>] \notin Waits, NEW h, NEW q,
         NEW sl, NEW ram, NEW vcpu, NEW st, NEW kn, Consistent(ph, h, q, sl, ram, vcpu, st, kn)
  PROVE  Consistent([ph EXCEPT ![c] = "queued"], h, Append(q, c), sl, ram, vcpu, st, kn)
<1> DEFINE g == [ph EXCEPT ![c] = "queued"]
           q1 == Append(q, c)
<1>1. /\ ph \in [Procs -> Phases] /\ \A r \in Procs : h[r] # 0 <=> ph[r] \in Active
      /\ QueueOK(ph, q) /\ FirstCopy(ph, kn) /\ SlotsOfStarted(ph, sl)
  BY DEF Consistent
<1>2. g \in [Procs -> Phases] /\ g[c] = "queued" /\ \A r \in Procs : r # c => g[r] = ph[r]
  BY <1>1 DEF Phases
<1>3. "absent" \notin Active /\ "queued" \notin Active /\ {"absent", "queued"} \subseteq Waits
  BY DEF Active, Waits
<1> HIDE DEF g
<1>4. QueueOK(g, q1)
  <2>1. /\ q \in Seq(Procs) /\ q1 \in Seq(Procs) /\ Len(q) \in Nat /\ Len(q1) = Len(q) + 1
        /\ q1[Len(q) + 1] = c /\ \A i \in 1..Len(q) : q1[i] = q[i] /\ q[i] \in Procs
    BY <1>1 DEF QueueOK
  <2>2. \A i \in 1..Len(q) : q[i] # c
    BY <1>1, <2>1 DEF QueueOK
  <2>3. \A i : i \in 1..Len(q1) <=> i \in 1..Len(q) \/ i = Len(q) + 1
    BY <2>1
  <2> HIDE DEF q1
  <2>4. \A i, k \in 1..Len(q1) : q1[i] = q1[k] => i = k
    BY <1>1, <2>1, <2>2, <2>3 DEF QueueOK
  <2>5. \A r \in Procs : g[r] = "queued" <=> \E i \in 1..Len(q1) : q1[i] = r
    <3> TAKE r \in Procs
    <3>1. CASE r = c
      BY <1>2, <2>1, <2>3, <3>1
    <3>2. CASE r # c
      <4>1. (\E i \in 1..Len(q1) : q1[i] = r) <=> \E i \in 1..Len(q) : q[i] = r
        BY <2>1, <2>3, <3>2
      <4>. QED  BY <1>1, <1>2, <3>2, <4>1 DEF QueueOK
    <3>. QED  BY <3>1, <3>2
  <2>. QED  BY <2>1, <2>4, <2>5 DEF QueueOK
<1>5. FirstCopy(g, kn)
  <2>1. \A j \in Jobs : <<j, 0>> \in Procs /\ \A k \in Copies : <<j, k>> \in Procs
    BY K8sAssumption DEF Procs, Copies
  <2>2. c # <<c[1], 0>>
    BY <1>3
  <2>3. \A j \in Jobs : g[<<j, 0>>] = ph[<<j, 0>>]
    <3> TAKE j \in Jobs
    <3>1. <<j, 0>> # c
      BY <2>2
    <3>. QED  BY <1>2, <2>1, <3>1
  <2>4. ASSUME NEW j \in Jobs, g[<<j, 0>>] \in Waits, NEW k \in Copies \ {0}
        PROVE  g[<<j, k>>] = "absent"
    <3>1. ph[<<j, 0>>] \in Waits
      BY <2>3, <2>4
    <3>2. c # <<j, k>>
      BY <3>1
    <3>. QED  BY <1>1, <1>2, <2>1, <3>1, <3>2 DEF FirstCopy
  <2>5. \A j \in Jobs : tiered /\ g[<<j, 0>>] = "queued" => j \in kn
    BY <1>1, <2>3 DEF FirstCopy
  <2>. QED  BY <2>4, <2>5 DEF FirstCopy
<1>6. SlotsOfStarted(g, sl)
  <2>1. \A r \in Procs : ph[r] \notin Waits => g[r] \notin Waits
    BY <1>2, <1>3
  <2>. QED  BY <1>1, <2>1 DEF SlotsOfStarted
<1>7. \A r \in Procs : h[r] # 0 <=> g[r] \in Active
  BY <1>1, <1>2, <1>3
<1> HIDE DEF q1
<1>8. Consistent(g, h, q1, sl, ram, vcpu, st, kn)
  BY <1>2, <1>4, <1>5, <1>6, <1>7 DEF Consistent
<1>. QED  BY <1>8 DEF g, q1

-----------------------------------------------------------------------------
(* Who is killed has a slot, so that it has been placed.                   *)
LEMMA VictimStarted ==
  ASSUME NEW sl, NEW n \in Nodes, NEW v \in Victims(sl, n), SlotsOfStarted(phase, sl)
  PROVE  v \in Procs /\ phase[v] \notin Waits
<1>1. PICK j \in Holds(sl, n) : v = sl[n][j].proc
  BY DEF Victims
<1>2. j \in Jobs /\ sl[n][j] # NoSlot
  BY DEF Holds
<1>. QED  BY <1>1, <1>2 DEF SlotsOfStarted

(* The next copy of a job is a process that has not been used.             *)
LEMMA CopyIsNew ==
  ASSUME NEW j \in Jobs, \E k \in Copies : phase[<<j, k>>] = "absent"
  PROVE  Copy(j) \in Procs /\ phase[Copy(j)] = "absent" /\ Copy(j)[1] = j
<1> DEFINE T == {k \in Copies : phase[<<j, k>>] = "absent"}
           Next1(k) == phase[<<j, k>>] = "absent" /\ \A i \in 0..(k-1) : phase[<<j, i>>] # "absent"
<1>1. T \in SUBSET Nat /\ T # {} /\ \A i, k \in Copies : i \in Nat /\ k \in Nat
  BY DEF Copies
<1>2. PICK x \in T : \A y \in T : x <= y
  BY <1>1, LeastNat
<1>3. \A i \in 0..(x-1) : i \in Copies /\ i < x
  BY K8sAssumption, <1>1 DEF Copies
<1>4. x \in Copies /\ Next1(x)
  <2>1. \A i \in 0..(x-1) : i \notin T
    BY <1>1, <1>2, <1>3 DEF Copies
  <2>. QED  BY <1>3, <2>1
<1> HIDE DEF Next1
<1> DEFINE c == CHOOSE k \in Copies : Next1(k)
<1>5. c \in Copies /\ Next1(c)
  BY <1>4
<1>6. Copy(j) = <<j, c>>
  BY DEF Copy, Next1
<1> HIDE DEF c
<1>. QED  BY <1>5, <1>6 DEF Next1, Procs

(* A replay is queued behind: no job that has just come is added to wait.  *)
LEMMA RoomKept ==
  ASSUME NoIdleRoom, NEW c \in Procs, c[2] # 0, queue \in Seq(Procs),
         queue' = queue \/ queue' = Append(queue, c),
         allocated_ram' = allocated_ram, allocated_vcpu' = allocated_vcpu,
         \A n \in Nodes : state'[n] = "READY" => state[n] = "READY"
  PROVE  NoIdleRoom'
<1> SUFFICES ASSUME NEW i \in 1..Len(queue'), NEW n \in Nodes,
                    queue'[i][2] = 0, state'[n] = "READY"
             PROVE  ~FitsBehind(<<queue'[i]>>, <<0>>, 1, n, allocated_ram, allocated_vcpu)
  BY DEF NoIdleRoom
<1>1. i \in 1..Len(queue) /\ queue'[i] = queue[i]
  <2>1. CASE queue' = queue
    BY <2>1
  <2>2. CASE queue' = Append(queue, c)
    <3>1. i = Len(queue) + 1 => queue'[i] = c
      BY <2>2
    <3>. QED  BY <2>2, <3>1
  <2>. QED  BY <2>1, <2>2
<1>. QED  BY <1>1 DEF NoIdleRoom

(* What a killed process's retries are afterwards.                         *)
LEMMA RetriesCounted ==
  ASSUME retry \in [Procs -> Nat], RetryLimit, NEW v \in Procs, NEW c \in Procs,
         cancelled' = cancelled \cup {v} \cup (IF v \in cancelled /\ Replays(retry[v] + 1)
                                               THEN {c} ELSE {}),
         terminal' = IF Replays(retry[v] + 1) THEN terminal ELSE terminal \cup {v[1]},
         retry' = IF Replays(retry[v] + 1)
                  THEN [retry EXCEPT ![v] = retry[v] + 1, ![c] = retry[v] + 1]
                  ELSE [retry EXCEPT ![v] = retry[v] + 1]
  PROVE  retry' \in [Procs -> Nat] /\ RetryLimit'
<1> DEFINE count == retry[v] + 1
<1>1. count \in Nat /\ MaxRetries \in Nat
  BY K8sAssumption
<1>2. CASE Replays(count)
  <2>1. count <= MaxRetries
    BY <1>2 DEF Replays
  <2>2. /\ retry' \in [Procs -> Nat] /\ retry'[v] = count /\ retry'[c] = count
        /\ \A p \in Procs : p # v /\ p # c => retry'[p] = retry[p]
    BY <1>1, <1>2
  <2>3. \A p \in Procs : p \notin cancelled' => p \notin cancelled
    OBVIOUS
  <2>4. terminal' = terminal
    BY <1>2
  <2> HIDE DEF count
  <2>5. \A p \in Procs : retry'[p] \in Nat /\ retry[p] \in Nat
    BY <2>2
  <2>. QED  BY <1>1, <2>1, <2>2, <2>3, <2>4, <2>5 DEF RetryLimit
<1>3. CASE ~Replays(count)
  <2>1. /\ retry' \in [Procs -> Nat] /\ retry'[v] = count
        /\ \A p \in Procs : p # v => retry'[p] = retry[p]
    BY <1>1, <1>3
  <2>2. v \in cancelled' /\ cancelled \subseteq cancelled'
    OBVIOUS
  <2>3. terminal' = terminal \cup {v[1]}
    BY <1>3
  <2> HIDE DEF count
  <2>. QED  BY <2>1, <2>2, <2>3 DEF RetryLimit
<1>. QED  BY <1>2, <1>3
(* A process that starts to preprocess kills another, or its own job.      *)
LEMMA KillKeeps ==
  ASSUME IInv, NEW p \in Procs, phase[p] = "download",
         NEW v \in Victims(Updated(p, "preprocess"), host[p]),
         Kill(p, v, Updated(p, "preprocess")), UNCHANGED completed
  PROVE  IInv'
<1> DEFINE count == retry[v] + 1
           c == Copy(v[1])
           sl == Updated(p, "preprocess")
           ph == IF Replays(count) THEN [phase EXCEPT ![c] = "queued"] ELSE phase
           q == IF Replays(count) THEN Append(queue, c) ELSE queue
<1>1. /\ Consistent(phase, host, queue, slots, allocated_ram, allocated_vcpu, state, known)
      /\ tiered \in TierModes /\ retry \in [Procs -> Nat] /\ cancelled \subseteq Procs
      /\ completed \subseteq Jobs /\ terminal \subseteq Jobs
      /\ idle_timers \in [Nodes -> Nat] /\ monitors \subseteq Nodes
      /\ RetryLimit /\ NoIdleRoom
  BY DEF IInv
<1>2. {"download", "preprocess"} \subseteq Active /\ "absent" \notin Active /\ "absent" \in Waits
  BY DEF Active, Waits
<1>3. Consistent(phase, host, queue, sl, allocated_ram, allocated_vcpu, state, known)
  BY <1>1, <1>2, SlotMoves
<1>4. host[p] \in Nodes
  BY <1>1, <1>2 DEF Consistent
<1>5. v \in Procs /\ phase[v] \notin Waits /\ v[1] \in Jobs
  <2>1. SlotsOfStarted(phase, sl)
    BY <1>3 DEF Consistent
  <2> HIDE DEF sl
  <2>2. v \in Victims(sl, host[p])
    BY DEF sl
  <2>3. v \in Procs /\ phase[v] \notin Waits
    BY <1>4, <2>1, <2>2, VictimStarted
  <2>. QED  BY <2>3 DEF Procs
<1>6. phase[<<v[1], 0>>] \notin Waits
  <2>1. PICK k \in Copies : v = <<v[1], k>>
    BY <1>5 DEF Procs
  <2>2. CASE k = 0
    BY <1>5, <2>1, <2>2
  <2>3. CASE k # 0
    <3>1. phase[v] # "absent"
      BY <1>2, <1>5
    <3>. QED  BY <1>1, <1>5, <2>1, <2>3, <3>1 DEF Consistent, FirstCopy
  <2>. QED  BY <2>2, <2>3
<1>7. /\ Replays(count) => \E k \in Copies : phase[<<v[1], k>>] = "absent"
      /\ retry' = IF Replays(count) THEN [retry EXCEPT ![v] = count, ![c] = count]
                                    ELSE [retry EXCEPT ![v] = count]
      /\ cancelled' = cancelled \cup {v}
                        \cup (IF v \in cancelled /\ Replays(count) THEN {c} ELSE {})
      /\ terminal' = IF Replays(count) THEN terminal ELSE terminal \cup {v[1]}
      /\ IF v[1] = p[1] THEN Finish(p, ph, q, sl)
         ELSE /\ phase' = [ph EXCEPT ![p] = "preprocess"]
              /\ queue' = q /\ slots' = sl
              /\ UNCHANGED <<tiered, known, host, allocated_ram, allocated_vcpu, state,
                             idle_timers, monitors>>
  BY DEF Kill
<1> HIDE DEF sl
<1>8. Replays(count) => c \in Procs /\ phase[c] = "absent" /\ c[1] = v[1] /\ c # p /\ c[2] # 0
  <2> SUFFICES ASSUME Replays(count)
               PROVE  c \in Procs /\ phase[c] = "absent" /\ c[1] = v[1] /\ c # p /\ c[2] # 0
    OBVIOUS
  <2>1. c \in Procs /\ phase[c] = "absent" /\ c[1] = v[1]
    BY <1>5, <1>7, CopyIsNew
  <2> HIDE DEF c
  <2>2. c = <<c[1], c[2]>>
    BY <2>1 DEF Procs
  <2>3. c[2] # 0
    BY <1>2, <1>6, <2>1, <2>2
  <2>. QED  BY <2>1, <2>3
<1>9. Consistent(ph, host, q, sl, allocated_ram, allocated_vcpu, state, known) /\ ph[p] \in Active
  <2>1. CASE ~Replays(count)
    BY <1>2, <1>3, <2>1
  <2>2. CASE Replays(count)
    <3>1. c \in Procs /\ phase[c] = "absent" /\ phase[<<c[1], 0>>] \notin Waits /\ c # p
      BY <1>6, <1>8, <2>2
    <3> HIDE DEF c
    <3>2. Consistent([phase EXCEPT ![c] = "queued"], host, Append(queue, c), sl,
                     allocated_ram, allocated_vcpu, state, known)
      BY <1>3, <3>1, Requeued
    <3>3. [phase EXCEPT ![c] = "queued"][p] = phase[p]
      BY <1>1, <3>1 DEF Consistent
    <3>. QED  BY <1>2, <2>2, <3>2, <3>3
  <2>. QED  BY <2>1, <2>2
<1>10. /\ Consistent(phase, host, queue, slots, allocated_ram, allocated_vcpu, state, known)'
       /\ NoIdleRoom' /\ tiered' = tiered
       /\ monitors' \subseteq Nodes /\ idle_timers' \in [Nodes -> Nat]
  <2>1. CASE v[1] = p[1]
    <3>1. Finish(p, ph, q, sl)
      BY <1>7, <2>1
    <3> HIDE DEF ph, q
    <3>. QED  BY <1>1, <1>9, <3>1, Ends
  <2>2. CASE v[1] # p[1]
    <3>1. /\ phase' = [ph EXCEPT ![p] = "preprocess"] /\ queue' = q /\ slots' = sl
          /\ UNCHANGED <<tiered, known, host, allocated_ram, allocated_vcpu, state,
                         idle_timers, monitors>>
      BY <1>7, <2>2
    <3>2. NoIdleRoom'
      <4>1. queue \in Seq(Procs)
        BY <1>1 DEF Consistent, QueueOK
      <4>2. CASE Replays(count)
        <5>1. c \in Procs /\ c[2] # 0 /\ queue' = Append(queue, c)
          BY <1>8, <3>1, <4>2
        <5> HIDE DEF c
        <5>2. \A n \in Nodes : state'[n] = "READY" => state[n] = "READY"
          BY <3>1
        <5>. QED  BY <1>1, <3>1, <4>1, <5>1, <5>2, RoomKept
      <4>3. CASE ~Replays(count)
        <5>1. queue' = queue
          BY <3>1, <4>3
        <5>. QED  BY <1>1, <3>1, <5>1 DEF NoIdleRoom
      <4>. QED  BY <4>2, <4>3
    <3>3. Consistent([ph EXCEPT ![p] = "preprocess"], host, q, sl, allocated_ram,
                     allocated_vcpu, state, known)
      <4> HIDE DEF ph, q
      <4>. QED  BY <1>2, <1>9, PhaseMoves
    <3>4. Consistent(phase, host, queue, slots, allocated_ram, allocated_vcpu, state, known)'
      <4> HIDE DEF ph, q
      <4>. QED  BY <3>1, <3>3 DEF Consistent, FirstCopy
    <3>. QED  BY <1>1, <3>1, <3>2, <3>4
  <2>. QED  BY <2>1, <2>2
<1>11. cancelled' \subseteq Procs /\ terminal' \subseteq Jobs
  <2> HIDE DEF c
  <2>. QED  BY <1>1, <1>5, <1>7, <1>8
<1>12. retry' \in [Procs -> Nat] /\ RetryLimit'
  <2>1. CASE Replays(count)
    <3>1. c \in Procs
      BY <1>8, <2>1
    <3> HIDE DEF c
    <3>. QED  BY <1>1, <1>5, <1>7, <3>1, RetriesCounted
  <2>2. CASE ~Replays(count)
    <3>1. /\ retry' = [retry EXCEPT ![v] = count] /\ cancelled' = cancelled \cup {v}
          /\ terminal' = terminal \cup {v[1]}
      BY <1>7, <2>2
    <3>2. /\ cancelled' = cancelled \cup {v} \cup (IF v \in cancelled /\ Replays(count)
                                                   THEN {v} ELSE {})
          /\ terminal' = IF Replays(count) THEN terminal ELSE terminal \cup {v[1]}
          /\ retry' = IF Replays(count) THEN [retry EXCEPT ![v] = count, ![v] = count]
                      ELSE [retry EXCEPT ![v] = count]
      BY <2>2, <3>1
    <3>. QED  BY <1>1, <1>5, <3>2, RetriesCounted
  <2>. QED  BY <2>1, <2>2
<1>. QED  BY <1>1, <1>10, <1>11, <1>12 DEF IInv

-----------------------------------------------------------------------------
(* A process that finds itself killed or without a slot ends.              *)
LEMMA EndKeeps ==
  ASSUME IInv, NEW p \in Procs, phase[p] \in Active, Finish(p, phase, queue, slots),
         UNCHANGED <<retry, cancelled, terminal>>, completed' \subseteq Jobs
  PROVE  IInv'
<1>1. /\ Consistent(phase, host, queue, slots, allocated_ram, allocated_vcpu, state, known)
      /\ monitors \subseteq Nodes /\ idle_timers \in [Nodes -> Nat]
  BY DEF IInv
<1>2. /\ Consistent(phase, host, queue, slots, allocated_ram, allocated_vcpu, state, known)'
      /\ NoIdleRoom' /\ tiered' = tiered
      /\ monitors' \subseteq Nodes /\ idle_timers' \in [Nodes -> Nat]
  BY <1>1, Ends
<1>3. RetryLimit'
  BY DEF IInv, RetryLimit
<1>. QED  BY <1>2, <1>3 DEF IInv

(* A process that goes on moves its slot.                                  *)
LEMMA ProceedKeeps ==
  ASSUME IInv, NEW p \in Procs, phase[p] \in Active, NEW x \in Active, Proceed(p, x)
  PROVE  IInv'
<1> DEFINE sl == Updated(p, x)
<1>1. Consistent(phase, host, queue, slots, allocated_ram, allocated_vcpu, state, known)
  BY DEF IInv
<1>2. Consistent(phase, host, queue, sl, allocated_ram, allocated_vcpu, state, known)
  BY <1>1, SlotMoves
<1>3. /\ phase' = [phase EXCEPT ![p] = x] /\ slots' = sl
      /\ UNCHANGED <<tiered, known, host, queue, allocated_ram, allocated_vcpu, state,
                     idle_timers, monitors, retry, cancelled, completed, terminal>>
  BY DEF Proceed, MoveTo
<1> HIDE DEF sl
<1>4. Consistent([phase EXCEPT ![p] = x], host, queue, sl, allocated_ram, allocated_vcpu,
                 state, known)
  BY <1>2, PhaseMoves
<1>5. Consistent(phase, host, queue, slots, allocated_ram, allocated_vcpu, state, known)'
  BY <1>3, <1>4 DEF Consistent, FirstCopy
<1>6. RetryLimit' /\ NoIdleRoom'
  BY <1>3 DEF IInv, RetryLimit, NoIdleRoom
<1>. QED  BY <1>3, <1>5, <1>6 DEF IInv

(* The steps of a job.                                                     *)
LEMMA JobStepKeeps ==
  ASSUME IInv, NEW p \in Procs, JobStep(p)
  PROVE  IInv'
<1>1. {"download", "preprocess", "workhorse", "upload"} \subseteq Active
  BY DEF Active
<1>2. ASSUME phase[p] \in Active, Evict(p)
      PROVE  IInv'
  <2>1. completed' \subseteq Jobs
    BY <1>2 DEF Evict, IInv
  <2>. QED  BY <1>2, <2>1, EndKeeps DEF Evict
<1>3. CASE EndDownload(p)
  <2>1. phase[p] = "download" /\ phase[p] \in Active
    BY <1>1, <1>3 DEF EndDownload
  <2>2. CASE Evict(p)
    BY <1>2, <2>1, <2>2
  <2>3. CASE Proceed(p, "preprocess")
    BY <1>1, <2>1, <2>3, ProceedKeeps
  <2>4. CASE \E v \in Victims(Updated(p, "preprocess"), host[p]) :
               Kill(p, v, Updated(p, "preprocess")) /\ UNCHANGED completed
    BY <2>1, <2>4, KillKeeps
  <2>. QED  BY <1>3, <2>2, <2>3, <2>4 DEF EndDownload
<1>4. CASE EndPreprocess(p)
  <2>1. phase[p] \in Active
    BY <1>1, <1>4 DEF EndPreprocess
  <2>2. Evict(p) \/ Proceed(p, "workhorse")
    BY <1>4 DEF EndPreprocess
  <2>. QED  BY <1>1, <1>2, <2>1, <2>2, ProceedKeeps
<1>5. CASE EndWorkhorse(p)
  <2>1. phase[p] \in Active
    BY <1>1, <1>5 DEF EndWorkhorse
  <2>2. Evict(p) \/ Proceed(p, "upload")
    BY <1>5 DEF EndWorkhorse
  <2>. QED  BY <1>1, <1>2, <2>1, <2>2, ProceedKeeps
<1>6. CASE EndUpload(p)
  <2>1. phase[p] \in Active /\ Finish(p, phase, queue, slots)
        /\ UNCHANGED <<retry, cancelled, terminal>>
    BY <1>1, <1>6 DEF EndUpload
  <2>2. completed' \subseteq Jobs
    BY <1>6 DEF EndUpload, IInv, Procs
  <2>. QED  BY <2>1, <2>2, EndKeeps
<1>. QED  BY <1>3, <1>4, <1>5, <1>6 DEF JobStep

(* A call of _try_schedule that changes nothing else about the jobs.       *)
LEMMA ScheduleKeeps ==
  ASSUME IInv, NEW ph, NEW q, NEW st, NEW kn,
         Consistent(ph, host, q, slots, allocated_ram, allocated_vcpu, st, kn),
         TrySchedule(ph, host, q, slots, allocated_ram, allocated_vcpu, st, kn),
         UNCHANGED <<tiered, retry, cancelled, completed, terminal, idle_timers>>,
         monitors' \subseteq Nodes
  PROVE  IInv'
<1>1. Consistent(phase, host, queue, slots, allocated_ram, allocated_vcpu, state, known)'
      /\ NoIdleRoom'
  BY Scheduled
<1>2. RetryLimit'
  BY DEF IInv, RetryLimit
<1>. QED  BY <1>1, <1>2 DEF IInv

(* The entries of a list into which another is put.                        *)
LEMMA InsertEntries ==
  ASSUME NEW T, NEW s \in Seq(T), NEW e \in T, NEW i \in 1..(Len(s) + 1)
  PROVE  /\ InsertAt(s, i, e) \in Seq(T)
         /\ Len(InsertAt(s, i, e)) = Len(s) + 1
         /\ \A k \in 1..(Len(s) + 1) :
              InsertAt(s, i, e)[k] = IF k < i THEN s[k] ELSE IF k = i THEN e ELSE s[k-1]
<1> DEFINE a == SubSeq(s, 1, i-1)
           b == SubSeq(s, i, Len(s))
<1>1. /\ a \in Seq(T) /\ Len(a) = i-1 /\ \A k \in 1..(i-1) : a[k] = s[k]
      /\ b \in Seq(T) /\ Len(b) = Len(s) - i + 1
      /\ \A k \in 1..(Len(s) - i + 1) : b[k] = s[i+k-1]
  OBVIOUS
<1>2. InsertAt(s, i, e) = a \o <<e>> \o b
  BY DEF InsertAt
<1> HIDE DEF a, b
<1> DEFINE c == a \o <<e>>
<1>3. c \in Seq(T) /\ Len(c) = i /\ \A k \in 1..i : c[k] = IF k < i THEN s[k] ELSE e
  BY <1>1
<1> HIDE DEF c
<1>4. Len(s) \in Nat /\ i \in Nat /\ i <= Len(s) + 1
  OBVIOUS
<1>5. (c \o b) \in Seq(T)
  BY <1>1, <1>3
<1>6. Len(c \o b) = Len(s) + 1
  <2>1. c \in Seq(T) /\ b \in Seq(T)
    BY <1>1, <1>3
  <2>2. Len(c \o b) = Len(c) + Len(b)
    BY <2>1
  <2>. QED  BY <1>1, <1>3, <1>4, <2>2
<1>7. \A k \in 1..(Len(s) + 1) : (c \o b)[k] = IF k <= i THEN c[k] ELSE b[k-i]
  BY <1>1, <1>3
<1>8. \A k \in 1..(Len(s) + 1) : k > i => k-i \in 1..(Len(s) - i + 1) /\ b[k-i] = s[k-1]
  BY <1>1
<1> DEFINE r == c \o b
<1>9. r = InsertAt(s, i, e)
  BY <1>2 DEF c
<1>10. ASSUME NEW k \in 1..(Len(s) + 1)
       PROVE  r[k] = IF k < i THEN s[k] ELSE IF k = i THEN e ELSE s[k-1]
  <2>0. k \in Int /\ i \in Int /\ (k <= i \/ k > i)
    BY <1>4
  <2>1. CASE k <= i
    <3>1. k \in 1..i /\ (k < i \/ k = i)
      BY <1>4, <2>1
    <3>2. r[k] = c[k]
      BY <1>7, <2>1
    <3>. QED  BY <1>3, <1>4, <3>1, <3>2
  <2>2. CASE k > i
    <3>1. ~(k <= i) /\ ~(k < i) /\ k # i
      BY <1>4, <2>2
    <3>2. r[k] = b[k-i] /\ b[k-i] = s[k-1]
      BY <1>7, <1>8, <2>2, <3>1
    <3>. QED  BY <3>1, <3>2
  <2> HIDE DEF r
  <2>. QED  BY <2>0, <2>1, <2>2
<1>. QED  BY <1>5, <1>6, <1>9, <1>10

(* A job arrives.                                                          *)
LEMMA ArriveKeeps ==
  ASSUME IInv, NEW j \in Jobs, Arrive(j)
  PROVE  IInv'
<1> DEFINE p == <<j, 0>>
           kn == IF tiered THEN known \cup {j} ELSE known
           moved(x) == [phase EXCEPT ![p] = x]
           ph == moved("queued")
<1>1. /\ phase \in [Procs -> Phases] /\ \A r \in Procs : host[r] # 0 <=> phase[r] \in Active
      /\ QueueOK(phase, queue) /\ FirstCopy(phase, known) /\ SlotsOfStarted(phase, slots)
      /\ known \subseteq Jobs
      /\ Consistent(phase, host, queue, slots, allocated_ram, allocated_vcpu, state, known)
  BY DEF IInv, Consistent
<1>2. p \in Procs /\ phase[p] = "absent" /\ \A k \in Copies : <<j, k>> \in Procs
  BY K8sAssumption DEF Procs, Copies, Arrive
<1>3. \A k \in Copies \ {0} : phase[<<j, k>>] = "absent"
  BY <1>1, <1>2 DEF FirstCopy, Waits
<1>4. \A i \in Jobs : <<i, 0>> \in Procs /\ (i # j => <<i, 0>> # p)
               /\ \A k \in Copies \ {0} : <<i, k>> \in Procs /\ <<i, k>> # p
  BY K8sAssumption DEF Procs, Copies
<1>5. "absent" \notin Active /\ "queued" \notin Active /\ "rejected" \notin Active
      /\ {"absent", "queued", "rejected"} = Waits
  BY DEF Active, Waits
<1>6. UNCHANGED <<tiered, retry, cancelled, completed, terminal, idle_timers, monitors>>
  BY DEF Arrive
<1>7. ASSUME NEW x \in {"queued", "rejected"}
      PROVE  /\ moved(x) \in [Procs -> Phases]
             /\ \A r \in Procs : host[r] # 0 <=> moved(x)[r] \in Active
             /\ SlotsOfStarted(moved(x), slots)
             /\ moved(x)[p] = x /\ \A r \in Procs : r # p => moved(x)[r] = phase[r]
             /\ \A i \in Jobs : moved(x)[<<i, 0>>] \in Waits =>
                  \A k \in Copies \ {0} : moved(x)[<<i, k>>] = "absent"
  <2> DEFINE g == moved(x)
  <2>1. g \in [Procs -> Phases] /\ g[p] = x /\ \A r \in Procs : r # p => g[r] = phase[r]
    BY <1>1, <1>2 DEF Phases
  <2> HIDE DEF moved
  <2>2. \A r \in Procs : host[r] # 0 <=> g[r] \in Active
    BY <1>1, <1>2, <1>5, <2>1
  <2>3. \A r \in Procs : phase[r] \notin Waits => g[r] \notin Waits
    BY <1>2, <1>5, <2>1
  <2>4. SlotsOfStarted(g, slots)
    BY <1>1, <2>3 DEF SlotsOfStarted
  <2>5. ASSUME NEW i \in Jobs, g[<<i, 0>>] \in Waits, NEW k \in Copies \ {0}
        PROVE  g[<<i, k>>] = "absent"
    <3>1. g[<<i, k>>] = phase[<<i, k>>]
      BY <1>4, <2>1
    <3>2. CASE i = j
      BY <1>3, <3>1, <3>2
    <3>3. CASE i # j
      <4>1. phase[<<i, 0>>] \in Waits
        BY <1>4, <2>1, <2>5, <3>3
      <4>. QED  BY <1>1, <3>1, <4>1 DEF FirstCopy
    <3>. QED  BY <3>2, <3>3
  <2>. QED  BY <2>1, <2>2, <2>4, <2>5
<1>8. CASE phase' = [phase EXCEPT ![p] = "rejected"]
           /\ UNCHANGED <<host, queue, slots, allocated_ram, allocated_vcpu, state, known>>
  <2> DEFINE g == moved("rejected")
  <2>0. phase' = g
    BY <1>8
  <2>1. /\ g \in [Procs -> Phases] /\ \A r \in Procs : host[r] # 0 <=> g[r] \in Active
        /\ SlotsOfStarted(g, slots)
        /\ g[p] = "rejected" /\ \A r \in Procs : r # p => g[r] = phase[r]
        /\ \A i \in Jobs : g[<<i, 0>>] \in Waits =>
             \A k \in Copies \ {0} : g[<<i, k>>] = "absent"
    BY <1>7
  <2> HIDE DEF g
  <2>2. \A r \in Procs : g[r] = "queued" <=> phase[r] = "queued"
    BY <1>2, <2>1
  <2>3. QueueOK(g, queue)
    BY <1>1, <2>2 DEF QueueOK
  <2>4. FirstCopy(g, known)
    BY <1>1, <1>4, <2>1, <2>2 DEF FirstCopy
  <2>5. Consistent(g, host, queue, slots, allocated_ram, allocated_vcpu, state, known)
    BY <1>1, <2>1, <2>3, <2>4 DEF Consistent
  <2>6. Consistent(phase, host, queue, slots, allocated_ram, allocated_vcpu, state, known)'
    BY <1>6, <1>8, <2>0, <2>5 DEF Consistent, FirstCopy
  <2>7. RetryLimit' /\ NoIdleRoom'
    BY <1>6, <1>8 DEF IInv, RetryLimit, NoIdleRoom
  <2>. QED  BY <1>6, <2>6, <2>7 DEF IInv
<1>9. ASSUME NEW i \in 1..(Len(queue) + 1),
             TrySchedule(ph, host, InsertAt(queue, i, p), slots, allocated_ram,
                         allocated_vcpu, state, kn)
      PROVE  IInv'
  <2> DEFINE q == InsertAt(queue, i, p)
  <2>1. queue \in Seq(Procs) /\ Len(queue) \in Nat
    BY <1>1 DEF QueueOK
  <2>2. /\ q \in Seq(Procs) /\ Len(q) = Len(queue) + 1
        /\ \A k \in 1..(Len(queue) + 1) :
             q[k] = IF k < i THEN queue[k] ELSE IF k = i THEN p ELSE queue[k-1]
    <3> DEFINE e == p
    <3>1. e \in Procs /\ i \in 1..(Len(queue) + 1)
      BY <1>2
    <3> HIDE DEF e
    <3>2. InsertAt(queue, i, e) \in Seq(Procs) /\ Len(InsertAt(queue, i, e)) = Len(queue) + 1
      BY <2>1, <3>1, InsertEntries
    <3>3. \A k \in 1..(Len(queue) + 1) :
            InsertAt(queue, i, e)[k] = IF k < i THEN queue[k] ELSE IF k = i THEN e ELSE queue[k-1]
      BY <2>1, <3>1, InsertEntries
    <3>. QED  BY <3>2, <3>3 DEF e
  <2>3. /\ ph \in [Procs -> Phases] /\ \A r \in Procs : host[r] # 0 <=> ph[r] \in Active
        /\ SlotsOfStarted(ph, slots)
        /\ ph[p] = "queued" /\ \A r \in Procs : r # p => ph[r] = phase[r]
        /\ \A k \in Jobs : ph[<<k, 0>>] \in Waits =>
             \A c \in Copies \ {0} : ph[<<k, c>>] = "absent"
    BY <1>7
  <2> HIDE DEF ph, q, p
  <2>4. \A k \in 1..Len(queue) : queue[k] # p
    BY <1>1, <1>2 DEF QueueOK
  <2>5. \A k \in 1..Len(q) : \/ k < i /\ k \in 1..Len(queue) /\ q[k] = queue[k]
                             \/ k = i /\ q[k] = p
                             \/ k > i /\ k-1 \in 1..Len(queue) /\ q[k] = queue[k-1]
    <3> TAKE k \in 1..Len(q)
    <3>1. k \in Int /\ i \in Int /\ k \in 1..(Len(queue) + 1)
      BY <2>1, <2>2
    <3>2. k < i \/ k = i \/ k > i
      BY <3>1
    <3>3. CASE k < i
      BY <2>1, <2>2, <3>1, <3>3
    <3>4. CASE k = i
      BY <2>1, <2>2, <3>1, <3>4
    <3>5. CASE k > i
      <4>1. ~(k < i) /\ k # i /\ k-1 \in 1..Len(queue)
        BY <2>1, <3>1, <3>5
      <4>. QED  BY <2>2, <3>1, <3>5, <4>1
    <3>. QED  BY <3>2, <3>3, <3>4, <3>5
  <2>6. \A k, m \in 1..Len(q) : q[k] = q[m] => k = m
    <3> SUFFICES ASSUME NEW k \in 1..Len(q), NEW m \in 1..Len(q), q[k] = q[m] PROVE k = m
      OBVIOUS
    <3>1. \A a, b \in 1..Len(queue) : queue[a] = queue[b] => a = b
      BY <1>1 DEF QueueOK
    <3>2. k \in Int /\ m \in Int /\ i \in Int
      BY <2>1, <2>2
    <3>3. CASE k < i
      BY <2>4, <2>5, <3>1, <3>2, <3>3
    <3>4. CASE k = i
      BY <2>4, <2>5, <3>1, <3>2, <3>4
    <3>5. CASE k > i
      BY <2>4, <2>5, <3>1, <3>2, <3>5
    <3>. QED  BY <3>2, <3>3, <3>4, <3>5
  <2>7. \A r \in Procs : (\E k \in 1..Len(q) : q[k] = r)
                           <=> r = p \/ \E k \in 1..Len(queue) : queue[k] = r
    <3> TAKE r \in Procs
    <3>1. i \in 1..Len(q) /\ q[i] = p
      BY <2>1, <2>2, <2>5
    <3>2. ASSUME NEW k \in 1..Len(queue), queue[k] = r
          PROVE  \E m \in 1..Len(q) : q[m] = r
      <4>1. k \in Int /\ i \in Int /\ k \in 1..Len(q) /\ k+1 \in 1..Len(q)
        BY <2>1, <2>2
      <4>2. CASE k < i
        BY <2>5, <3>2, <4>1, <4>2
      <4>3. CASE ~(k < i)
        <5>1. k+1 > i /\ (k+1)-1 = k
          BY <4>1, <4>3
        <5>2. ~(k+1 < i) /\ k+1 # i
          BY <4>1, <4>3
        <5>3. q[k+1] = queue[(k+1)-1]
          BY <2>5, <4>1, <5>2
        <5>4. q[k+1] = r
          BY <3>2, <5>1, <5>3
        <5>. QED  BY <4>1, <5>4
      <4>. QED  BY <4>2, <4>3
    <3>3. ASSUME NEW k \in 1..Len(q), q[k] = r
          PROVE  r = p \/ \E m \in 1..Len(queue) : queue[m] = r
      BY <2>5, <3>3
    <3>. QED  BY <3>1, <3>2, <3>3
  <2>8. QueueOK(ph, q)
    <3>1. \A r \in Procs : ph[r] = "queued" <=> \E k \in 1..Len(q) : q[k] = r
      BY <1>1, <2>3, <2>7 DEF QueueOK
    <3>. QED  BY <2>2, <2>6, <3>1 DEF QueueOK
  <2>9. FirstCopy(ph, kn)
    <3>1. \A k \in Jobs : tiered /\ ph[<<k, 0>>] = "queued" => k \in kn
      <4> SUFFICES ASSUME NEW k \in Jobs, tiered, ph[<<k, 0>>] = "queued", k # j
                   PROVE  k \in known
        OBVIOUS
      <4>1. phase[<<k, 0>>] = "queued"
        BY <1>4, <2>3 DEF p
      <4>. QED  BY <1>1, <4>1 DEF FirstCopy
    <3>. QED  BY <2>3, <3>1 DEF FirstCopy
  <2>10. Consistent(ph, host, q, slots, allocated_ram, allocated_vcpu, state, kn)
    <3>1. kn \subseteq Jobs
      BY <1>1
    <3>. QED  BY <1>1, <2>3, <2>8, <2>9, <3>1 DEF Consistent
  <2>11. TrySchedule(ph, host, q, slots, allocated_ram, allocated_vcpu, state, kn)
    BY <1>9 DEF ph, q, p
  <2> HIDE DEF kn
  <2>12. monitors' \subseteq Nodes
    BY <1>6 DEF IInv
  <2>. QED  BY <1>6, <2>10, <2>11, <2>12, ScheduleKeeps
<1>. QED  BY <1>8, <1>9 DEF Arrive

-----------------------------------------------------------------------------
(* A node's timers do not touch the jobs.                                  *)
LEMMA StateKeeps ==
  ASSUME IInv, state' \in [Nodes -> States], Live(slots, state'),
         \A n \in Nodes : state'[n] = "READY" => state[n] = "READY",
         UNCHANGED <<tiered, known, queue, jobVars, slots, allocated_ram, allocated_vcpu>>,
         idle_timers' \in [Nodes -> Nat], monitors' \subseteq Nodes
  PROVE  IInv'
<1>1. UNCHANGED <<phase, host, retry, cancelled, completed, terminal>>
  BY DEF jobVars
<1>2. Consistent(phase, host, queue, slots, allocated_ram, allocated_vcpu, state, known)'
  BY <1>1 DEF IInv, Consistent, FirstCopy
<1>3. RetryLimit' /\ NoIdleRoom'
  BY <1>1 DEF IInv, RetryLimit, NoIdleRoom
<1>. QED  BY <1>1, <1>2, <1>3 DEF IInv

(* Nodes are launched, get ready, drain and end.                           *)
LEMMA NodesKeep ==
  ASSUME IInv, Provision \/ PolicySwap \/ \E n \in Nodes : NodeStep(n)
  PROVE  IInv'
<1>1. /\ Consistent(phase, host, queue, slots, allocated_ram, allocated_vcpu, state, known)
      /\ state \in [Nodes -> States] /\ Live(slots, state)
      /\ idle_timers \in [Nodes -> Nat] /\ monitors \subseteq Nodes
  BY DEF IInv, Consistent
<1>2. CASE Provision
  <2>1. PICK R : state' = [n \in Nodes |-> IF n \in R \ Launched THEN "LAUNCHING" ELSE state[n]]
    BY <1>2 DEF Provision
  <2>2. UNCHANGED <<tiered, known, queue, jobVars, slots, allocated_ram, allocated_vcpu,
                    idle_timers, monitors>>
    BY <1>2 DEF Provision
  <2>3. \A n \in Nodes : state'[n] = state[n] \/ (state'[n] = "LAUNCHING" /\ state[n] = "none")
    BY <2>1 DEF Launched
  <2>4. state' \in [Nodes -> States]
    BY <1>1, <2>1 DEF States
  <2>5. Live(slots, state')
    BY <1>1, <2>3 DEF Live
  <2>. QED  BY <1>1, <2>2, <2>3, <2>4, <2>5, StateKeeps
<1>3. CASE PolicySwap
  <2>1. monitors' \subseteq Nodes
    BY <1>1, <1>3 DEF PolicySwap
  <2>. QED  BY <1>1, <1>3, <2>1, ScheduleKeeps DEF PolicySwap
<1>4. ASSUME NEW n \in Nodes, NodeReady(n)
      PROVE  IInv'
  <2> DEFINE st == [state EXCEPT ![n] = "READY"]
  <2>1. st \in [Nodes -> States] /\ Live(slots, st)
    BY <1>1 DEF Live, States
  <2>2. /\ TrySchedule(phase, host, queue, slots, allocated_ram, allocated_vcpu, st, known)
        /\ UNCHANGED <<tiered, retry, cancelled, completed, terminal, idle_timers>>
        /\ monitors' \subseteq Nodes
    BY <1>1, <1>4 DEF NodeReady
  <2> HIDE DEF st
  <2>3. Consistent(phase, host, queue, slots, allocated_ram, allocated_vcpu, st, known)
    BY <1>1, <2>1 DEF Consistent
  <2>. QED  BY <2>2, <2>3, ScheduleKeeps
<1>5. ASSUME NEW n \in Nodes, IdleFires(n)
      PROVE  IInv'
  <2>1. /\ state' = [state EXCEPT ![n] = IF @ = "IDLE" /\ Holds(slots, n) = {}
                                         THEN "TERMINATED" ELSE @]
        /\ UNCHANGED <<tiered, known, queue, jobVars, slots, allocated_ram, allocated_vcpu, monitors>>
        /\ idle_timers' = [idle_timers EXCEPT ![n] = @ - 1] /\ idle_timers[n] > 0
    BY <1>5 DEF IdleFires
  <2>2. idle_timers' \in [Nodes -> Nat]
    BY <1>1, <2>1
  <2>3. state' \in [Nodes -> States]
    BY <1>1, <2>1 DEF States
  <2>4. \A m \in Nodes : state'[m] = state[m] \/ (state'[m] = "TERMINATED" /\ Holds(slots, m) = {})
    BY <1>1, <2>1
  <2>5. Live(slots, state')
    BY <1>1, <2>4 DEF Live
  <2>. QED  BY <1>1, <2>1, <2>2, <2>3, <2>4, <2>5, StateKeeps
<1>6. ASSUME NEW n \in Nodes, DrainFires(n)
      PROVE  IInv'
  <2>1. /\ state' = [state EXCEPT ![n] = IF @ = "TERMINATED" THEN @ ELSE "DRAINING"]
        /\ UNCHANGED <<tiered, known, queue, jobVars, slots, allocated_ram, allocated_vcpu,
                       idle_timers>>
        /\ monitors' \subseteq Nodes
    BY <1>1, <1>6 DEF DrainFires
  <2>2. state' \in [Nodes -> States]
    BY <1>1, <2>1 DEF States
  <2>3. \A m \in Nodes : state'[m] = state[m] \/ state'[m] = "DRAINING"
    BY <1>1, <2>1
  <2>4. Live(slots, state')
    BY <1>1, <2>3 DEF Live
  <2>. QED  BY <1>1, <2>1, <2>2, <2>3, <2>4, StateKeeps
<1>. QED  BY <1>2, <1>3, <1>4, <1>5, <1>6 DEF NodeStep

(* At the start nothing has arrived.                                       *)
LEMMA InitKeeps ==
  ASSUME Init
  PROVE  IInv
<1>1. /\ tiered \in TierModes /\ known = {}
      /\ phase = [p \in Procs |-> "absent"] /\ host = [p \in Procs |-> 0]
      /\ retry = [p \in Procs |-> 0] /\ cancelled = {} /\ queue = <<>>
      /\ completed = {} /\ terminal = {}
      /\ slots = [n \in Nodes |-> [j \in Jobs |-> NoSlot]]
      /\ allocated_ram = [n \in Nodes |-> 0] /\ allocated_vcpu = [n \in Nodes |-> 0]
      /\ state = [n \in Nodes |-> "none"]
      /\ idle_timers = [n \in Nodes |-> 0] /\ monitors = {}
  BY DEF Init
<1>2. NoSlot \in Slot /\ "absent" \in Phases \ Active
  BY DEF Slot, Phases, Active
<1>3. QueueOK(phase, queue)
  BY <1>1 DEF QueueOK
<1>4. \A j \in Jobs, k \in Copies : <<j, k>> \in Procs
  BY DEF Procs
<1>5. 0 \in Copies
  BY K8sAssumption DEF Copies
<1>6. FirstCopy(phase, known)
  BY <1>1, <1>4, <1>5 DEF FirstCopy
<1>7. \A n \in Nodes, j \in Jobs : slots[n][j] = NoSlot
  BY <1>1
<1>8. SlotsOfStarted(phase, slots) /\ Live(slots, state)
  BY <1>7 DEF SlotsOfStarted, Live, Holds
<1>9. ASSUME NEW n \in Nodes, NEW Amount \in [Jobs -> Nat]
      PROVE  Requests(host, n, Amount) = 0
  <2>1. \A j \in Jobs : On(host, n, j) = {}
    BY <1>1 DEF On, Nodes
  <2>2. \A j \in Jobs : Shares(host, n, Amount)[j] = 0
    <3> TAKE j \in Jobs
    <3>1. Cardinality(On(host, n, j)) = 0 /\ Amount[j] \in Nat
      BY <2>1, FS_EmptySet
    <3>2. Shares(host, n, Amount)[j] = Amount[j] * Cardinality(On(host, n, j))
      BY DEF Shares
    <3>. QED  BY <3>1, <3>2
  <2>3. Shares(host, n, Amount) \in [1..NumJobs -> Nat]
    BY RequestsType
  <2>4. Shares(host, n, Amount) \in [1..NumJobs -> Int] /\ NumJobs \in Nat
    BY <2>3, K8sAssumption
  <2>5. \A j \in 1..NumJobs : Shares(host, n, Amount)[j] = 0
    BY <2>2 DEF Jobs
  <2>. QED  BY <2>4, <2>5, TotalZero DEF Requests
<1>10. Balanced(host, allocated_ram, allocated_vcpu)
  BY <1>1, <1>9, K8sAssumption DEF Balanced
<1>11. Consistent(phase, host, queue, slots, allocated_ram, allocated_vcpu, state, known)
  <2>1. \A p \in Procs : host[p] = 0 /\ phase[p] \notin Active
    BY <1>1, <1>2
  <2>2. slots \in [Nodes -> [Jobs -> Slot]] /\ phase \in [Procs -> Phases]
        /\ host \in [Procs -> Nodes \cup {0}] /\ state \in [Nodes -> States]
    BY <1>1, <1>2 DEF States
  <2>3. allocated_ram \in [Nodes -> Nat] /\ allocated_vcpu \in [Nodes -> Nat] /\ known \subseteq Jobs
    BY <1>1
  <2>. QED  BY <1>3, <1>6, <1>8, <1>10, <2>1, <2>2, <2>3 DEF Consistent
<1>12. RetryLimit /\ NoIdleRoom
  BY <1>1, K8sAssumption DEF RetryLimit, NoIdleRoom
<1>. QED  BY <1>1, <1>11, <1>12 DEF IInv
(* A step that changes nothing.                                            *)
LEMMA StutterKeeps ==
  ASSUME IInv, UNCHANGED vars
  PROVE  IInv'
<1>1. UNCHANGED <<tiered, known, queue, jobVars, nodeVars>>
  BY DEF vars
<1>2. UNCHANGED <<slots, allocated_ram, allocated_vcpu, state, idle_timers, monitors>>
  BY <1>1 DEF nodeVars
<1>3. state \in [Nodes -> States] /\ Live(slots, state)
      /\ idle_timers \in [Nodes -> Nat] /\ monitors \subseteq Nodes
  BY DEF IInv, Consistent
<1>. QED  BY <1>1, <1>2, <1>3, StateKeeps

(* Every step keeps the invariant.                                         *)
LEMMA NextKeeps ==
  ASSUME IInv, [Next]_vars
  PROVE  IInv'
<1>1. CASE UNCHANGED vars
  BY <1>1, StutterKeeps
<1>2. CASE \E j \in Jobs : Arrive(j)
  BY <1>2, ArriveKeeps
<1>3. CASE \E p \in Procs : JobStep(p)
  BY <1>3, JobStepKeeps
<1>4. CASE Provision \/ PolicySwap \/ \E n \in Nodes : NodeStep(n)
  BY <1>4, NodesKeep
<1>. QED  BY <1>1, <1>2, <1>3, <1>4 DEF Next

(* The invariant of the specification.                                     *)
THEOREM K8sInvariant == Spec => []IInv
<1>1. Init => IInv
  BY InitKeeps
<1>2. IInv /\ [Next]_vars => IInv'
  BY NextKeeps
<1>. QED  BY <1>1, <1>2, PTL DEF Spec

(* The variables keep their types; a process has a host exactly while it   *)
(* runs.                                                                   *)
THEOREM K8sTypes == Spec => []TypeOK
<1>1. IInv => TypeOK
  <2> SUFFICES ASSUME IInv PROVE TypeOK
    OBVIOUS
  <2>1. Consistent(phase, host, queue, slots, allocated_ram, allocated_vcpu, state, known)
    BY DEF IInv
  <2>2. queue \in Seq(Procs)
    BY <2>1 DEF Consistent, QueueOK
  <2>. QED  BY <2>1, <2>2 DEF IInv, TypeOK, Consistent, States
<1>. QED  BY <1>1, K8sInvariant, PTL

(* However a process ends, killed, evicted or done, its node gets its      *)
(* request back once: the books are those of the processes on the node.    *)
THEOREM K8sBooks == Spec => []AllocationBalanced
<1>1. IInv => AllocationBalanced
  BY DEF IInv, Consistent, Balanced, Requests, Shares, On, AllocationBalanced
<1>. QED  BY <1>1, K8sInvariant, PTL

(* No node is idle or gone while a slot is on it.                          *)
THEOREM K8sSlotsOnLiveNodes == Spec => []SlotsOnLiveNodes
<1>1. IInv => SlotsOnLiveNodes
  BY DEF IInv, Consistent, Live, SlotsOnLiveNodes
<1>. QED  BY <1>1, K8sInvariant, PTL

(* No process that is not killed has crashed more than MaxRetries times,   *)
(* and the job of one that has is recorded as a terminal failure.          *)
THEOREM K8sRetries == Spec => []RetryLimit
<1>1. IInv => RetryLimit
  BY DEF IInv
<1>. QED  BY <1>1, K8sInvariant, PTL

(* No job that waits for the first time waits beside a READY node with     *)
(* room.                                                                   *)
THEOREM K8sNoIdleRoom == Spec => []NoIdleRoom
<1>1. IInv => NoIdleRoom
  BY DEF IInv
<1>. QED  BY <1>1, K8sInvariant, PTL

(* The node taken for an entry depends on where those before it go only.   *)
LEMMA BestFitBehind ==
  ASSUME NEW q, NEW f, NEW g, NEW i, NEW ram, NEW vcpu, NEW st,
         \A k \in 1..(i-1) : f[k] = g[k]
  PROVE  BestFit(q, f, i, ram, vcpu, st) = BestFit(q, g, i, ram, vcpu, st)
<1> DEFINE fit(h) == {n \in Nodes : st[n] = "READY" /\ FitsBehind(q, h, i, n, ram, vcpu)}
           ahead(h, n) == {k \in 1..(i-1) : h[k] = n}
           load(h, n) == ram[n] + Requested(q, ahead(h, n), Soft)
           Better(h, n, m) == load(h, n) > load(h, m) \/ (load(h, n) = load(h, m) /\ n <= m)
<1>1. \A n : ahead(f, n) = ahead(g, n)
  OBVIOUS
<1>2. \A n : FitsBehind(q, f, i, n, ram, vcpu) <=> FitsBehind(q, g, i, n, ram, vcpu)
  <2> TAKE n
  <2>1. {k \in 1..(i-1) : f[k] = n} = {k \in 1..(i-1) : g[k] = n}
    BY <1>1
  <2>. QED  BY <2>1 DEF FitsBehind
<1>3. fit(f) = fit(g)
  BY <1>2
<1>4. \A n : load(f, n) = load(g, n)
  BY <1>1
<1>5. \A h : BestFit(q, h, i, ram, vcpu, st)
               = IF fit(h) = {} THEN 0 ELSE CHOOSE n \in fit(h) : \A m \in fit(h) : Better(h, n, m)
  BY DEF BestFit
<1> HIDE DEF fit, load
<1>6. \A n, m : Better(f, n, m) <=> Better(g, n, m)
  BY <1>4
<1> HIDE DEF Better
<1>7. (CHOOSE n \in fit(f) : \A m \in fit(f) : Better(f, n, m))
        = CHOOSE n \in fit(g) : \A m \in fit(g) : Better(g, n, m)
  BY <1>3, <1>6
<1>. QED  BY <1>3, <1>5, <1>7

(* Whatever waits, a pass over the queue exists: no step that schedules    *)
(* is cut off.                                                             *)
THEOREM K8sPassExists ==
  ASSUME NEW ph, NEW h, NEW q, NEW sl, NEW ram, NEW vcpu, NEW st, NEW kn,
         Consistent(ph, h, q, sl, ram, vcpu, st, kn)
  PROVE  \E placed \in [1..Len(q) -> {n \in Nodes : st[n] = "READY"} \cup {0}] :
           \A i \in 1..Len(q) :
             placed[i] = IF /\ Compatible(q[i][1], kn)
                            /\ \A k \in 1..(i-1) : q[k][1] = q[i][1] => placed[k] = 0
                         THEN BestFit(q, placed, i, ram, vcpu, st) ELSE 0
<1> DEFINE N == Len(q)
           T == {n \in Nodes : st[n] = "READY"} \cup {0}
           free(f, i) == /\ Compatible(q[i][1], kn)
                         /\ \A k \in 1..(i-1) : q[k][1] = q[i][1] => f[k] = 0
           value(f, i) == IF free(f, i) THEN BestFit(q, f, i, ram, vcpu, st) ELSE 0
           choice == [f \in [1..N -> T] |-> [i \in 1..N |-> value(f, i)]]
<1>1. q \in Seq(Procs) /\ N \in Nat /\ ram \in [Nodes -> Nat] /\ 0 \in T
  BY DEF Consistent, QueueOK
<1>2. \A f, i : i \in 1..N => value(f, i) \in T
  <2> TAKE f, i
  <2> SUFFICES ASSUME i \in 1..N PROVE value(f, i) \in T
    OBVIOUS
  <2>1. \/ BestFit(q, f, i, ram, vcpu, st) = 0
        \/ /\ BestFit(q, f, i, ram, vcpu, st) \in Nodes
           /\ st[BestFit(q, f, i, ram, vcpu, st)] = "READY"
    BY <1>1, BestFitFits
  <2> HIDE DEF free
  <2>. QED  BY <2>1
<1>3. \A f, g, i : (\A k \in 1..(i-1) : f[k] = g[k]) => value(f, i) = value(g, i)
  <2> TAKE f, g, i
  <2> SUFFICES ASSUME \A k \in 1..(i-1) : f[k] = g[k] PROVE value(f, i) = value(g, i)
    OBVIOUS
  <2>1. free(f, i) <=> free(g, i)
    OBVIOUS
  <2>2. BestFit(q, f, i, ram, vcpu, st) = BestFit(q, g, i, ram, vcpu, st)
    BY BestFitBehind
  <2> HIDE DEF free
  <2>. QED  BY <2>1, <2>2
<1> HIDE DEF T, value
<1>4. \A f \in [1..N -> T], i \in 1..N : choice[f][i] = value(f, i)
  OBVIOUS
<1> HIDE DEF choice
<1>5. \E f \in [1..N -> T] : \A i \in 1..N : f[i] = choice[f][i]
  <2> HIDE DEF N
  <2>1. \A f \in [1..N -> T], i \in 1..N : choice[f][i] \in T
    BY <1>2, <1>4
  <2>2. \A f, g \in [1..N -> T], i \in 1..N :
          (\A k \in 1..(i-1) : f[k] = g[k]) => choice[f][i] = choice[g][i]
    <3> TAKE f, g \in [1..N -> T], i \in 1..N
    <3> HAVE \A k \in 1..(i-1) : f[k] = g[k]
    <3>1. value(f, i) = value(g, i)
      BY <1>3
    <3>2. choice[f][i] = value(f, i) /\ choice[g][i] = value(g, i)
      BY <1>4
    <3>. QED  BY <3>1, <3>2
  <2>3. N \in Nat /\ 0 \in T
    BY <1>1
  <2>4. LooksBack(choice, N, T)
    BY <2>1, <2>2 DEF LooksBack
  <2>. QED  BY <2>3, <2>4, ChoicesExist
<1>6. \E f \in [1..N -> T] : \A i \in 1..N : f[i] = value(f, i)
  BY <1>4, <1>5
<1>. QED  BY <1>6 DEF T, value
=============================================================================
