--------------------------- MODULE PlusNodeProofs ---------------------------
(***************************************************************************)
(* Proofs about PlusNode, for any jobs, any node and any number of         *)
(* download slots: its type, its books, its download slots, the order of   *)
(* its wake-ups, that it is never overloaded when jobs stay within their   *)
(* requests, and that it keeps the contract of NodeContract.               *)
(***************************************************************************)
EXTENDS PlusNode, BurstPoolProofs, FiniteSetTheorems, FunctionTheorems, SequenceTheorems

(* Joined is built as its recursion says: each job of P in turn is put at  *)
(* the end of a queue.                                                     *)
LEMMA JoinedDef ==
  ASSUME NEW queue \in Seq(Jobs), NEW P \in SUBSET Jobs
  PROVE  \E g \in [0..NumJobs -> Seq(Jobs)] :
           /\ g[0] = queue
           /\ \A i \in 1..NumJobs : g[i] = IF i \in P THEN Append(g[i-1], i) ELSE g[i-1]
           /\ Joined(queue, P) = g[NumJobs]
<1> DEFINE V == Seq(Jobs)
           n == NumJobs
           Step(q, i) == IF i \in P THEN Append(q, i) ELSE q
           Eqn(p) == p = [i \in 0..n |-> IF i = 0 THEN queue ELSE Step(p[i-1], i)]
<1>1. n \in Nat /\ queue \in V
  BY PoolAssumption
<1>2. ASSUME NEW i \in 1..n, NEW q \in V
      PROVE  Step(q, i) \in V
  <2>1. i \in Jobs /\ q \in Seq(Jobs)
    BY DEF Jobs
  <2>2. Append(q, i) \in Seq(Jobs)
    BY <2>1
  <2>. QED  BY <2>1, <2>2
<1>3. Joined(queue, P) = (CHOOSE p : Eqn(p))[n]
  BY DEF Joined
<1> HIDE DEF V, n, Step
<1> DEFINE Rec(g, m) == g[0] = queue /\ \A i \in 1..m : g[i] = Step(g[i-1], i)
           S == {m \in Nat : m <= n => \E g \in [0..m -> V] : Rec(g, m)}
<1>4. 0 \in S
  <2>1. [i \in 0..0 |-> queue] \in [0..0 -> V] /\ Rec([i \in 0..0 |-> queue], 0)
    BY <1>1
  <2>. QED  BY <2>1
<1>5. ASSUME NEW m \in Nat, m \in S
      PROVE  m+1 \in S
  <2> SUFFICES ASSUME m+1 <= n PROVE \E g \in [0..(m+1) -> V] : Rec(g, m+1)
    OBVIOUS
  <2>1. PICK g \in [0..m -> V] : Rec(g, m)
    BY <1>1, <1>5
  <2> DEFINE h == [i \in 0..(m+1) |-> IF i = m+1 THEN Step(g[m], m+1) ELSE g[i]]
  <2>2. Step(g[m], m+1) \in V
    BY <1>1, <1>2
  <2>3. h \in [0..(m+1) -> V] /\ h[0] = queue
    BY <2>1, <2>2
  <2>4. ASSUME NEW i \in 1..(m+1)
        PROVE  h[i] = Step(h[i-1], i)
    <3>1. CASE i = m+1
      BY <3>1
    <3>2. CASE i # m+1
      <4>1. i \in 1..m /\ i-1 \in 0..(m+1) /\ i-1 # m+1 /\ i \in 0..(m+1)
        BY <3>2
      <4>2. h[i] = g[i] /\ h[i-1] = g[i-1]
        BY <4>1, <3>2
      <4>. QED  BY <4>1, <4>2, <2>1
    <3>. QED  BY <3>1, <3>2
  <2>. QED  BY <2>3, <2>4
<1>6. n \in S
  <2> HIDE DEF S
  <2>. QED  BY <1>1, <1>4, <1>5, NatSetInduction
<1>7. PICK g \in [0..n -> V] : Rec(g, n)
  BY <1>1, <1>6
<1>8. Eqn(g)
  <2>1. \A i \in 0..n : g[i] = IF i = 0 THEN queue ELSE Step(g[i-1], i)
    BY <1>1, <1>7
  <2>. QED  BY <2>1
<1> DEFINE J == CHOOSE p : Eqn(p)
<1>9. Eqn(J)
  <2> HIDE DEF Eqn
  <2>. QED  BY <1>8
<1> HIDE DEF J
<1>10. J[0] = queue /\ \A i \in 1..n : J[i] = Step(J[i-1], i)
  BY <1>1, <1>9
<1>11. J = g
  <2> DEFINE U == {i \in Nat : i <= n => J[i] = g[i]}
  <2>1. 0 \in U
    BY <1>7, <1>10
  <2>2. \A i \in Nat : i \in U => i+1 \in U
    <3> SUFFICES ASSUME NEW i \in Nat, i \in U, i+1 <= n PROVE J[i+1] = g[i+1]
      OBVIOUS
    <3>1. i+1 \in 1..n /\ (i+1)-1 = i /\ i <= n
      BY <1>1
    <3>. QED  BY <3>1, <1>7, <1>10
  <2>3. Nat \subseteq U
    <3> HIDE DEF U
    <3>. QED  BY <2>1, <2>2, NatSetInduction
  <2>4. \A i \in 0..n : J[i] = g[i]
    BY <2>3, <1>1
  <2>5. J = [i \in 0..n |-> J[i]]
    BY <1>9
  <2>. QED  BY <2>4, <2>5
<1>. QED  BY <1>3, <1>7, <1>11 DEF J, V, n, Step

(* The queue of download requests is one, after jobs have joined it.       *)
LEMMA JoinedType ==
  ASSUME NEW queue \in Seq(Jobs), NEW P \in SUBSET Jobs
  PROVE  Joined(queue, P) \in Seq(Jobs)
BY JoinedDef, PoolAssumption

(* Jobs that were not in the queue join it once each.                      *)
LEMMA JoinedSet ==
  ASSUME NEW queue \in Seq(Jobs), NEW P \in SUBSET Jobs,
         Distinct(queue), P \cap ToSet(queue) = {}
  PROVE  /\ Distinct(Joined(queue, P))
         /\ ToSet(Joined(queue, P)) = ToSet(queue) \cup P
<1>1. PICK g \in [0..NumJobs -> Seq(Jobs)] :
        /\ g[0] = queue
        /\ \A i \in 1..NumJobs : g[i] = IF i \in P THEN Append(g[i-1], i) ELSE g[i-1]
        /\ Joined(queue, P) = g[NumJobs]
  BY JoinedDef
<1> DEFINE Upto(i) == {k \in P : k <= i}
           Good(i) == Distinct(g[i]) /\ ToSet(g[i]) = ToSet(queue) \cup Upto(i)
           G == {i \in Nat : i <= NumJobs => Good(i)}
<1>2. NumJobs \in Nat /\ \A k \in P : k \in Nat /\ 1 <= k /\ k <= NumJobs
  <2>1. \A k \in P : k \in 1..NumJobs
    BY DEF Jobs
  <2>. QED  BY <2>1, PoolAssumption
<1>3. 0 \in G
  <2>1. Upto(0) = {}
    BY <1>2
  <2>. QED  BY <1>1, <2>1
<1>4. ASSUME NEW i \in Nat, i \in G PROVE i+1 \in G
  <2> SUFFICES ASSUME i+1 <= NumJobs PROVE Good(i+1)
    OBVIOUS
  <2>1. /\ i+1 \in 1..NumJobs /\ (i+1)-1 = i /\ i \in 0..NumJobs /\ i+1 \in Jobs
    BY <1>2 DEF Jobs
  <2>2. Good(i) /\ g[i] \in Seq(Jobs)
    BY <1>1, <1>4, <2>1
  <2>3. CASE i+1 \in P
    <3>1. Upto(i+1) = Upto(i) \cup {i+1} /\ i+1 \notin Upto(i)
      BY <1>2, <2>3
    <3>2. g[i+1] = Append(g[i], i+1)
      BY <1>1, <2>1, <2>3
    <3>3. i+1 \notin ToSet(g[i])
      BY <2>2, <2>3, <3>1
    <3>4. Distinct(Append(g[i], i+1)) /\ ToSet(Append(g[i], i+1)) = ToSet(g[i]) \cup {i+1}
      BY <2>1, <2>2, <3>3, AppendToSet
    <3>. QED  BY <2>2, <3>1, <3>2, <3>4
  <2>4. CASE i+1 \notin P
    <3>1. Upto(i+1) = Upto(i)
      BY <1>2, <2>4
    <3>2. g[i+1] = g[i]
      BY <1>1, <2>1, <2>4
    <3>. QED  BY <2>2, <3>1, <3>2
  <2>. QED  BY <2>3, <2>4
<1>5. Good(NumJobs)
  <2>1. Nat \subseteq G
    <3> HIDE DEF G
    <3>. QED  BY <1>3, <1>4, NatSetInduction
  <2> HIDE DEF Good
  <2>. QED  BY <2>1, <1>2
<1>6. Upto(NumJobs) = P
  BY <1>2
<1>. QED  BY <1>1, <1>5, <1>6

(* The first m entries of a queue without duplicates are m jobs, which the *)
(* rest of it does not hold.                                               *)
LEMMA PrefixOfDistinct ==
  ASSUME NEW queue \in Seq(Jobs), Distinct(queue), NEW m \in 0..Len(queue)
  PROVE  LET first == SubSeq(queue, 1, m)
             later == SubSeq(queue, m+1, Len(queue))
         IN  /\ first \in Seq(Jobs) /\ Len(first) = m /\ later \in Seq(Jobs)
             /\ Cardinality(ToSet(first)) = m
             /\ IsFiniteSet(ToSet(first))
             /\ ToSet(later) = ToSet(queue) \ ToSet(first)
             /\ ToSet(first) \subseteq ToSet(queue)
             /\ Distinct(later)
             /\ later # <<>> => m < Len(queue)
<1> DEFINE n == Len(queue)
           first == SubSeq(queue, 1, m)
           later == SubSeq(queue, m+1, n)
<1>1. n \in Nat /\ m \in Nat /\ m <= n /\ \A i \in 1..n : queue[i] \in Jobs
  OBVIOUS
<1>2. /\ first \in Seq(Jobs) /\ Len(first) = m
      /\ \A i \in 1..m : first[i] = queue[i]
  <2>1. \A i \in 1..m : queue[i] \in Jobs
    BY <1>1
  <2>. QED  BY <1>1, <2>1, SubSeqProperties
<1>3. /\ later \in Seq(Jobs) /\ Len(later) = n - m
      /\ \A i \in 1..(n-m) : later[i] = queue[m+i]
  <2>1. \A i \in (m+1)..n : queue[i] \in Jobs
    BY <1>1
  <2>2. later \in Seq(Jobs)
    BY <1>1, <2>1, SubSeqProperties
  <2>3. Len(later) = n - m
    <3>1. CASE m = n
      BY <1>1, <3>1
    <3>2. CASE m < n
      BY <1>1, <3>2, SubSeqProperties
    <3>. QED  BY <1>1, <3>1, <3>2
  <2>4. ASSUME NEW i \in 1..(n-m) PROVE later[i] = queue[m+i]
    BY <1>1
  <2>. QED  BY <2>2, <2>3, <2>4
<1> HIDE DEF first, later
<1>4. ToSet(first) = {queue[i] : i \in 1..m}
  BY <1>2 DEF ToSet
<1>5. ToSet(later) = {queue[i] : i \in (m+1)..n}
  <2>1. ASSUME NEW x \in ToSet(later) PROVE x \in {queue[i] : i \in (m+1)..n}
    <3>1. PICK i \in 1..(n-m) : x = later[i]
      BY <1>3 DEF ToSet
    <3>2. m+i \in (m+1)..n
      BY <1>1
    <3>. QED  BY <1>3, <3>1, <3>2
  <2>2. ASSUME NEW i \in (m+1)..n PROVE queue[i] \in ToSet(later)
    <3>1. i - m \in 1..(n-m) /\ m + (i - m) = i
      BY <1>1
    <3>2. later[i-m] = queue[i]
      BY <1>3, <3>1
    <3>. QED  BY <1>3, <3>1, <3>2 DEF ToSet
  <2>. QED  BY <2>1, <2>2
<1>6. Cardinality(ToSet(first)) = m /\ IsFiniteSet(ToSet(first))
  <2> DEFINE f == [i \in 1..m |-> queue[i]]
  <2>1. f \in Bijection(1..m, ToSet(first))
    <3>1. f \in [1..m -> ToSet(first)]
      BY <1>4
    <3>2. \A a, b \in 1..m : f[a] = f[b] => a = b
      BY <1>1 DEF Distinct
    <3>3. \A x \in ToSet(first) : \E i \in 1..m : f[i] = x
      BY <1>4
    <3>. QED  BY <3>1, <3>2, <3>3, Fun_IsBij
  <2>2. ExistsBijection(1..m, ToSet(first))
    BY <2>1 DEF ExistsBijection
  <2>. QED  BY <1>1, <2>2, FS_CountingElements, FS_NatBijection
<1>7. ToSet(later) = ToSet(queue) \ ToSet(first)
  <2>1. ToSet(queue) = {queue[i] : i \in 1..n}
    BY DEF ToSet
  <2>2. 1..n = (1..m) \cup ((m+1)..n)
    BY <1>1
  <2>3. \A i \in 1..m : \A k \in (m+1)..n : queue[i] # queue[k]
    <3> SUFFICES ASSUME NEW i \in 1..m, NEW k \in (m+1)..n PROVE queue[i] # queue[k]
      OBVIOUS
    <3>1. i \in 1..Len(queue) /\ k \in 1..Len(queue) /\ i # k
      BY <1>1
    <3>. QED  BY <3>1 DEF Distinct
  <2>. QED  BY <1>4, <1>5, <2>1, <2>2, <2>3
<1>8. ToSet(first) \subseteq ToSet(queue)
  BY <1>1, <1>4 DEF ToSet
<1>9. Distinct(later)
  <2> SUFFICES ASSUME NEW a \in 1..Len(later), NEW b \in 1..Len(later), later[a] = later[b]
               PROVE  a = b
    BY DEF Distinct
  <2>1. /\ a \in 1..(n-m) /\ b \in 1..(n-m)
        /\ m+a \in 1..Len(queue) /\ m+b \in 1..Len(queue)
    BY <1>1, <1>3
  <2>2. queue[m+a] = queue[m+b]
    BY <1>3, <2>1
  <2>3. m+a = m+b
    BY <2>1, <2>2 DEF Distinct
  <2>. QED  BY <1>1, <2>1, <2>3
<1>10. later # <<>> => m < n
  BY <1>1, <1>3
<1>. QED  BY <1>2, <1>3, <1>6, <1>7, <1>8, <1>9, <1>10 DEF first, later, n

(* Granting slots leaves a set of holders and a queue.                     *)
LEMMA GrantType ==
  ASSUME NEW held \in SUBSET Jobs, NEW queue \in Seq(Jobs), download_slots \in Nat,
         GrantSlots(held, queue)
  PROVE  users' \subseteq Jobs /\ dl_queue' \in Seq(Jobs)
<1> DEFINE free == download_slots - Cardinality(held)
           m == IF free < Len(queue) THEN free ELSE Len(queue)
           granted == SubSeq(queue, 1, m)
<1>1. free \in Int
  <2>1. IsFiniteSet(held)
    <3>1. IsFiniteSet(Jobs)
      BY PoolAssumption, FS_Interval DEF Jobs
    <3>. QED  BY <3>1, FS_Subset
  <2>. QED  BY <2>1, FS_CardinalityType
<1>2. m \in Int /\ m <= Len(queue) /\ Len(queue) \in Nat
  BY <1>1
<1>3. granted = Granted(held, queue)
  BY DEF Granted
<1> HIDE DEF free, m
<1>4. \A i \in 1..Len(queue) : queue[i] \in Jobs
  OBVIOUS
<1>5. granted \in Seq(Jobs)
  <2>1. \A i \in 1..m : queue[i] \in Jobs
    BY <1>2, <1>4
  <2>. QED  BY <1>2, <2>1, SubSeqProperties
<1> HIDE DEF granted
<1>6. Len(granted) \in Nat
  BY <1>5
<1>7. SubSeq(queue, Len(granted) + 1, Len(queue)) \in Seq(Jobs)
  <2>1. \A i \in (Len(granted) + 1)..Len(queue) : queue[i] \in Jobs
    BY <1>2, <1>4, <1>6
  <2>. QED  BY <1>2, <1>6, <2>1, SubSeqProperties
<1>8. ToSet(granted) \subseteq Jobs
  BY <1>5 DEF ToSet
<1>. QED  BY <1>3, <1>7, <1>8 DEF GrantSlots

-----------------------------------------------------------------------------
StageOf(p) ==
  CASE p \in {"absent", "rejected", "queued"} -> {"outside"}
    [] p \in {"slot", "download"}             -> {"placed"}
    [] p = "burst"                            -> {"waiting", "woken"}
    [] p = "preprocess"                       -> {"holding"}
    [] OTHER                                  -> {"returned"}

RamOf(p, j) ==
  CASE p \in {"download", "burst"} -> DownloadRam[j]
    [] p = "preprocess"            -> Peak[j]
    [] p = "workhorse"             -> WorkhorseRam[j]
    [] p = "upload"                -> UploadRam[j]
    [] OTHER                       -> 0

On(ph) == {j \in Jobs : ph[j] \in OnNode}

(* The books of a node whose jobs stand at ph, with these slots and these  *)
(* sums: they balance, stay within the capacity, and each slot has the RAM *)
(* of its job's phase.                                                     *)
Books(ph, sram, ram, vcpu) ==
  /\ ph \in [Jobs -> Phases]
  /\ sram \in [Jobs -> Nat]
  /\ ram \in Nat /\ vcpu \in Nat
  /\ ram = Total(Of(On(ph), Soft), NumJobs)
  /\ vcpu = Total(Of(On(ph), Vcpu), NumJobs)
  /\ ram <= Effective /\ vcpu <= NodeVcpu
  /\ On(ph) # {} => Effective > 0
  /\ \A j \in Jobs : sram[j] = RamOf(ph[j], j)

Stands(ph) == \A j \in Jobs : at[j] \in StageOf(ph[j])

NodeIInv ==
  /\ PoolIInv
  /\ fixed /\ headroom = Reservation
  /\ state \in {"LAUNCHING", "READY", "IDLE"}
  /\ download_slots \in SlotChoices
  /\ users \subseteq Jobs /\ dl_queue \in Seq(Jobs)
  /\ Books(phase, slot_ram, allocated_ram, allocated_vcpu)
  /\ Stands(phase)

(* The capacities of the node and what jobs ask for are numbers.           *)
LEMMA Constants ==
  /\ NumJobs \in Nat
  /\ Soft \in [Jobs -> Nat] /\ Peak \in [Jobs -> Nat] /\ Vcpu \in [Jobs -> Nat]
  /\ DownloadRam \in [Jobs -> Nat] /\ WorkhorseRam \in [Jobs -> Nat]
  /\ UploadRam \in [Jobs -> Nat] /\ Burst \in [Jobs -> Nat]
  /\ Reservation \in Nat /\ PhysicalRam \in Nat /\ Effective \in Nat /\ NodeVcpu \in Nat
<1>1. PhysicalRam \in Nat
  BY NodeAssumption DEF PhysicalRam
<1>2. Effective \in Nat
  BY <1>1, PoolAssumption DEF Effective
<1>. QED  BY <1>1, <1>2, PoolAssumption, NodeAssumption

(* What a set of jobs asks for is a number.                                *)
LEMMA OfType ==
  ASSUME NEW P, NEW A \in [Jobs -> Nat]
  PROVE  /\ Of(P, A) \in [1..NumJobs -> Nat]
         /\ Of(P, A) \in [1..NumJobs -> Int]
         /\ Total(Of(P, A), NumJobs) \in Nat
<1>1. Of(P, A) \in [1..NumJobs -> Nat] /\ Of(P, A) \in [1..NumJobs -> Int]
  BY DEF Of, Jobs
<1>. QED  BY <1>1, TotalNat, Constants

(* Disjoint sets of jobs ask for the sum of what each asks for.            *)
LEMMA OfUnion ==
  ASSUME NEW P \in SUBSET Jobs, NEW Q \in SUBSET Jobs, P \cap Q = {}, NEW A \in [Jobs -> Nat]
  PROVE  Total(Of(P \cup Q, A), NumJobs) = Total(Of(P, A), NumJobs) + Total(Of(Q, A), NumJobs)
<1>1. /\ Of(P, A) \in [1..NumJobs -> Int]
      /\ Of(Q, A) \in [1..NumJobs -> Int]
      /\ Of(P \cup Q, A) \in [1..NumJobs -> Int]
  BY OfType
<1>2. \A k \in 1..NumJobs : Of(P \cup Q, A)[k] = Of(P, A)[k] + Of(Q, A)[k]
  BY DEF Of, Jobs
<1>. QED  BY <1>1, <1>2, Constants, TotalAdd

(* A placement that fits job by job fits as a whole.                       *)
LEMMA PlacesWithin ==
  ASSUME NEW queue \in SUBSET Jobs, NEW P \in SUBSET queue,
         NEW ram \in Nat, NEW vcpu \in Nat, NEW st,
         ram <= Effective, vcpu <= NodeVcpu,
         Places(queue, P, ram, vcpu, st)
  PROVE  /\ ram + Total(Of(P, Soft), NumJobs) <= Effective
         /\ vcpu + Total(Of(P, Vcpu), NumJobs) <= NodeVcpu
         /\ P # {} => Effective > 0
<1>1. \A j \in P : /\ Effective > 0
                   /\ ram + Before(P, j, Soft) + Soft[j] <= Effective
                   /\ vcpu + Before(P, j, Vcpu) + Vcpu[j] <= NodeVcpu
  BY DEF Places, FitsNode
<1>2. ASSUME NEW A \in [Jobs -> Nat], NEW used \in Nat, NEW cap \in Nat, used <= cap,
             \A j \in P : used + Before(P, j, A) + A[j] <= cap
      PROVE  used + Total(Of(P, A), NumJobs) <= cap
  <2> DEFINE F == Partial(Of(P, A), NumJobs)
             U == {i \in Nat : i <= NumJobs => used + F[i] <= cap}
  <2>1. /\ F \in [0..NumJobs -> Int]
        /\ F[0] = 0
        /\ \A k \in 1..NumJobs : F[k] = F[k-1] + Of(P, A)[k]
    BY OfType, Constants, PartialDef
  <2>2. \A j \in P : F[j-1] = Before(P, j, A)
    BY DEF Before
  <2> HIDE DEF F
  <2>3. 0 \in U
    BY <2>1, <1>2
  <2>4. \A i \in Nat : i \in U => i+1 \in U
    <3> SUFFICES ASSUME NEW i \in Nat, i \in U, i+1 <= NumJobs PROVE used + F[i+1] <= cap
      OBVIOUS
    <3>1. /\ i+1 \in 1..NumJobs /\ (i+1)-1 = i /\ i \in 0..NumJobs /\ i <= NumJobs
          /\ i+1 \in Jobs
      BY Constants DEF Jobs
    <3>2. F[i+1] = F[i] + Of(P, A)[i+1] /\ F[i] \in Int /\ used + F[i] <= cap
      BY <2>1, <3>1
    <3>3. CASE i+1 \in P
      <4>1. used + F[i] + A[i+1] <= cap
        BY <1>2, <2>2, <3>1, <3>3
      <4>2. Of(P, A)[i+1] = A[i+1]
        BY <3>1, <3>3 DEF Of
      <4>3. A[i+1] \in Nat
        BY <3>1
      <4>. QED  BY <3>2, <4>1, <4>2, <4>3
    <3>4. CASE i+1 \notin P
      <4>1. Of(P, A)[i+1] = 0
        BY <3>1, <3>4 DEF Of
      <4>. QED  BY <3>2, <4>1
    <3>. QED  BY <3>3, <3>4
  <2>5. Nat \subseteq U
    <3> HIDE DEF U
    <3>. QED  BY <2>3, <2>4, NatSetInduction
  <2>. QED  BY <2>5, Constants DEF Total, F
<1>3. \A j \in P : /\ Before(P, j, Soft) \in Int
                   /\ Before(P, j, Vcpu) \in Int
  <2> SUFFICES ASSUME NEW j \in P PROVE Before(P, j, Soft) \in Int /\ Before(P, j, Vcpu) \in Int
    OBVIOUS
  <2>1. j-1 \in 0..NumJobs
    BY Constants DEF Jobs
  <2>2. /\ Partial(Of(P, Soft), NumJobs) \in [0..NumJobs -> Int]
        /\ Partial(Of(P, Vcpu), NumJobs) \in [0..NumJobs -> Int]
    BY OfType, Constants, PartialDef
  <2>. QED  BY <2>1, <2>2 DEF Before
<1>4. ram + Total(Of(P, Soft), NumJobs) <= Effective
  BY <1>1, <1>2, Constants
<1>5. vcpu + Total(Of(P, Vcpu), NumJobs) <= NodeVcpu
  BY <1>1, <1>2, Constants
<1>. QED  BY <1>1, <1>4, <1>5

-----------------------------------------------------------------------------
(* Placing jobs moves no claim and no waiter.                              *)
LEMMA PlacementKeepsPool ==
  ASSUME PoolIInv, NEW P \in SUBSET Jobs, \A j \in P : at[j] = "outside",
         at' = [j \in Jobs |-> IF j \in P THEN "placed" ELSE at[j]],
         UNCHANGED <<fixed, headroom, in_use, waiters>>
  PROVE  PoolIInv'
<1>1. PoolTypeOK
  BY DEF PoolIInv
<1>2. PoolTypeOK'
  BY <1>1 DEF PoolTypeOK, Stages
<1>3. Claim' = Claim
  BY <1>1 DEF Claim, PoolTypeOK
<1>4. {k \in Jobs : at'[k] = "waiting"} = {k \in Jobs : at[k] = "waiting"}
  OBVIOUS
<1>5. ClaimsWithinHeadroom'
  BY <1>3 DEF PoolIInv, ClaimsWithinHeadroom
<1>. QED  BY <1>2, <1>4, <1>5 DEF PoolIInv, ToSet, Distinct, Fits

(* What _try_schedule does to consistent books: it keeps them so.          *)
LEMMA ScheduleSafe ==
  ASSUME PoolIInv, UNCHANGED <<fixed, headroom, in_use, waiters>>,
         users \subseteq Jobs, dl_queue \in Seq(Jobs), download_slots \in SlotChoices,
         NEW ph, NEW sram, NEW ram, NEW vcpu, NEW st,
         Books(ph, sram, ram, vcpu), Stands(ph),
         TrySchedule(ph, sram, ram, vcpu, st)
  PROVE  /\ Books(phase', slot_ram', allocated_ram', allocated_vcpu')
         /\ Stands(phase)'
         /\ PoolIInv'
         /\ users' \subseteq Jobs /\ dl_queue' \in Seq(Jobs)
         /\ \E P \in SUBSET {j \in Jobs : ph[j] = "queued"}, q \in {"slot", "download"} :
              /\ at' = [j \in Jobs |-> IF j \in P THEN "placed" ELSE at[j]]
              /\ phase' = [j \in Jobs |-> IF j \in P THEN q ELSE ph[j]]
<1> DEFINE queue == {j \in Jobs : ph[j] = "queued"}
<1>1. PICK P \in SUBSET queue :
    /\ Places(queue, P, ram, vcpu, st)
    /\ allocated_ram' = ram + Total(Of(P, Soft), NumJobs)
    /\ allocated_vcpu' = vcpu + Total(Of(P, Vcpu), NumJobs)
    /\ at' = [j \in Jobs |-> IF j \in P THEN "placed" ELSE at[j]]
    /\ IF download_slots = 0
       THEN /\ phase' = [j \in Jobs |-> IF j \in P THEN "download" ELSE ph[j]]
            /\ slot_ram' = [j \in Jobs |-> IF j \in P THEN DownloadRam[j] ELSE sram[j]]
            /\ UNCHANGED <<users, dl_queue>>
       ELSE /\ phase' = [j \in Jobs |-> IF j \in P THEN "slot" ELSE ph[j]]
            /\ slot_ram' = sram
            /\ GrantSlots(users, Joined(dl_queue, P))
  BY DEF TrySchedule
<1>2. PICK q \in {"slot", "download"} :
        /\ phase' = [j \in Jobs |-> IF j \in P THEN q ELSE ph[j]]
        /\ slot_ram' = [j \in Jobs |-> IF j \in P /\ q = "download"
                                       THEN DownloadRam[j] ELSE sram[j]]
  <2>1. sram = [j \in Jobs |-> sram[j]]
    BY DEF Books
  <2>2. CASE download_slots = 0
    BY <1>1, <2>2
  <2>3. CASE download_slots # 0
    BY <1>1, <2>1, <2>3
  <2>. QED  BY <2>2, <2>3
<1>3. users' \subseteq Jobs /\ dl_queue' \in Seq(Jobs)
  <2>1. CASE download_slots = 0
    BY <1>1, <2>1
  <2>2. CASE download_slots # 0
    <3>1. Joined(dl_queue, P) \in Seq(Jobs)
      BY JoinedType
    <3>2. GrantSlots(users, Joined(dl_queue, P))
      BY <1>1, <2>2
    <3>3. download_slots \in Nat
      BY NodeAssumption
    <3> HIDE <1>1
    <3>. QED  BY <3>1, <3>2, <3>3, GrantType
  <2>. QED  BY <2>1, <2>2
<1>4. /\ P \subseteq Jobs
      /\ \A j \in P : ph[j] = "queued" /\ at[j] = "outside"
  BY DEF Stands, StageOf
<1>5. PoolIInv'
  BY <1>1, <1>4, PlacementKeepsPool
<1>6. Stands(phase)'
  BY <1>1, <1>2, <1>4 DEF Stands, StageOf
<1>7. /\ phase' \in [Jobs -> Phases]
      /\ slot_ram' \in [Jobs -> Nat]
      /\ \A j \in Jobs : slot_ram'[j] = RamOf(phase'[j], j)
  <2>1. phase' \in [Jobs -> Phases]
    BY <1>2 DEF Books, Phases
  <2>2. slot_ram' \in [Jobs -> Nat]
    BY <1>2, Constants DEF Books
  <2>3. \A j \in Jobs : slot_ram'[j] = RamOf(phase'[j], j)
    BY <1>2, <1>4 DEF Books, RamOf
  <2>. QED  BY <2>1, <2>2, <2>3
<1>8. On(phase') = On(ph) \cup P /\ On(ph) \cap P = {} /\ On(ph) \subseteq Jobs
  BY <1>2, <1>4 DEF On, OnNode, InSlots
<1>9. /\ ram \in Nat /\ vcpu \in Nat
      /\ ram = Total(Of(On(ph), Soft), NumJobs)
      /\ vcpu = Total(Of(On(ph), Vcpu), NumJobs)
      /\ ram <= Effective /\ vcpu <= NodeVcpu /\ (On(ph) # {} => Effective > 0)
  BY DEF Books
<1>10. /\ allocated_ram' = Total(Of(On(phase'), Soft), NumJobs)
       /\ allocated_vcpu' = Total(Of(On(phase'), Vcpu), NumJobs)
  <2>1. Soft \in [Jobs -> Nat] /\ Vcpu \in [Jobs -> Nat]
    BY Constants
  <2>2. /\ Total(Of(On(ph) \cup P, Soft), NumJobs)
             = Total(Of(On(ph), Soft), NumJobs) + Total(Of(P, Soft), NumJobs)
        /\ Total(Of(On(ph) \cup P, Vcpu), NumJobs)
             = Total(Of(On(ph), Vcpu), NumJobs) + Total(Of(P, Vcpu), NumJobs)
    <3>1. On(ph) \in SUBSET Jobs /\ P \in SUBSET Jobs /\ On(ph) \cap P = {}
      BY <1>4, <1>8
    <3>. QED  BY <2>1, <3>1, OfUnion
  <2>. QED  BY <1>1, <1>8, <1>9, <2>2
<1>11. allocated_ram' \in Nat /\ allocated_vcpu' \in Nat
  <2>1. Soft \in [Jobs -> Nat] /\ Vcpu \in [Jobs -> Nat]
    BY Constants
  <2>2. Total(Of(P, Soft), NumJobs) \in Nat /\ Total(Of(P, Vcpu), NumJobs) \in Nat
    BY <2>1, OfType
  <2>. QED  BY <1>1, <1>9, <2>2
<1>12. allocated_ram' <= Effective /\ allocated_vcpu' <= NodeVcpu /\ (P # {} => Effective > 0)
  <2>1. queue \in SUBSET Jobs /\ Places(queue, P, ram, vcpu, st)
    BY <1>1
  <2> HIDE DEF queue
  <2>2. /\ ram + Total(Of(P, Soft), NumJobs) <= Effective
        /\ vcpu + Total(Of(P, Vcpu), NumJobs) <= NodeVcpu
        /\ P # {} => Effective > 0
    BY <2>1, <1>9, PlacesWithin
  <2>. QED  BY <1>1, <2>2
<1>13. On(phase') # {} => Effective > 0
  BY <1>8, <1>9, <1>12
<1>14. Books(phase', slot_ram', allocated_ram', allocated_vcpu')
  BY <1>7, <1>10, <1>11, <1>12, <1>13 DEF Books
<1>. QED  BY <1>1, <1>2, <1>3, <1>5, <1>6, <1>14

-----------------------------------------------------------------------------
(* A node that is launched has no jobs, and its books are empty.           *)
LEMMA NodeInitSafe ==
  Init => NodeIInv
<1> SUFFICES ASSUME Init PROVE NodeIInv
  OBVIOUS
<1>1. PoolIInv
  BY PoolInitSafe DEF Init
<1>2. /\ fixed /\ headroom = Reservation
      /\ phase = [j \in Jobs |-> "absent"]
      /\ slot_ram = [j \in Jobs |-> 0]
      /\ allocated_ram = 0 /\ allocated_vcpu = 0
      /\ at = [j \in Jobs |-> "outside"]
  BY DEF Init, PoolInit
<1>3. On(phase) = {}
  BY <1>2 DEF On, OnNode, InSlots
<1>4. Total(Of({}, Soft), NumJobs) = 0 /\ Total(Of({}, Vcpu), NumJobs) = 0
  <2>1. /\ Of({}, Soft) \in [1..NumJobs -> Int] /\ Of({}, Vcpu) \in [1..NumJobs -> Int]
        /\ \A k \in 1..NumJobs : Of({}, Soft)[k] = 0 /\ Of({}, Vcpu)[k] = 0
    BY DEF Of, Jobs
  <2>. QED  BY <2>1, Constants, TotalZero
<1>5. Books(phase, slot_ram, allocated_ram, allocated_vcpu)
  <2>1. phase \in [Jobs -> Phases] /\ slot_ram \in [Jobs -> Nat]
    BY <1>2 DEF Phases
  <2>2. \A j \in Jobs : slot_ram[j] = RamOf(phase[j], j)
    BY <1>2 DEF RamOf
  <2>3. 0 <= Effective /\ 0 <= NodeVcpu
    BY Constants
  <2>. QED  BY <1>2, <1>3, <1>4, <2>1, <2>2, <2>3 DEF Books
<1>6. Stands(phase)
  BY <1>2 DEF Stands, StageOf
<1>. QED  BY <1>1, <1>2, <1>5, <1>6 DEF NodeIInv, Init

(* The first placements, when the warm-up ends, keep the books.            *)
LEMMA NodeReadySafe ==
  ASSUME NodeIInv, NodeReady
  PROVE  NodeIInv'
<1>1. /\ Books(phase', slot_ram', allocated_ram', allocated_vcpu')
      /\ Stands(phase)' /\ PoolIInv' /\ users' \subseteq Jobs /\ dl_queue' \in Seq(Jobs)
  BY ScheduleSafe DEF NodeIInv, NodeReady, rest
<1>. QED  BY <1>1 DEF NodeIInv, NodeReady, rest, Books

(* An arrival touches no books: the job is not on the node yet.            *)
LEMMA ArriveSafe ==
  ASSUME NodeIInv, NEW j \in Jobs, Arrive(j)
  PROVE  NodeIInv'
<1>1. ASSUME NEW p \in {"queued", "rejected"}
      PROVE  /\ Books([phase EXCEPT ![j] = p], slot_ram, allocated_ram, allocated_vcpu)
             /\ Stands([phase EXCEPT ![j] = p])
  <2> DEFINE ph == [phase EXCEPT ![j] = p]
  <2>1. phase \in [Jobs -> Phases] /\ phase[j] = "absent"
    BY DEF NodeIInv, Books, Arrive
  <2>2. ph \in [Jobs -> Phases]
    BY <2>1 DEF Phases
  <2>3. On(ph) = On(phase)
    BY <2>1 DEF On, OnNode, InSlots
  <2>4. \A k \in Jobs : RamOf(ph[k], k) = RamOf(phase[k], k)
    BY <2>1 DEF RamOf
  <2>5. \A k \in Jobs : StageOf(ph[k]) = StageOf(phase[k])
    BY <2>1 DEF StageOf
  <2> HIDE DEF ph
  <2>6. Books(ph, slot_ram, allocated_ram, allocated_vcpu) /\ Stands(ph)
    BY <2>2, <2>3, <2>4, <2>5 DEF NodeIInv, Books, Stands
  <2>. QED  BY <2>6 DEF ph
<1>2. CASE Burst[j] > Reservation
  <2>1. /\ phase' = [phase EXCEPT ![j] = "rejected"]
        /\ UNCHANGED <<slot_ram, allocated_ram, allocated_vcpu, users, dl_queue, at>>
        /\ UNCHANGED <<state, rest>>
    BY <1>2 DEF Arrive
  <2>2. Books(phase', slot_ram', allocated_ram', allocated_vcpu') /\ Stands(phase)'
    BY <1>1, <2>1 DEF Stands
  <2>3. PoolIInv'
    <3>1. UNCHANGED poolVars
      BY <2>1 DEF poolVars, rest
    <3>. QED  BY <3>1, PoolStepSafe DEF NodeIInv
  <2>. QED  BY <2>1, <2>2, <2>3 DEF NodeIInv, rest, Books
<1>3. CASE ~(Burst[j] > Reservation)
  <2>1. /\ TrySchedule([phase EXCEPT ![j] = "queued"],
                       slot_ram, allocated_ram, allocated_vcpu, state)
        /\ UNCHANGED <<state, rest>>
    BY <1>3 DEF Arrive
  <2>2. /\ Books([phase EXCEPT ![j] = "queued"], slot_ram, allocated_ram, allocated_vcpu)
        /\ Stands([phase EXCEPT ![j] = "queued"])
    BY <1>1
  <2>3. /\ Books(phase', slot_ram', allocated_ram', allocated_vcpu')
        /\ Stands(phase)' /\ PoolIInv' /\ users' \subseteq Jobs /\ dl_queue' \in Seq(Jobs)
    BY <2>1, <2>2, ScheduleSafe DEF NodeIInv, rest
  <2>. QED  BY <2>1, <2>3 DEF NodeIInv, rest, Books
<1>. QED  BY <1>2, <1>3

(* A job that moves from one phase on the node to another keeps what is    *)
(* allocated for it.                                                       *)
LEMMA MoveKeepsBooks ==
  ASSUME NodeIInv, NEW j \in Jobs, NEW p \in OnNode, phase[j] \in OnNode,
         NEW r, r = RamOf(p, j), MoveTo(j, p, r)
  PROVE  /\ Books(phase', slot_ram', allocated_ram', allocated_vcpu')
         /\ phase' = [phase EXCEPT ![j] = p]
<1>1. /\ phase \in [Jobs -> Phases] /\ slot_ram \in [Jobs -> Nat]
      /\ phase' = [phase EXCEPT ![j] = p]
      /\ slot_ram' = [slot_ram EXCEPT ![j] = r]
      /\ UNCHANGED <<state, allocated_ram, allocated_vcpu, download_slots>>
  BY DEF NodeIInv, Books, MoveTo
<1>2. r \in Nat
  BY Constants DEF RamOf
<1>3. phase' \in [Jobs -> Phases] /\ slot_ram' \in [Jobs -> Nat]
  BY <1>1, <1>2 DEF OnNode, InSlots, Phases
<1>4. On(phase') = On(phase)
  BY <1>1 DEF On
<1>5. \A k \in Jobs : slot_ram'[k] = RamOf(phase'[k], k)
  BY <1>1 DEF NodeIInv, Books
<1>. QED  BY <1>1, <1>3, <1>4, <1>5 DEF NodeIInv, Books

(* The start of a download changes the slot alone.                         *)
LEMMA StartDownloadSafe ==
  ASSUME NodeIInv, NEW j \in Jobs, StartDownload(j)
  PROVE  NodeIInv'
<1>1. Books(phase', slot_ram', allocated_ram', allocated_vcpu')
      /\ phase' = [phase EXCEPT ![j] = "download"]
  BY MoveKeepsBooks DEF StartDownload, RamOf, OnNode, InSlots
<1>2. PoolIInv'
  BY PoolStepSafe DEF StartDownload, NodeIInv
<1>3. Stands(phase)'
  BY <1>1 DEF StartDownload, Stands, StageOf, NodeIInv, poolVars, Books
<1>. QED  BY <1>1, <1>2, <1>3 DEF NodeIInv, StartDownload, poolVars, MoveTo, Books

(* The end of a download: the job claims its burst, or waits for it.       *)
LEMMA EndDownloadSafe ==
  ASSUME NodeIInv, NEW j \in Jobs, EndDownload(j)
  PROVE  NodeIInv'
<1>1. PoolIInv'
  BY AcquireSafe DEF EndDownload, NodeIInv
<1>2. phase[j] = "download" /\ slot_ram[j] = DownloadRam[j] /\ at \in [Jobs -> Stages]
  BY DEF EndDownload, NodeIInv, Books, RamOf, PoolIInv, PoolTypeOK
<1>3. CASE Fits(in_use, j)
  <2>1. MoveTo(j, "preprocess", Peak[j])
    BY <1>3 DEF EndDownload
  <2>2. Books(phase', slot_ram', allocated_ram', allocated_vcpu')
        /\ phase' = [phase EXCEPT ![j] = "preprocess"]
    BY <1>2, <2>1, MoveKeepsBooks DEF RamOf, OnNode, InSlots
  <2>3. at' = [at EXCEPT ![j] = "holding"]
    BY <1>3 DEF EndDownload, Acquire
  <2>4. Stands(phase)'
    BY <1>2, <2>2, <2>3 DEF Stands, StageOf, NodeIInv, Books
  <2>. QED  BY <1>1, <2>1, <2>2, <2>4 DEF NodeIInv, EndDownload, Acquire, MoveTo, Books
<1>4. CASE ~Fits(in_use, j)
  <2>1. MoveTo(j, "burst", slot_ram[j])
    BY <1>4 DEF EndDownload
  <2>2. Books(phase', slot_ram', allocated_ram', allocated_vcpu')
        /\ phase' = [phase EXCEPT ![j] = "burst"]
    BY <1>2, <2>1, MoveKeepsBooks DEF RamOf, OnNode, InSlots
  <2>3. at' = [at EXCEPT ![j] = "waiting"]
    BY <1>4 DEF EndDownload, Acquire
  <2>4. Stands(phase)'
    BY <1>2, <2>2, <2>3 DEF Stands, StageOf, NodeIInv, Books
  <2>. QED  BY <1>1, <2>1, <2>2, <2>4 DEF NodeIInv, EndDownload, Acquire, MoveTo, Books
<1>. QED  BY <1>3, <1>4

(* A woken job starts to preprocess with the claim release made for it.    *)
LEMMA StartPreprocessSafe ==
  ASSUME NodeIInv, NEW j \in Jobs, StartPreprocess(j)
  PROVE  NodeIInv'
<1>1. PoolIInv'
  BY ResumeSafe DEF StartPreprocess, NodeIInv
<1>2. Books(phase', slot_ram', allocated_ram', allocated_vcpu')
      /\ phase' = [phase EXCEPT ![j] = "preprocess"]
  BY MoveKeepsBooks DEF StartPreprocess, RamOf, OnNode, InSlots
<1>3. Stands(phase)'
  BY <1>2 DEF StartPreprocess, Resume, Stands, StageOf, NodeIInv, Books, PoolIInv, PoolTypeOK
<1>. QED  BY <1>1, <1>2, <1>3 DEF NodeIInv, StartPreprocess, Resume, MoveTo, Books

(* The end of preprocessing: the burst and the download slot go back.      *)
LEMMA EndPreprocessSafe ==
  ASSUME NodeIInv, NEW j \in Jobs, EndPreprocess(j)
  PROVE  NodeIInv'
<1>1. PoolIInv /\ Release(j) /\ PoolIInv'
  BY ReleaseSafe DEF EndPreprocess, NodeIInv
<1>2. Books(phase', slot_ram', allocated_ram', allocated_vcpu')
      /\ phase' = [phase EXCEPT ![j] = "workhorse"]
  BY MoveKeepsBooks DEF EndPreprocess, RamOf, OnNode, InSlots
<1>3. PICK woken \in SUBSET ToSet(waiters) :
        at' = [k \in Jobs |-> IF k = j THEN "returned"
                              ELSE IF k \in woken THEN "woken" ELSE at[k]]
  BY <1>1, ReleaseEffect
<1>4. \A k \in woken : at[k] = "waiting"
  BY DEF NodeIInv, PoolIInv
<1>5. Stands(phase)'
  <2> SUFFICES ASSUME NEW k \in Jobs PROVE at'[k] \in StageOf(phase'[k])
    BY DEF Stands
  <2>1. at[k] \in StageOf(phase[k]) /\ phase \in [Jobs -> Phases]
    BY DEF NodeIInv, Stands, Books
  <2>2. CASE k = j
    BY <1>2, <1>3, <2>1, <2>2 DEF StageOf
  <2>3. CASE k # j /\ k \in woken
    BY <1>2, <1>3, <1>4, <2>1, <2>3 DEF StageOf
  <2>4. CASE k # j /\ k \notin woken
    BY <1>2, <1>3, <2>1, <2>4
  <2>. QED  BY <2>2, <2>3, <2>4
<1>6. users' \subseteq Jobs /\ dl_queue' \in Seq(Jobs)
  <2>1. /\ users \ {j} \in SUBSET Jobs /\ dl_queue \in Seq(Jobs)
        /\ download_slots \in Nat /\ GrantSlots(users \ {j}, dl_queue)
    BY NodeAssumption DEF NodeIInv, EndPreprocess
  <2>. QED  BY <2>1, GrantType
<1>7. UNCHANGED <<fixed, headroom>>
  BY <1>1 DEF Release
<1>8. UNCHANGED <<state, download_slots>>
  BY DEF EndPreprocess, MoveTo
<1>9. /\ fixed' /\ headroom' = Reservation
      /\ state' \in {"LAUNCHING", "READY", "IDLE"}
      /\ download_slots' \in SlotChoices
  BY <1>7, <1>8 DEF NodeIInv
<1>10. Books(phase, slot_ram, allocated_ram, allocated_vcpu)'
  BY <1>2 DEF Books
<1>. QED  BY <1>1, <1>5, <1>6, <1>9, <1>10 DEF NodeIInv

(* The end of the workhorse phase changes the slot alone.                  *)
LEMMA EndWorkhorseSafe ==
  ASSUME NodeIInv, NEW j \in Jobs, EndWorkhorse(j)
  PROVE  NodeIInv'
<1>1. Books(phase', slot_ram', allocated_ram', allocated_vcpu')
      /\ phase' = [phase EXCEPT ![j] = "upload"]
  BY MoveKeepsBooks DEF EndWorkhorse, RamOf, OnNode, InSlots
<1>2. PoolIInv'
  BY PoolStepSafe DEF EndWorkhorse, NodeIInv
<1>3. Stands(phase)'
  BY <1>1 DEF EndWorkhorse, Stands, StageOf, NodeIInv, poolVars, Books
<1>. QED  BY <1>1, <1>2, <1>3 DEF NodeIInv, EndWorkhorse, poolVars, MoveTo, Books

(* One job asks for what it asks for.                                      *)
LEMMA OfOne ==
  ASSUME NEW j \in Jobs, NEW A \in [Jobs -> Nat]
  PROVE  Total(Of({j}, A), NumJobs) = A[j]
<1> DEFINE z == [k \in 1..NumJobs |-> 0]
<1>1. NumJobs \in Nat /\ j \in 1..NumJobs
  BY Constants DEF Jobs
<1>2. z \in [1..NumJobs -> Int] /\ z[j] = 0 /\ \A k \in 1..NumJobs : z[k] = 0
  BY <1>1
<1>3. Of({j}, A) \in [1..NumJobs -> Int]
  BY OfType
<1>4. Of({j}, A)[j] = A[j] /\ A[j] \in Nat
  BY DEF Of
<1>5. \A k \in 1..NumJobs : k # j => Of({j}, A)[k] = z[k]
  BY DEF Of, Jobs
<1> HIDE DEF z
<1>6. Total(z, NumJobs) = 0
  BY <1>1, <1>2, TotalZero
<1>7. Total(Of({j}, A), NumJobs) = Total(z, NumJobs) + (Of({j}, A)[j] - z[j])
  BY <1>1, <1>2, <1>3, <1>5, TotalChange
<1>. QED  BY <1>2, <1>4, <1>6, <1>7

(* A job that leaves takes its request off the sum; the clamp at zero in   *)
(* on_job_complete never bites.                                            *)
LEMMA LeaveTotals ==
  ASSUME NEW P \in SUBSET Jobs, NEW j \in P, NEW A \in [Jobs -> Nat]
  PROVE  /\ Less(Total(Of(P, A), NumJobs), A[j]) = Total(Of(P \ {j}, A), NumJobs)
         /\ Total(Of(P \ {j}, A), NumJobs) \in Nat
         /\ Total(Of(P \ {j}, A), NumJobs) <= Total(Of(P, A), NumJobs)
<1> DEFINE R == P \ {j}
<1>1. R \in SUBSET Jobs /\ {j} \in SUBSET Jobs /\ R \cap {j} = {} /\ P = R \cup {j}
  OBVIOUS
<1> HIDE DEF R
<1>2. Total(Of(P, A), NumJobs) = Total(Of(R, A), NumJobs) + Total(Of({j}, A), NumJobs)
  BY <1>1, OfUnion
<1>3. Total(Of({j}, A), NumJobs) = A[j] /\ A[j] \in Nat
  BY OfOne
<1>4. Total(Of(R, A), NumJobs) \in Nat
  BY OfType
<1>5. /\ Less(Total(Of(P, A), NumJobs), A[j]) = Total(Of(R, A), NumJobs)
      /\ Total(Of(R, A), NumJobs) <= Total(Of(P, A), NumJobs)
  BY <1>2, <1>3, <1>4 DEF Less
<1>. QED  BY <1>4, <1>5 DEF R

(* A completion gives the request back, and places jobs from the queue.    *)
LEMMA EndUploadSafe ==
  ASSUME NodeIInv, NEW j \in Jobs, EndUpload(j)
  PROVE  NodeIInv'
<1> DEFINE ph == [phase EXCEPT ![j] = "done"]
           sram == [slot_ram EXCEPT ![j] = 0]
           ram == Less(allocated_ram, Soft[j])
           vcpu == Less(allocated_vcpu, Vcpu[j])
           st == IF \E k \in Jobs \ {j} : phase[k] \in InSlots THEN state ELSE "IDLE"
<1>1. /\ phase[j] = "upload" /\ state' = st
      /\ TrySchedule(ph, sram, ram, vcpu, st)
      /\ UNCHANGED rest
  BY DEF EndUpload
<1>2. /\ phase \in [Jobs -> Phases] /\ slot_ram \in [Jobs -> Nat]
      /\ allocated_ram = Total(Of(On(phase), Soft), NumJobs)
      /\ allocated_vcpu = Total(Of(On(phase), Vcpu), NumJobs)
      /\ allocated_ram <= Effective /\ allocated_vcpu <= NodeVcpu
      /\ On(phase) # {} => Effective > 0
      /\ \A k \in Jobs : slot_ram[k] = RamOf(phase[k], k)
  BY DEF NodeIInv, Books
<1>3. /\ On(phase) \in SUBSET Jobs /\ j \in On(phase)
      /\ On(ph) = On(phase) \ {j}
  BY <1>1, <1>2 DEF On, OnNode, InSlots
<1>4. ph \in [Jobs -> Phases] /\ sram \in [Jobs -> Nat]
  BY <1>2 DEF Phases
<1>5. \A k \in Jobs : sram[k] = RamOf(ph[k], k)
  BY <1>2 DEF RamOf
<1>6. /\ ram = Total(Of(On(ph), Soft), NumJobs)
      /\ ram \in Nat /\ ram <= allocated_ram
  <2> DEFINE P == On(phase)
  <2> HIDE DEF P, ph
  <2>1. P \in SUBSET Jobs /\ j \in P /\ Soft \in [Jobs -> Nat]
    BY <1>3, Constants DEF P
  <2>2. /\ Less(Total(Of(P, Soft), NumJobs), Soft[j]) = Total(Of(P \ {j}, Soft), NumJobs)
        /\ Total(Of(P \ {j}, Soft), NumJobs) \in Nat
        /\ Total(Of(P \ {j}, Soft), NumJobs) <= Total(Of(P, Soft), NumJobs)
    BY <2>1, LeaveTotals
  <2>. QED  BY <1>2, <1>3, <2>2 DEF P
<1>7. /\ vcpu = Total(Of(On(ph), Vcpu), NumJobs)
      /\ vcpu \in Nat /\ vcpu <= allocated_vcpu
  <2> DEFINE P == On(phase)
  <2> HIDE DEF P, ph
  <2>1. P \in SUBSET Jobs /\ j \in P /\ Vcpu \in [Jobs -> Nat]
    BY <1>3, Constants DEF P
  <2>2. /\ Less(Total(Of(P, Vcpu), NumJobs), Vcpu[j]) = Total(Of(P \ {j}, Vcpu), NumJobs)
        /\ Total(Of(P \ {j}, Vcpu), NumJobs) \in Nat
        /\ Total(Of(P \ {j}, Vcpu), NumJobs) <= Total(Of(P, Vcpu), NumJobs)
    BY <2>1, LeaveTotals
  <2>. QED  BY <1>2, <1>3, <2>2 DEF P
<1>8. Stands(ph)
  BY <1>1, <1>2 DEF NodeIInv, Stands, StageOf
<1>9. st \in {"LAUNCHING", "READY", "IDLE"}
  BY DEF NodeIInv
<1> HIDE DEF ph, sram, ram, vcpu, st
<1>10. ram <= Effective /\ vcpu <= NodeVcpu /\ (On(ph) # {} => Effective > 0)
  <2>1. allocated_ram \in Nat /\ allocated_vcpu \in Nat
    BY DEF NodeIInv, Books
  <2>. QED  BY <1>2, <1>3, <1>6, <1>7, <2>1, Constants
<1>11. Books(ph, sram, ram, vcpu)
  BY <1>4, <1>5, <1>6, <1>7, <1>10 DEF Books
<1>12. /\ PoolIInv /\ UNCHANGED <<fixed, headroom, in_use, waiters>>
       /\ users \subseteq Jobs /\ dl_queue \in Seq(Jobs) /\ download_slots \in SlotChoices
  BY <1>1 DEF NodeIInv, rest
<1>13. /\ Books(phase', slot_ram', allocated_ram', allocated_vcpu')
       /\ Stands(phase)' /\ PoolIInv' /\ users' \subseteq Jobs /\ dl_queue' \in Seq(Jobs)
  BY <1>1, <1>8, <1>11, <1>12, ScheduleSafe
<1>. QED  BY <1>1, <1>9, <1>13 DEF NodeIInv, rest, Books

-----------------------------------------------------------------------------
(* Every step of a job process keeps the inductive invariant.              *)
LEMMA JobStepSafe ==
  ASSUME NodeIInv, NEW j \in Jobs, JobStep(j)
  PROVE  NodeIInv'
<1>1. CASE StartDownload(j)    BY <1>1, StartDownloadSafe
<1>2. CASE EndDownload(j)      BY <1>2, EndDownloadSafe
<1>3. CASE StartPreprocess(j)  BY <1>3, StartPreprocessSafe
<1>4. CASE EndPreprocess(j)    BY <1>4, EndPreprocessSafe
<1>5. CASE EndWorkhorse(j)     BY <1>5, EndWorkhorseSafe
<1>6. CASE EndUpload(j)        BY <1>6, EndUploadSafe
<1>. QED  BY <1>1, <1>2, <1>3, <1>4, <1>5, <1>6 DEF JobStep

(* So does a step that changes nothing.                                    *)
LEMMA NodeStutterSafe ==
  ASSUME NodeIInv, UNCHANGED vars
  PROVE  NodeIInv'
<1>1. UNCHANGED poolVars /\ UNCHANGED nodeVars
  BY DEF vars
<1>2. PoolIInv'
  BY <1>1, PoolStepSafe DEF NodeIInv
<1>3. Books(phase, slot_ram, allocated_ram, allocated_vcpu)' /\ Stands(phase)'
  BY <1>1 DEF nodeVars, poolVars, Books, Stands, NodeIInv
<1>. QED  BY <1>1, <1>2, <1>3 DEF NodeIInv, nodeVars, poolVars

(* Every step of the node keeps the inductive invariant.                   *)
LEMMA NodeStepSafe ==
  ASSUME NodeIInv, [Next]_vars
  PROVE  NodeIInv'
<1>1. CASE NodeReady
  BY <1>1, NodeReadySafe
<1>2. ASSUME NEW j \in Jobs, Arrive(j) PROVE NodeIInv'
  BY <1>2, ArriveSafe
<1>3. ASSUME NEW j \in Jobs, JobStep(j) PROVE NodeIInv'
  BY <1>3, JobStepSafe
<1>4. CASE UNCHANGED vars
  BY <1>4, NodeStutterSafe
<1>. QED  BY <1>1, <1>2, <1>3, <1>4 DEF Next

(* The inductive invariant holds throughout.                               *)
THEOREM NodeInvariant == Spec => []NodeIInv
<1>1. NodeIInv /\ [Next]_vars => NodeIInv'
  BY NodeStepSafe
<1>. QED  BY NodeInitSafe, <1>1, PTL DEF Spec

(* The variables keep their types, for any node and jobs: the books never  *)
(* turn negative.                                                          *)
THEOREM NodeTypes == Spec => []TypeOK
<1>1. NodeIInv => TypeOK
  BY DEF NodeIInv, PoolIInv, Books, TypeOK
<1>. QED  BY <1>1, NodeInvariant, PTL

(* allocated_ram_gb and allocated_vcpu are the sums over the hosted jobs,  *)
(* whatever order they are placed and complete in.                         *)
THEOREM NodeBooks == Spec => []AllocationBalanced
<1>1. NodeIInv => AllocationBalanced
  BY DEF NodeIInv, Books, AllocationBalanced, Placed, On
<1>. QED  BY <1>1, NodeInvariant, PTL

(* The pool of a node behaves as BurstPool proves of a pool of its own.    *)
THEOREM NodeClaims == Spec => []ClaimsWithinHeadroom
<1>1. NodeIInv => ClaimsWithinHeadroom
  BY DEF NodeIInv, PoolIInv
<1>. QED  BY <1>1, NodeInvariant, PTL

(* A job that waits for its burst on a node is woken when it fits.         *)
THEOREM NodeWakeups == Spec => []NoLostWakeup
<1>1. NodeIInv => NoLostWakeup
  BY DEF NodeIInv, PoolIInv, NoLostWakeup
<1>. QED  BY <1>1, NodeInvariant, PTL

-----------------------------------------------------------------------------
(* A job's slot uses no more than its request and its claim together.      *)
LEMMA SlotWithin ==
  ASSUME NodeIInv, WithinRequests, NEW j \in Jobs
  PROVE  slot_ram[j] <= Of(On(phase), Soft)[j] + Claim[j]
<1>1. /\ phase[j] \in Phases /\ slot_ram[j] = RamOf(phase[j], j)
      /\ at[j] \in StageOf(phase[j])
  BY DEF NodeIInv, Books, Stands
<1>2. /\ Soft[j] \in Nat /\ Peak[j] \in Nat /\ DownloadRam[j] \in Nat
      /\ WorkhorseRam[j] \in Nat /\ UploadRam[j] \in Nat /\ Burst[j] \in Nat
  BY Constants
<1>3. /\ DownloadRam[j] <= Soft[j] /\ WorkhorseRam[j] <= Soft[j] /\ UploadRam[j] <= Soft[j]
      /\ Peak[j] <= Soft[j] + Burst[j]
  <2>1. Burst[j] = IF Peak[j] > Soft[j] THEN Peak[j] - Soft[j] ELSE 0
    BY NodeAssumption
  <2>. QED  BY <1>2, <2>1 DEF WithinRequests
<1>4. Claim[j] \in Nat /\ (phase[j] = "preprocess" => Claim[j] = Burst[j])
  BY <1>1, <1>2 DEF Claim, StageOf
<1>5. CASE phase[j] \in OnNode
  <2>1. Of(On(phase), Soft)[j] = Soft[j]
    BY <1>5 DEF Of, On
  <2>2. slot_ram[j] <= Soft[j] + Claim[j]
    <3>1. CASE phase[j] = "slot"
      BY <1>1, <1>2, <1>4, <3>1 DEF RamOf
    <3>2. CASE phase[j] \in {"download", "burst"}
      BY <1>1, <1>2, <1>3, <1>4, <3>2 DEF RamOf
    <3>3. CASE phase[j] = "preprocess"
      BY <1>1, <1>2, <1>3, <1>4, <3>3 DEF RamOf
    <3>4. CASE phase[j] = "workhorse"
      BY <1>1, <1>2, <1>3, <1>4, <3>4 DEF RamOf
    <3>5. CASE phase[j] = "upload"
      BY <1>1, <1>2, <1>3, <1>4, <3>5 DEF RamOf
    <3>. QED  BY <1>5, <3>1, <3>2, <3>3, <3>4, <3>5 DEF OnNode, InSlots
  <2>. QED  BY <2>1, <2>2
<1>6. CASE phase[j] \notin OnNode
  <2>1. Of(On(phase), Soft)[j] = 0
    BY <1>6 DEF Of, On
  <2>2. slot_ram[j] = 0
    BY <1>1, <1>6 DEF RamOf, OnNode, InSlots
  <2>. QED  BY <2>1, <2>2, <1>4
<1>. QED  BY <1>5, <1>6

(* Consistent books leave room for every slot: requests fit the            *)
(* schedulable part, bursts the reservation.                               *)
LEMMA SlotsWithin ==
  ASSUME NodeIInv, WithinRequests
  PROVE  NoOverload
<1> DEFINE A == Of(On(phase), Soft)
           sum == [k \in 1..NumJobs |-> A[k] + Claim[k]]
<1>1. Soft \in [Jobs -> Nat] /\ PoolTypeOK /\ NumJobs \in Nat
  BY Constants DEF NodeIInv, PoolIInv
<1>2. A \in [1..NumJobs -> Int]
  BY <1>1, OfType
<1>3. Claim \in [1..NumJobs -> Int]
  BY <1>1, ClaimType
<1>4. /\ slot_ram \in [1..NumJobs -> Nat]
      /\ allocated_ram = Total(A, NumJobs) /\ allocated_ram \in Nat
      /\ allocated_ram <= Effective
      /\ in_use = Total(Claim, NumJobs) /\ in_use <= Reservation /\ in_use \in Nat
      /\ On(phase) # {} => Effective > 0
      /\ \A j \in Jobs : slot_ram[j] = RamOf(phase[j], j)
  BY DEF NodeIInv, PoolIInv, PoolTypeOK, Books, ClaimsWithinHeadroom, Jobs
<1>5. \A k \in 1..NumJobs : slot_ram[k] <= A[k] + Claim[k]
  BY SlotWithin DEF Jobs
<1>6. slot_ram \in [1..NumJobs -> Int]
  BY <1>4
<1>7. sum \in [1..NumJobs -> Int] /\ \A k \in 1..NumJobs : sum[k] = A[k] + Claim[k]
  BY <1>2, <1>3
<1> HIDE DEF A, sum
<1>8. Total(sum, NumJobs) = Total(A, NumJobs) + Total(Claim, NumJobs)
  BY <1>1, <1>2, <1>3, <1>7, TotalAdd
<1>9. Total(slot_ram, NumJobs) <= Total(sum, NumJobs)
  <2>1. \A k \in 1..NumJobs : slot_ram[k] <= sum[k]
    BY <1>5, <1>7
  <2>. QED  BY <1>1, <1>6, <1>7, <2>1, TotalLe
<1>10. Total(slot_ram, NumJobs) \in Int
  BY <1>1, <1>6, TotalType
<1>11. CASE On(phase) # {}
  <2>1. Effective + Reservation = PhysicalRam
    BY <1>4, <1>11, Constants DEF Effective
  <2>. QED  BY <1>4, <1>8, <1>9, <1>10, <2>1, Constants DEF NoOverload
<1>12. CASE On(phase) = {}
  <2>1. \A k \in 1..NumJobs : slot_ram[k] = 0
    <3>1. \A k \in Jobs : phase[k] \notin OnNode
      BY <1>12 DEF On
    <3>. QED  BY <1>4, <3>1 DEF RamOf, OnNode, InSlots, Jobs
  <2>2. Total(slot_ram, NumJobs) = 0
    BY <1>1, <1>6, <2>1, TotalZero
  <2>. QED  BY <2>2, Constants DEF NoOverload
<1>. QED  BY <1>11, <1>12

(* "No crash possible": a node whose jobs stay within their requests       *)
(* outside preprocessing is never overloaded, whatever their bursts, their *)
(* order and the timing of their phases.                                   *)
THEOREM NodeNeverOverloaded == WithinRequests => (Spec => []NoOverload)
<1> SUFFICES ASSUME WithinRequests PROVE Spec => []NoOverload
  OBVIOUS
<1>1. NodeIInv => NoOverload
  BY SlotsWithin
<1>. QED  BY <1>1, NodeInvariant, PTL

-----------------------------------------------------------------------------
(* The download throttle.  The jobs that hold or await a slot.             *)
Throttled(ph) == {j \in Jobs : ph[j] \in {"slot", "download", "burst", "preprocess"}}

(* What makes the throttle inductive: the requests that wait are different *)
(* jobs at the slot, all other jobs in these phases hold a slot, and a     *)
(* request waits only while no slot is free.                               *)
SlotsKept(ph, held, queue) ==
  /\ Distinct(queue)
  /\ \A j \in ToSet(queue) : ph[j] = "slot"
  /\ held = Throttled(ph) \ ToSet(queue)
  /\ Cardinality(held) <= download_slots
  /\ queue # <<>> => Cardinality(held) = download_slots

SlotIInv == NodeIInv /\ (download_slots > 0 => SlotsKept(phase, users, dl_queue))

(* simpy.Resource hands every free slot to the first requests in line.     *)
LEMMA GrantFills ==
  ASSUME NEW held \in SUBSET Jobs, NEW queue \in Seq(Jobs), download_slots \in Nat,
         Distinct(queue), held \cap ToSet(queue) = {}, Cardinality(held) <= download_slots,
         GrantSlots(held, queue)
  PROVE  /\ Distinct(dl_queue')
         /\ ToSet(dl_queue') \subseteq ToSet(queue)
         /\ users' = (held \cup ToSet(queue)) \ ToSet(dl_queue')
         /\ Cardinality(users') <= download_slots
         /\ dl_queue' # <<>> => Cardinality(users') = download_slots
<1> DEFINE free == download_slots - Cardinality(held)
           m == IF free < Len(queue) THEN free ELSE Len(queue)
           first == SubSeq(queue, 1, m)
           later == SubSeq(queue, m+1, Len(queue))
<1>1. IsFiniteSet(held) /\ Cardinality(held) \in Nat
  <2>1. IsFiniteSet(Jobs)
    BY PoolAssumption, FS_Interval DEF Jobs
  <2>. QED  BY <2>1, FS_Subset, FS_CardinalityType
<1>2. m \in 0..Len(queue) /\ m <= free /\ (m < Len(queue) => m = free)
  BY <1>1
<1>3. first = Granted(held, queue)
  BY DEF Granted
<1> HIDE DEF m
<1>4. /\ Len(first) = m /\ ToSet(first) \subseteq ToSet(queue)
      /\ Cardinality(ToSet(first)) = m /\ IsFiniteSet(ToSet(first))
      /\ ToSet(later) = ToSet(queue) \ ToSet(first)
      /\ Distinct(later)
      /\ later # <<>> => m < Len(queue)
  BY <1>2, PrefixOfDistinct
<1>5. users' = held \cup ToSet(first) /\ dl_queue' = later
  BY <1>3, <1>4 DEF GrantSlots
<1> HIDE DEF first, later
<1>6. Cardinality(held \cup ToSet(first)) = Cardinality(held) + m
  <2> DEFINE F == ToSet(first)
  <2>1. held \cap ToSet(first) = {}
    BY <1>4
  <2>2. Cardinality(held \cap F) = 0
    BY <2>1, FS_EmptySet
  <2>3. IsFiniteSet(F) /\ Cardinality(F) = m
    BY <1>4
  <2> HIDE DEF F
  <2>4. Cardinality(held \cup F) = Cardinality(held) + m - 0
    BY <1>1, <2>2, <2>3, FS_Union
  <2>. QED  BY <1>1, <1>2, <2>4 DEF F
<1>7. users' = (held \cup ToSet(queue)) \ ToSet(dl_queue')
  BY <1>4, <1>5
<1>8. /\ Cardinality(users') <= download_slots
      /\ dl_queue' # <<>> => Cardinality(users') = download_slots
  BY <1>1, <1>2, <1>4, <1>5, <1>6
<1>9. Distinct(dl_queue') /\ ToSet(dl_queue') \subseteq ToSet(queue)
  BY <1>4, <1>5
<1>. QED  BY <1>7, <1>8, <1>9

(* Scheduling lines up the jobs it places behind the requests that wait.   *)
LEMMA ScheduleKeepsSlots ==
  ASSUME users \subseteq Jobs, dl_queue \in Seq(Jobs), download_slots \in Nat,
         download_slots > 0,
         NEW ph \in [Jobs -> Phases], NEW sram, NEW ram, NEW vcpu, NEW st,
         SlotsKept(ph, users, dl_queue), TrySchedule(ph, sram, ram, vcpu, st)
  PROVE  SlotsKept(phase', users', dl_queue')
<1>1. PICK P \in SUBSET {j \in Jobs : ph[j] = "queued"} :
        /\ phase' = [j \in Jobs |-> IF j \in P THEN "slot" ELSE ph[j]]
        /\ GrantSlots(users, Joined(dl_queue, P))
  BY DEF TrySchedule
<1> DEFINE queue == Joined(dl_queue, P)
<1>2. /\ Distinct(dl_queue) /\ users = Throttled(ph) \ ToSet(dl_queue)
      /\ \A j \in ToSet(dl_queue) : ph[j] = "slot"
      /\ Cardinality(users) <= download_slots
  BY DEF SlotsKept
<1>3. P \in SUBSET Jobs /\ P \cap Throttled(ph) = {} /\ P \cap ToSet(dl_queue) = {}
  BY <1>2 DEF Throttled
<1>4. /\ queue \in Seq(Jobs) /\ Distinct(queue)
      /\ ToSet(queue) = ToSet(dl_queue) \cup P
  BY <1>2, <1>3, JoinedType, JoinedSet
<1> HIDE DEF queue
<1>5. users \cap ToSet(queue) = {}
  BY <1>2, <1>3, <1>4
<1>6. GrantSlots(users, queue)
  BY <1>1 DEF queue
<1>7. /\ Distinct(dl_queue')
      /\ ToSet(dl_queue') \subseteq ToSet(queue)
      /\ users' = (users \cup ToSet(queue)) \ ToSet(dl_queue')
      /\ Cardinality(users') <= download_slots
      /\ dl_queue' # <<>> => Cardinality(users') = download_slots
  BY <1>2, <1>4, <1>5, <1>6, GrantFills
<1>8. ToSet(dl_queue) \subseteq Throttled(ph)
  <2>1. ToSet(dl_queue) \subseteq Jobs
    BY DEF ToSet
  <2>. QED  BY <2>1, <1>2 DEF Throttled
<1>9. Throttled(phase') = Throttled(ph) \cup P
  BY <1>1, <1>3 DEF Throttled
<1>10. users' = Throttled(phase') \ ToSet(dl_queue')
  BY <1>2, <1>4, <1>7, <1>8, <1>9
<1>11. \A j \in ToSet(queue) : phase'[j] = "slot"
  <2>1. ToSet(queue) \subseteq Jobs
    BY <1>4 DEF ToSet
  <2>. QED  BY <2>1, <1>1, <1>2, <1>4
<1>. QED  BY <1>7, <1>10, <1>11 DEF SlotsKept

(* A step that moves one job's phase among those of the throttle, or among *)
(* the others, keeps the slots.                                            *)
LEMMA MoveKeepsSlots ==
  ASSUME NEW ph \in [Jobs -> Phases], NEW held, NEW queue, NEW j \in Jobs, NEW p,
         SlotsKept(ph, held, queue), j \notin ToSet(queue),
         j \in Throttled(ph) <=> p \in {"slot", "download", "burst", "preprocess"}
  PROVE  SlotsKept([ph EXCEPT ![j] = p], held, queue)
<1>1. Throttled([ph EXCEPT ![j] = p]) = Throttled(ph)
  BY DEF Throttled
<1>2. \A k \in ToSet(queue) : k # j /\ ph[k] = "slot"
  BY DEF SlotsKept
<1>. QED  BY <1>1, <1>2 DEF SlotsKept

(* Only the end of preprocessing gives a slot back.                        *)
LEMMA ReturnKeepsSlots ==
  ASSUME users \subseteq Jobs, dl_queue \in Seq(Jobs), download_slots \in Nat,
         phase \in [Jobs -> Phases], SlotsKept(phase, users, dl_queue),
         NEW j \in Jobs, phase[j] = "preprocess",
         phase' = [phase EXCEPT ![j] = "workhorse"], GrantSlots(users \ {j}, dl_queue)
  PROVE  SlotsKept(phase', users', dl_queue')
<1> DEFINE held == users \ {j}
<1>1. /\ Distinct(dl_queue) /\ users = Throttled(phase) \ ToSet(dl_queue)
      /\ \A k \in ToSet(dl_queue) : phase[k] = "slot"
      /\ Cardinality(users) <= download_slots
  BY DEF SlotsKept
<1>2. j \notin ToSet(dl_queue) /\ ToSet(dl_queue) \subseteq Throttled(phase)
  <2>1. ToSet(dl_queue) \subseteq Jobs
    BY DEF ToSet
  <2>. QED  BY <2>1, <1>1 DEF Throttled
<1>3. Cardinality(held) <= download_slots
  <2>1. IsFiniteSet(users)
    <3>1. IsFiniteSet(Jobs)
      BY PoolAssumption, FS_Interval DEF Jobs
    <3>. QED  BY <3>1, FS_Subset
  <2>2. held \in SUBSET users
    OBVIOUS
  <2>3. Cardinality(held) <= Cardinality(users) /\ IsFiniteSet(held)
    BY <2>1, <2>2, FS_Subset
  <2>4. Cardinality(held) \in Nat /\ Cardinality(users) \in Nat
    BY <2>1, <2>3, FS_CardinalityType
  <2>. QED  BY <1>1, <2>3, <2>4
<1>4. held \in SUBSET Jobs /\ held \cap ToSet(dl_queue) = {}
  BY <1>1
<1>5. /\ Distinct(dl_queue')
      /\ ToSet(dl_queue') \subseteq ToSet(dl_queue)
      /\ users' = (held \cup ToSet(dl_queue)) \ ToSet(dl_queue')
      /\ Cardinality(users') <= download_slots
      /\ dl_queue' # <<>> => Cardinality(users') = download_slots
  BY <1>1, <1>3, <1>4, GrantFills
<1>6. Throttled(phase') = Throttled(phase) \ {j}
  BY DEF Throttled
<1>7. users' = Throttled(phase') \ ToSet(dl_queue')
  BY <1>1, <1>2, <1>5, <1>6
<1>8. \A k \in ToSet(dl_queue') : phase'[k] = "slot"
  BY <1>1, <1>2, <1>5
<1>. QED  BY <1>5, <1>7, <1>8 DEF SlotsKept

(* Arrivals, placements, and the phases that take and give back slots.     *)
LEMMA SlotStepSafe ==
  ASSUME SlotIInv, NodeIInv', Next
  PROVE  SlotIInv'
<1>1. /\ phase \in [Jobs -> Phases] /\ users \subseteq Jobs /\ dl_queue \in Seq(Jobs)
      /\ download_slots \in Nat
  BY NodeAssumption DEF SlotIInv, NodeIInv, Books
<1>2. download_slots' = download_slots
  BY DEF Next, NodeReady, Arrive, JobStep, StartDownload, EndDownload, StartPreprocess,
         EndPreprocess, EndWorkhorse, EndUpload, MoveTo, rest
<1> SUFFICES ASSUME download_slots > 0 PROVE SlotsKept(phase', users', dl_queue')
  BY <1>2 DEF SlotIInv, SlotsKept, ToSet, Distinct
<1>3. SlotsKept(phase, users, dl_queue)
  BY DEF SlotIInv
<1>4. \A k \in ToSet(dl_queue) : phase[k] = "slot"
  BY <1>3 DEF SlotsKept
<1>5. CASE NodeReady
  BY <1>1, <1>3, <1>5, ScheduleKeepsSlots DEF NodeReady
<1>6. ASSUME NEW j \in Jobs, Arrive(j)
      PROVE  SlotsKept(phase', users', dl_queue')
  <2>1. phase[j] = "absent" /\ j \notin ToSet(dl_queue) /\ j \notin Throttled(phase)
    BY <1>4, <1>6 DEF Arrive, Throttled
  <2>2. /\ SlotsKept([phase EXCEPT ![j] = "rejected"], users, dl_queue)
        /\ SlotsKept([phase EXCEPT ![j] = "queued"], users, dl_queue)
    BY <1>1, <1>3, <2>1, MoveKeepsSlots
  <2>3. CASE Burst[j] > Reservation
    BY <1>6, <2>2, <2>3 DEF Arrive
  <2>4. CASE ~(Burst[j] > Reservation)
    <3>1. [phase EXCEPT ![j] = "queued"] \in [Jobs -> Phases]
      BY <1>1 DEF Phases
    <3>2. TrySchedule([phase EXCEPT ![j] = "queued"],
                      slot_ram, allocated_ram, allocated_vcpu, state)
      BY <1>6, <2>4 DEF Arrive
    <3>. QED  BY <1>1, <2>2, <3>1, <3>2, ScheduleKeepsSlots
  <2>. QED  BY <2>3, <2>4
<1>7. ASSUME NEW j \in Jobs, StartDownload(j) \/ EndDownload(j) \/ StartPreprocess(j)
      PROVE  SlotsKept(phase', users', dl_queue')
  <2>1. PICK p \in {"download", "burst", "preprocess"} : phase' = [phase EXCEPT ![j] = p]
    BY <1>7 DEF StartDownload, EndDownload, StartPreprocess, MoveTo
  <2>2. users' = users /\ dl_queue' = dl_queue
    BY <1>7 DEF StartDownload, EndDownload, StartPreprocess
  <2>3. j \notin ToSet(dl_queue) /\ j \in Throttled(phase)
    BY <1>3, <1>4, <1>7 DEF StartDownload, EndDownload, StartPreprocess, Throttled, SlotsKept
  <2>. QED  BY <1>1, <1>3, <2>1, <2>2, <2>3, MoveKeepsSlots
<1>8. ASSUME NEW j \in Jobs, EndPreprocess(j)
      PROVE  SlotsKept(phase', users', dl_queue')
  <2>1. /\ phase[j] = "preprocess" /\ phase' = [phase EXCEPT ![j] = "workhorse"]
        /\ GrantSlots(users \ {j}, dl_queue)
    BY <1>8 DEF EndPreprocess, MoveTo
  <2>. QED  BY <1>1, <1>3, <2>1, ReturnKeepsSlots
<1>9. ASSUME NEW j \in Jobs, EndWorkhorse(j)
      PROVE  SlotsKept(phase', users', dl_queue')
  <2>1. /\ phase[j] = "workhorse" /\ phase' = [phase EXCEPT ![j] = "upload"]
        /\ users' = users /\ dl_queue' = dl_queue
    BY <1>9 DEF EndWorkhorse, MoveTo
  <2>2. j \notin ToSet(dl_queue) /\ j \notin Throttled(phase)
    BY <1>4, <2>1 DEF Throttled
  <2>. QED  BY <1>1, <1>3, <2>1, <2>2, MoveKeepsSlots
<1>10. ASSUME NEW j \in Jobs, EndUpload(j)
       PROVE  SlotsKept(phase', users', dl_queue')
  <2>1. PICK st : /\ phase[j] = "upload"
                  /\ TrySchedule([phase EXCEPT ![j] = "done"], [slot_ram EXCEPT ![j] = 0],
                       Less(allocated_ram, Soft[j]), Less(allocated_vcpu, Vcpu[j]), st)
    BY <1>10 DEF EndUpload
  <2>2. j \notin ToSet(dl_queue) /\ j \notin Throttled(phase)
    BY <1>4, <2>1 DEF Throttled
  <2>3. SlotsKept([phase EXCEPT ![j] = "done"], users, dl_queue)
    BY <1>1, <1>3, <2>2, MoveKeepsSlots
  <2>4. [phase EXCEPT ![j] = "done"] \in [Jobs -> Phases]
    BY <1>1 DEF Phases
  <2>. QED  BY <1>1, <2>1, <2>3, <2>4, ScheduleKeepsSlots
<1>. QED  BY <1>5, <1>6, <1>7, <1>8, <1>9, <1>10 DEF Next, JobStep

(* For any jobs, node and number of slots: a slot is held from the grant   *)
(* to the end of preprocessing, never more than there are, and no request  *)
(* waits for a slot that is free (BSIM-125).                               *)
THEOREM NodeDownloads == Spec => []DownloadThrottle
<1>1. Init => SlotIInv
  <2> SUFFICES ASSUME Init PROVE SlotIInv
    OBVIOUS
  <2>1. NodeIInv
    BY NodeInitSafe
  <2>2. Throttled(phase) = {} /\ users = {} /\ dl_queue = <<>>
    BY DEF Init, Throttled
  <2>3. ToSet(dl_queue) = {} /\ Distinct(dl_queue) /\ Cardinality(users) = 0
    BY <2>2, FS_EmptySet DEF ToSet, Distinct
  <2>4. download_slots \in Nat
    BY NodeAssumption DEF Init
  <2>. QED  BY <2>1, <2>2, <2>3, <2>4 DEF SlotIInv, SlotsKept
<1>2. SlotIInv /\ NodeIInv' /\ [Next]_vars => SlotIInv'
  <2>1. CASE Next
    BY <2>1, SlotStepSafe
  <2>2. SlotIInv /\ NodeIInv' /\ UNCHANGED vars => SlotIInv'
    BY DEF SlotIInv, SlotsKept, Throttled, ToSet, Distinct, vars, poolVars, nodeVars
  <2>. QED  BY <2>1, <2>2
<1>3. SlotIInv => DownloadThrottle
  BY DEF SlotIInv, SlotsKept, DownloadThrottle, Throttled
<1>. QED  BY <1>1, <1>2, <1>3, NodeInvariant, PTL DEF Spec

(* For any jobs, however they are placed: the releases of a node's jobs    *)
(* let a waiter be passed only by one that asks for less.                  *)
THEOREM NodeOvertaking == Spec => NoUnfairOvertaking
<1>1. ASSUME NodeIInv, [Next]_vars,
             NEW a \in 1..Len(waiters), NEW b \in 1..Len(waiters), a < b,
             Burst[waiters[a]] <= Burst[waiters[b]], at'[waiters[b]] = "woken"
      PROVE  at'[waiters[a]] = "woken"
  <2>1. PoolIInv /\ at \in [Jobs -> Stages]
    BY <1>1 DEF NodeIInv, PoolIInv, PoolTypeOK
  <2>2. waiters[b] \in Jobs /\ at[waiters[b]] = "waiting"
    <3>1. waiters[b] \in ToSet(waiters) /\ ToSet(waiters) = {k \in Jobs : at[k] = "waiting"}
      BY <2>1 DEF PoolIInv, ToSet
    <3>. QED  BY <3>1
  <2>3. ASSUME NEW j \in Jobs, EndPreprocess(j) PROVE at'[waiters[a]] = "woken"
    BY <1>1, <2>1, <2>3, ReleaseIsFair DEF EndPreprocess
  <2>4. ASSUME NEW j \in Jobs, NodeReady \/ Arrive(j) \/ EndUpload(j) PROVE FALSE
    <3>1. at'[waiters[b]] \in {"placed", at[waiters[b]]}
      BY <2>2, <2>4 DEF NodeReady, Arrive, EndUpload, TrySchedule
    <3>. QED  BY <1>1, <2>2, <3>1
  <2>5. ASSUME NEW j \in Jobs, StartDownload(j) \/ EndDownload(j) \/ StartPreprocess(j)
                                 \/ EndWorkhorse(j)
        PROVE  FALSE
    <3>1. at'[waiters[b]] \in {"waiting", "holding"}
      BY <2>1, <2>2, <2>5 DEF StartDownload, EndDownload, StartPreprocess, EndWorkhorse,
                              Acquire, Resume, poolVars
    <3>. QED  BY <1>1, <3>1
  <2>6. CASE UNCHANGED vars
    BY <1>1, <2>2, <2>6 DEF vars, poolVars
  <2>. QED  BY <1>1, <2>2, <2>3, <2>4, <2>5, <2>6 DEF Next, JobStep
<1>2. NodeIInv /\ [Next]_vars =>
        [\A a, b \in 1..Len(waiters) :
           /\ a < b
           /\ Burst[waiters[a]] <= Burst[waiters[b]]
           /\ at'[waiters[b]] = "woken"
           => at'[waiters[a]] = "woken"]_poolVars
  BY <1>1
<1>. QED  BY <1>2, NodeInvariant, PTL DEF Spec, NoUnfairOvertaking

-----------------------------------------------------------------------------
(* The refinement of NodeContract.  LifeOf is Life as an operator of where *)
(* the jobs stand.                                                         *)
LifeOf(a, ph) == [j \in Jobs |-> CASE a[j] = "outside" -> "away"
                                   [] a[j] \in {"placed", "waiting"} -> "resident"
                                   [] a[j] \in {"woken", "holding"} -> "boosting"
                                   [] a[j] = "returned" /\ ph[j] # "done" -> "steady"
                                   [] OTHER -> "gone"]

(* The contract's sums are those of Totals.                                *)
LEMMA ContractTotal ==
  ASSUME NEW f, NEW n
  PROVE  Contract!Total(f, n) = Total(f, n)
BY DEF Contract!Total, Contract!Partial, Total, Partial

(* Jobs that stand like this hold what they requested, and what they       *)
(* claimed, within the two budgets.                                        *)
LEMMA LifeBudget ==
  ASSUME NEW a, NEW ph \in [Jobs -> Phases], \A j \in Jobs : a[j] \in StageOf(ph[j]),
         Total(Of(On(ph), Soft), NumJobs) <= Effective,
         Total([j \in Jobs |-> IF a[j] \in {"woken", "holding"} THEN Burst[j] ELSE 0], NumJobs)
           <= Reservation
  PROVE  Contract!WithinBudget(LifeOf(a, ph))
<1> DEFINE l == LifeOf(a, ph)
<1>1. \A j \in Jobs : l[j] \in {"resident", "boosting", "steady"} <=> ph[j] \in OnNode
  BY DEF LifeOf, StageOf, OnNode, InSlots, Phases
<1>2. \A j \in Jobs : l[j] \in {"boosting"} <=> a[j] \in {"woken", "holding"}
  BY DEF LifeOf, StageOf, Phases
<1> HIDE DEF l
<1>3. [j \in 1..NumJobs |-> IF l[j] \in {"resident", "boosting", "steady"} THEN Soft[j] ELSE 0]
        = Of(On(ph), Soft)
  BY <1>1 DEF Of, On, Jobs
<1>4. [j \in 1..NumJobs |-> IF l[j] \in {"boosting"} THEN Burst[j] ELSE 0]
        = [j \in Jobs |-> IF a[j] \in {"woken", "holding"} THEN Burst[j] ELSE 0]
  BY <1>2 DEF Jobs
<1>5. Contract!Held({"resident", "boosting", "steady"}, Soft, l) <= Effective
  BY <1>3, ContractTotal DEF Contract!Held
<1>6. Contract!Held({"boosting"}, Burst, l) <= Reservation
  BY <1>4, ContractTotal DEF Contract!Held
<1>. QED  BY <1>5, <1>6 DEF Contract!WithinBudget, l

(* Every step moves jobs one stage on, and at most one of them gives       *)
(* something up.                                                           *)
Moves(a, ph, b, qh) ==
  /\ \A k \in Jobs : LifeOf(b, qh)[k] = LifeOf(a, ph)[k]
                      \/ <<LifeOf(a, ph)[k], LifeOf(b, qh)[k]>> \in Contract!Next1
  /\ \A k, m \in Jobs :
        /\ LifeOf(a, ph)[k] \in {"boosting", "steady"}
        /\ LifeOf(b, qh)[k] # LifeOf(a, ph)[k]
        /\ LifeOf(a, ph)[m] \in {"boosting", "steady"}
        /\ LifeOf(b, qh)[m] # LifeOf(a, ph)[m]
        => k = m

(* It is enough that all jobs but one keep their stage or enter one of the *)
(* first two, and that one moves on at most one stage.                     *)
LEMMA MovesBy ==
  ASSUME NEW a, NEW ph, NEW b, NEW qh, NEW j \in Jobs,
         \A k \in Jobs \ {j} :
           \/ LifeOf(b, qh)[k] = LifeOf(a, ph)[k]
           \/ LifeOf(a, ph)[k] = "away" /\ LifeOf(b, qh)[k] = "resident"
           \/ LifeOf(a, ph)[k] = "resident" /\ LifeOf(b, qh)[k] = "boosting",
         \/ LifeOf(b, qh)[j] = LifeOf(a, ph)[j]
         \/ <<LifeOf(a, ph)[j], LifeOf(b, qh)[j]>> \in Contract!Next1
  PROVE  Moves(a, ph, b, qh)
<1> DEFINE l == LifeOf(a, ph)
           m == LifeOf(b, qh)
<1> HIDE DEF l, m
<1>1. /\ \A k \in Jobs \ {j} : \/ m[k] = l[k]
                               \/ l[k] = "away" /\ m[k] = "resident"
                               \/ l[k] = "resident" /\ m[k] = "boosting"
      /\ m[j] = l[j] \/ <<l[j], m[j]>> \in Contract!Next1
  BY DEF l, m
<1>2. \A k \in Jobs : m[k] = l[k] \/ <<l[k], m[k]>> \in Contract!Next1
  BY <1>1 DEF Contract!Next1
<1>3. \A k, i \in Jobs : /\ l[k] \in {"boosting", "steady"} /\ m[k] # l[k]
                         /\ l[i] \in {"boosting", "steady"} /\ m[i] # l[i]
                         => k = i
  BY <1>1
<1>. QED  BY <1>2, <1>3 DEF Moves, l, m

(* Scheduling moves the jobs it places from away to resident.              *)
LEMMA PlacedMoves ==
  ASSUME NEW ph, Stands(ph), NEW P \in SUBSET {j \in Jobs : ph[j] = "queued"},
         NEW q \in {"slot", "download"},
         at' = [j \in Jobs |-> IF j \in P THEN "placed" ELSE at[j]],
         phase' = [j \in Jobs |-> IF j \in P THEN q ELSE ph[j]],
         NEW k \in Jobs, at[k] = "outside" \/ ph[k] = phase[k]
  PROVE  \/ LifeOf(at', phase')[k] = LifeOf(at, phase)[k]
         \/ LifeOf(at, phase)[k] = "away" /\ LifeOf(at', phase')[k] = "resident"
<1>1. CASE k \in P
  <2>1. at[k] = "outside" /\ at'[k] = "placed"
    BY <1>1 DEF Stands, StageOf
  <2>. QED  BY <2>1 DEF LifeOf
<1>2. CASE k \notin P
  <2>1. at'[k] = at[k] /\ phase'[k] = ph[k]
    BY <1>2
  <2>2. CASE at[k] = "outside"
    BY <2>1, <2>2 DEF LifeOf
  <2>3. CASE ph[k] = phase[k]
    BY <2>1, <2>3 DEF LifeOf
  <2>. QED  BY <2>2, <2>3
<1>. QED  BY <1>1, <1>2

(* Steps that only place jobs.                                             *)
LEMMA ScheduleMoves ==
  ASSUME NodeIInv, NEW ph, Stands(ph), Books(ph, slot_ram, allocated_ram, allocated_vcpu),
         NEW st, TrySchedule(ph, slot_ram, allocated_ram, allocated_vcpu, st),
         UNCHANGED <<fixed, headroom, in_use, waiters>>,
         \A k \in Jobs : at[k] = "outside" \/ ph[k] = phase[k]
  PROVE  Moves(at, phase, at', phase')
<1>1. PICK P \in SUBSET {j \in Jobs : ph[j] = "queued"}, q \in {"slot", "download"} :
        /\ at' = [j \in Jobs |-> IF j \in P THEN "placed" ELSE at[j]]
        /\ phase' = [j \in Jobs |-> IF j \in P THEN q ELSE ph[j]]
  BY ScheduleSafe DEF NodeIInv
<1>2. \A k \in Jobs :
        \/ LifeOf(at', phase')[k] = LifeOf(at, phase)[k]
        \/ LifeOf(at, phase)[k] = "away" /\ LifeOf(at', phase')[k] = "resident"
  BY <1>1, PlacedMoves
<1>3. CASE Jobs = {}
  BY <1>3 DEF Moves
<1>4. ASSUME NEW j \in Jobs PROVE Moves(at, phase, at', phase')
  <2>1. \A k \in Jobs \ {j} :
          \/ LifeOf(at', phase')[k] = LifeOf(at, phase)[k]
          \/ LifeOf(at, phase)[k] = "away" /\ LifeOf(at', phase')[k] = "resident"
          \/ LifeOf(at, phase)[k] = "resident" /\ LifeOf(at', phase')[k] = "boosting"
    BY <1>2
  <2>2. \/ LifeOf(at', phase')[j] = LifeOf(at, phase)[j]
        \/ <<LifeOf(at, phase)[j], LifeOf(at', phase')[j]>> \in Contract!Next1
    BY <1>2 DEF Contract!Next1
  <2>. QED  BY <2>1, <2>2, MovesBy
<1>. QED  BY <1>3, <1>4

(* The first placements let jobs in, and no job out.                       *)
LEMMA ReadyMoves ==
  ASSUME NodeIInv, NodeReady
  PROVE  Moves(at, phase, at', phase')
BY ScheduleMoves DEF NodeReady, NodeIInv, rest

(* An arrival lets jobs in, and no job out.                                *)
LEMMA ArriveMoves ==
  ASSUME NodeIInv, NEW j \in Jobs, Arrive(j)
  PROVE  Moves(at, phase, at', phase')
<1>1. phase \in [Jobs -> Phases] /\ phase[j] = "absent" /\ at[j] = "outside"
  BY DEF NodeIInv, Books, Stands, StageOf, Arrive
<1>2. CASE Burst[j] > Reservation
  <2>1. phase' = [phase EXCEPT ![j] = "rejected"] /\ at' = at
    BY <1>2 DEF Arrive
  <2>2. \A k \in Jobs : LifeOf(at', phase')[k] = LifeOf(at, phase)[k]
    BY <1>1, <2>1 DEF LifeOf
  <2>. QED  BY <2>2, MovesBy
<1>3. CASE ~(Burst[j] > Reservation)
  <2> DEFINE ph == [phase EXCEPT ![j] = "queued"]
  <2>1. TrySchedule(ph, slot_ram, allocated_ram, allocated_vcpu, state) /\ UNCHANGED rest
    BY <1>3 DEF Arrive
  <2>2. \A k \in Jobs : at[k] = "outside" \/ ph[k] = phase[k]
    BY <1>1
  <2>3. ph \in [Jobs -> Phases]
    BY <1>1 DEF Phases
  <2>4. On(ph) = On(phase)
    BY <1>1 DEF On, OnNode, InSlots
  <2>5. /\ \A k \in Jobs : RamOf(ph[k], k) = RamOf(phase[k], k)
        /\ \A k \in Jobs : StageOf(ph[k]) = StageOf(phase[k])
    BY <1>1 DEF RamOf, StageOf
  <2> HIDE DEF ph
  <2>6. Books(ph, slot_ram, allocated_ram, allocated_vcpu) /\ Stands(ph)
    BY <2>3, <2>4, <2>5 DEF NodeIInv, Books, Stands
  <2>7. UNCHANGED <<fixed, headroom, in_use, waiters>>
    BY <2>1 DEF rest
  <2>. QED  BY <2>1, <2>2, <2>6, <2>7, ScheduleMoves
<1>. QED  BY <1>2, <1>3

(* A step of a job process moves that job on; a release lets others boost, *)
(* a completion lets others in.                                            *)
LEMMA JobStepMoves ==
  ASSUME NodeIInv, NEW j \in Jobs, JobStep(j)
  PROVE  Moves(at, phase, at', phase')
<1> DEFINE Same(k) == LifeOf(at', phase')[k] = LifeOf(at, phase)[k]
           Up(k) == <<LifeOf(at, phase)[k], LifeOf(at', phase')[k]>> \in Contract!Next1
<1>1. /\ phase \in [Jobs -> Phases] /\ at \in [Jobs -> Stages]
      /\ \A k \in Jobs : at[k] \in StageOf(phase[k])
  BY DEF NodeIInv, Books, Stands, PoolIInv, PoolTypeOK
<1>2. CASE StartDownload(j) \/ EndWorkhorse(j)
  <2>1. /\ at' = at /\ phase[j] \in {"slot", "workhorse"}
        /\ phase' \in {[phase EXCEPT ![j] = "download"], [phase EXCEPT ![j] = "upload"]}
    BY <1>2 DEF StartDownload, EndWorkhorse, MoveTo, poolVars
  <2>2. \A k \in Jobs : Same(k)
    BY <1>1, <2>1 DEF LifeOf
  <2>. QED  BY <2>2, MovesBy
<1>3. CASE EndDownload(j) \/ StartPreprocess(j)
  <2>1. /\ phase' \in {[phase EXCEPT ![j] = "preprocess"], [phase EXCEPT ![j] = "burst"]}
        /\ \/ at[j] = "placed" /\ at' \in {[at EXCEPT ![j] = "holding"],
                                           [at EXCEPT ![j] = "waiting"]}
           \/ at[j] = "woken" /\ at' = [at EXCEPT ![j] = "holding"]
    BY <1>3 DEF EndDownload, StartPreprocess, MoveTo, Acquire, Resume
  <2>2. \A k \in Jobs \ {j} : Same(k)
    BY <1>1, <2>1 DEF LifeOf
  <2>3. Same(j) \/ Up(j)
    BY <1>1, <2>1 DEF LifeOf, Contract!Next1
  <2>. QED  BY <2>2, <2>3, MovesBy
<1>4. CASE EndPreprocess(j)
  <2>1. phase' = [phase EXCEPT ![j] = "workhorse"] /\ Release(j) /\ at[j] = "holding"
    BY <1>4 DEF EndPreprocess, MoveTo, Release
  <2>2. PICK woken \in SUBSET ToSet(waiters) :
          at' = [k \in Jobs |-> IF k = j THEN "returned"
                                ELSE IF k \in woken THEN "woken" ELSE at[k]]
    BY <2>1, ReleaseEffect DEF NodeIInv
  <2>3. \A k \in woken : at[k] = "waiting"
    BY DEF NodeIInv, PoolIInv
  <2>4. \A k \in Jobs \ {j} :
          \/ Same(k)
          \/ LifeOf(at, phase)[k] = "resident" /\ LifeOf(at', phase')[k] = "boosting"
    <3> SUFFICES ASSUME NEW k \in Jobs \ {j}
                 PROVE \/ Same(k)
                       \/ LifeOf(at, phase)[k] = "resident" /\ LifeOf(at', phase')[k] = "boosting"
      OBVIOUS
    <3>1. phase'[k] = phase[k]
      BY <1>1, <2>1
    <3>2. CASE k \in woken
      BY <2>2, <2>3, <3>2 DEF LifeOf
    <3>3. CASE k \notin woken
      BY <2>2, <3>1, <3>3 DEF LifeOf
    <3>. QED  BY <3>2, <3>3
  <2>5. Up(j)
    <3>1. at'[j] = "returned" /\ phase'[j] = "workhorse"
      BY <1>1, <2>1, <2>2
    <3>2. LifeOf(at, phase)[j] = "boosting" /\ LifeOf(at', phase')[j] = "steady"
      BY <2>1, <3>1 DEF LifeOf
    <3>. QED  BY <3>2 DEF Contract!Next1
  <2>. QED  BY <2>4, <2>5, MovesBy
<1>5. CASE EndUpload(j)
  <2> DEFINE ph == [phase EXCEPT ![j] = "done"]
             st == IF \E k \in Jobs \ {j} : phase[k] \in InSlots THEN state ELSE "IDLE"
  <2>1. /\ phase[j] = "upload"
        /\ TrySchedule(ph, [slot_ram EXCEPT ![j] = 0],
                       Less(allocated_ram, Soft[j]), Less(allocated_vcpu, Vcpu[j]), st)
    BY <1>5 DEF EndUpload
  <2>2. PICK P \in SUBSET {k \in Jobs : ph[k] = "queued"}, q \in {"slot", "download"} :
          /\ at' = [k \in Jobs |-> IF k \in P THEN "placed" ELSE at[k]]
          /\ phase' = [k \in Jobs |-> IF k \in P THEN q ELSE ph[k]]
    <3>1. PICK P \in SUBSET {k \in Jobs : ph[k] = "queued"} :
            /\ at' = [k \in Jobs |-> IF k \in P THEN "placed" ELSE at[k]]
            /\ IF download_slots = 0
               THEN phase' = [k \in Jobs |-> IF k \in P THEN "download" ELSE ph[k]]
               ELSE phase' = [k \in Jobs |-> IF k \in P THEN "slot" ELSE ph[k]]
      BY <2>1 DEF TrySchedule
    <3>. QED  BY <3>1
  <2>3. Stands(ph) /\ ph[j] = "done" /\ at[j] = "returned"
        /\ \A k \in Jobs \ {j} : ph[k] = phase[k]
    BY <1>1, <2>1 DEF Stands, StageOf
  <2> HIDE DEF ph
  <2>4. \A k \in Jobs \ {j} :
          Same(k) \/ (LifeOf(at, phase)[k] = "away" /\ LifeOf(at', phase')[k] = "resident")
    BY <2>2, <2>3, PlacedMoves
  <2>5. Up(j)
    <3>1. j \notin P
      BY <2>3
    <3>2. at'[j] = "returned" /\ phase'[j] = "done"
      BY <2>2, <2>3, <3>1
    <3>3. LifeOf(at, phase)[j] = "steady" /\ LifeOf(at', phase')[j] = "gone"
      BY <2>1, <2>3, <3>2 DEF LifeOf
    <3>. QED  BY <3>3 DEF Contract!Next1
  <2>. QED  BY <2>4, <2>5, MovesBy
<1>. QED  BY <1>2, <1>3, <1>4, <1>5 DEF JobStep

(* So does every step of the node.                                         *)
LEMMA NodeMoves ==
  ASSUME NodeIInv, Next
  PROVE  Moves(at, phase, at', phase')
BY ReadyMoves, ArriveMoves, JobStepMoves DEF Next

(* Every step of the node is one of the contract, or stutters.             *)
LEMMA NodeImplementsStep ==
  ASSUME NodeIInv, NodeIInv', [Next]_vars
  PROVE  [Contract!Next]_Life
<1>1. Life = LifeOf(at, phase) /\ Life' = LifeOf(at', phase')
  BY DEF Life, LifeOf
<1>2. CASE UNCHANGED vars
  <2>1. Life' = Life
    BY <1>2 DEF vars, poolVars, nodeVars, Life
  <2>. QED  BY <2>1
<1>3. CASE Next
  <2>1. Moves(at, phase, at', phase')
    BY <1>3, NodeMoves
  <2>2. Life' \in [1..NumJobs -> Contract!Lives]
    BY <1>1 DEF LifeOf, Contract!Lives, Jobs
  <2>3. /\ phase' \in [Jobs -> Phases]
        /\ \A j \in Jobs : at'[j] \in StageOf(phase'[j])
        /\ Total(Of(On(phase'), Soft), NumJobs) <= Effective
        /\ in_use' = Total(Claim', NumJobs) /\ in_use' <= Reservation
    BY DEF NodeIInv, PoolIInv, Books, Stands, ClaimsWithinHeadroom
  <2>4. Claim' = [j \in Jobs |-> IF at'[j] \in {"woken", "holding"} THEN Burst[j] ELSE 0]
    BY DEF Claim
  <2>5. Contract!WithinBudget(Life')
    BY <1>1, <2>3, <2>4, LifeBudget
  <2>. QED  BY <1>1, <2>1, <2>2, <2>5 DEF Moves, Contract!Next, Jobs
<1>. QED  BY <1>2, <1>3

(* A K8S+ node keeps the contract of NodeContract: requests stay within    *)
(* the schedulable part, boosts within the reservation, and each job is    *)
(* placed, boosts and leaves once.                                         *)
THEOREM NodeKeepsContract == Spec => ContractSpec
<1>1. Init => Contract!Init
  BY DEF Init, PoolInit, Contract!Init, Life, Jobs
<1>2. NodeIInv /\ NodeIInv' /\ [Next]_vars => [Contract!Next]_Life
  BY NodeImplementsStep
<1>. QED  BY <1>1, <1>2, NodeInvariant, PTL DEF Spec, ContractSpec, Contract!Spec
=============================================================================
