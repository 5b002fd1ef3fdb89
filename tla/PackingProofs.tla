--------------------------- MODULE PackingProofs ---------------------------
(***************************************************************************)
(* Lemmas about Total, counting with it, Keep and the greedy passes of     *)
(* Packing, which the proofs of every component use.                       *)
(*                                                                         *)
(* Induction over the naturals is used in its set form (NatSetInduction),  *)
(* which the installed provers can instantiate: a set of naturals with 0   *)
(* in it and closed under successor is all of Nat because its complement   *)
(* would have a least element (theorem WFMin).                             *)
(***************************************************************************)
EXTENDS Packing, Lists, Sequences, TLAPS, WellFoundedInduction, FiniteSetTheorems

LessOnNat == {p \in Nat \X Nat : p[1] < p[2]}

(* The order of the naturals is well founded.                              *)
LEMMA LessOnNatWF == IsWellFoundedOn(LessOnNat, Nat)
<1>1. OpToRel(<, Nat) = LessOnNat
  BY DEF OpToRel, LessOnNat
<1>. QED  BY <1>1, NatLessThanWellFounded

(* A set that contains 0 and the successor of each of its naturals         *)
(* contains every natural.                                                 *)
LEMMA NatSetInduction ==
  ASSUME NEW S, 0 \in S, \A n \in Nat : n \in S => n+1 \in S
  PROVE  Nat \subseteq S
<1> DEFINE T == Nat \ S
<1>1. SUFFICES ASSUME T # {} PROVE FALSE
  OBVIOUS
<1>2. PICK x \in T : \A y \in T : ~ (<<y, x>> \in LessOnNat)
  <2>1. T \subseteq Nat
    OBVIOUS
  <2> HIDE DEF T
  <2>. QED  BY <2>1, <1>1, WFMin, LessOnNatWF
<1>3. x # 0 /\ x-1 \in Nat
  OBVIOUS
<1>4. x-1 \notin S
  BY <1>3
<1>5. <<x-1, x>> \in LessOnNat
  BY <1>3 DEF LessOnNat
<1>. QED  BY <1>2, <1>3, <1>4, <1>5

(* A set of naturals has a least one.                                      *)
LEMMA LeastNat ==
  ASSUME NEW T \in SUBSET Nat, T # {}
  PROVE  \E x \in T : \A y \in T : x <= y
<1>1. PICK x \in T : \A y \in T : ~ (<<y, x>> \in LessOnNat)
  BY WFMin, LessOnNatWF
<1>2. \A y \in T : y < x => <<y, x>> \in LessOnNat
  BY DEF LessOnNat
<1>3. \A y \in T : x \in Nat /\ y \in Nat /\ ~(y < x)
  BY <1>1, <1>2
<1>4. \A y \in T : x <= y
  BY <1>3
<1>. QED  BY <1>4

(* Multiplying by a natural keeps the order.                               *)
LEMMA TimesMonotone ==
  ASSUME NEW x \in Int, NEW y \in Int, NEW k \in Nat, x <= y
  PROVE  x * k <= y * k
<1>1. (y - x) * k >= 0
  BY SMT
<1>2. (y - x) * k = y * k - x * k
  BY SMT
<1>. QED  BY <1>1, <1>2

(* Multiplying by more than zero keeps it strictly.                        *)
LEMMA TimesStrict ==
  ASSUME NEW x \in Int, NEW y \in Int, NEW k \in Nat \ {0}, x < y
  PROVE  x * k < y * k
<1>1. (y - x) * k > 0
  BY SMT
<1>2. (y - x) * k = y * k - x * k
  BY SMT
<1>. QED  BY <1>1, <1>2

(* Partial(f, n) satisfies the recursion that defines it.                  *)
LEMMA PartialDef ==
  ASSUME NEW n \in Nat, NEW f \in [1..n -> Int]
  PROVE  /\ Partial(f, n) \in [0..n -> Int]
         /\ Partial(f, n)[0] = 0
         /\ \A k \in 1..n : Partial(f, n)[k] = Partial(f, n)[k-1] + f[k]
<1> DEFINE Rec(g, m) == /\ g[0] = 0
                        /\ \A k \in 1..m : g[k] = g[k-1] + f[k]
           S == {m \in Nat : m <= n => \E g \in [0..m -> Int] : Rec(g, m)}
<1>1. 0 \in S
  <2>1. [k \in 0..0 |-> 0] \in [0..0 -> Int] /\ Rec([k \in 0..0 |-> 0], 0)
    OBVIOUS
  <2>. QED  BY <2>1
<1>2. ASSUME NEW m \in Nat, m \in S
      PROVE  m+1 \in S
  <2>1. SUFFICES ASSUME m+1 <= n
                 PROVE  \E g \in [0..(m+1) -> Int] : Rec(g, m+1)
    OBVIOUS
  <2>2. PICK g \in [0..m -> Int] : Rec(g, m)
    BY <1>2, <2>1
  <2> DEFINE h == [k \in 0..(m+1) |-> IF k = m+1 THEN g[m] + f[m+1] ELSE g[k]]
  <2>3. f[m+1] \in Int /\ g[m] \in Int
    BY <2>1
  <2>4. h \in [0..(m+1) -> Int]
    BY <2>3
  <2>5. h[0] = 0
    BY <2>2
  <2>6. ASSUME NEW k \in 1..(m+1)
        PROVE  h[k] = h[k-1] + f[k]
    <3>1. CASE k = m+1
      BY <3>1
    <3>2. CASE k # m+1
      <4>1. k \in 1..m /\ k-1 \in 0..(m+1) /\ k-1 # m+1
        BY <3>2
      <4>. QED  BY <4>1, <2>2
    <3>. QED  BY <3>1, <3>2
  <2>. QED  BY <2>4, <2>5, <2>6
<1>3. n \in S
  <2> HIDE DEF S
  <2>. QED  BY <1>1, <1>2, NatSetInduction
<1>4. PICK g \in [0..n -> Int] : Rec(g, n)
  BY <1>3
<1> DEFINE Eqn(p) == p = [k \in 0..n |-> IF k = 0 THEN 0 ELSE p[k-1] + f[k]]
<1>5. Eqn(g)
  <2>1. \A k \in 0..n : g[k] = IF k = 0 THEN 0 ELSE g[k-1] + f[k]
    BY <1>4
  <2>. QED  BY <2>1
<1>6. Partial(f, n) = CHOOSE p : Eqn(p)
  BY DEF Partial
<1>7. Eqn(Partial(f, n))
  <2> HIDE DEF Eqn
  <2>. QED  BY <1>5, <1>6
<1> DEFINE P == Partial(f, n)
<1>8. P[0] = 0 /\ \A k \in 1..n : P[k] = P[k-1] + f[k]
  <2>1. \A k \in 0..n : P[k] = IF k = 0 THEN 0 ELSE P[k-1] + f[k]
    BY <1>7
  <2>. QED  BY <2>1
<1>9. P \in [0..n -> Int]
  <2> DEFINE U == {m \in Nat : m <= n => P[m] \in Int}
  <2> HIDE DEF P
  <2>1. 0 \in U
    BY <1>8
  <2>2. \A m \in Nat : m \in U => m+1 \in U
    <3> SUFFICES ASSUME NEW m \in Nat, m \in U, m+1 <= n PROVE P[m+1] \in Int
      OBVIOUS
    <3>1. m+1 \in 1..n /\ (m+1)-1 = m
      OBVIOUS
    <3>2. P[m+1] = P[m] + f[m+1]
      BY <3>1, <1>8
    <3>. QED  BY <3>1, <3>2
  <2>3. Nat \subseteq U
    <3> HIDE DEF U
    <3>. QED  BY <2>1, <2>2, NatSetInduction
  <2>4. \A m \in 0..n : P[m] \in Int
    BY <2>3
  <2>5. P = [k \in 0..n |-> IF k = 0 THEN 0 ELSE P[k-1] + f[k]]
    BY <1>7 DEF P
  <2>6. DOMAIN P = 0..n /\ P = [k \in 0..n |-> P[k]]
    BY <2>5
  <2>. QED  BY <2>4, <2>6
<1>. QED  BY <1>8, <1>9

(* A function with the recursion of the running sums is the running sums.  *)
LEMMA PartialUnique ==
  ASSUME NEW n \in Nat, NEW f \in [1..n -> Int], NEW q,
         q[0] = 0, \A k \in 1..n : q[k] = q[k-1] + f[k]
  PROVE  \A k \in 0..n : Partial(f, n)[k] = q[k]
<1> DEFINE P == Partial(f, n)
           U == {m \in Nat : m <= n => P[m] = q[m]}
<1>1. P[0] = 0 /\ \A k \in 1..n : P[k] = P[k-1] + f[k]
  BY PartialDef
<1> HIDE DEF P
<1>2. 0 \in U
  BY <1>1
<1>3. \A m \in Nat : m \in U => m+1 \in U
  <2> SUFFICES ASSUME NEW m \in Nat, m \in U, m+1 <= n PROVE P[m+1] = q[m+1]
    OBVIOUS
  <2>1. m+1 \in 1..n /\ (m+1)-1 = m
    OBVIOUS
  <2>. QED  BY <2>1, <1>1
<1>4. Nat \subseteq U
  <2> HIDE DEF U
  <2>. QED  BY <1>2, <1>3, NatSetInduction
<1>. QED  BY <1>4 DEF P

(* A sum of integers is an integer.                                        *)
LEMMA TotalType ==
  ASSUME NEW n \in Nat, NEW f \in [1..n -> Int]
  PROVE  Total(f, n) \in Int
BY PartialDef DEF Total

(* The sum of a function that is zero everywhere is zero.                  *)
LEMMA TotalZero ==
  ASSUME NEW n \in Nat, NEW f \in [1..n -> Int], \A k \in 1..n : f[k] = 0
  PROVE  Total(f, n) = 0
<1> DEFINE q == [k \in 0..n |-> 0]
<1>1. q[0] = 0 /\ \A k \in 1..n : q[k] = q[k-1] + f[k]
  OBVIOUS
<1>2. \A k \in 0..n : q[k] = 0
  OBVIOUS
<1> HIDE DEF q
<1>3. \A k \in 0..n : Partial(f, n)[k] = q[k]
  BY <1>1, PartialUnique
<1>4. n \in 0..n
  OBVIOUS
<1>. QED  BY <1>2, <1>3, <1>4 DEF Total

(* Sums add pointwise.                                                     *)
LEMMA TotalAdd ==
  ASSUME NEW n \in Nat, NEW f \in [1..n -> Int], NEW g \in [1..n -> Int],
         NEW h \in [1..n -> Int], \A k \in 1..n : h[k] = f[k] + g[k]
  PROVE  Total(h, n) = Total(f, n) + Total(g, n)
<1> DEFINE F == Partial(f, n)
           G == Partial(g, n)
           q == [k \in 0..n |-> F[k] + G[k]]
<1>1. /\ F \in [0..n -> Int]
      /\ F[0] = 0
      /\ \A k \in 1..n : F[k] = F[k-1] + f[k]
  BY PartialDef
<1>2. /\ G \in [0..n -> Int]
      /\ G[0] = 0
      /\ \A k \in 1..n : G[k] = G[k-1] + g[k]
  BY PartialDef
<1> HIDE DEF F, G
<1>3. q[0] = 0
  BY <1>1, <1>2
<1>4. ASSUME NEW k \in 1..n PROVE q[k] = q[k-1] + h[k]
  <2>1. k \in 0..n /\ k-1 \in 0..n
    OBVIOUS
  <2>2. F[k] = F[k-1] + f[k] /\ G[k] = G[k-1] + g[k] /\ h[k] = f[k] + g[k]
    BY <1>1, <1>2
  <2>3. F[k-1] \in Int /\ G[k-1] \in Int /\ f[k] \in Int /\ g[k] \in Int
    BY <2>1, <1>1, <1>2
  <2>. QED  BY <2>1, <2>2, <2>3
<1>5. \A k \in 0..n : Partial(h, n)[k] = q[k]
  <2> HIDE DEF q
  <2>. QED  BY <1>3, <1>4, PartialUnique
<1>. QED  BY <1>5 DEF Total, F, G

(* Sums are monotone.                                                      *)
LEMMA TotalLe ==
  ASSUME NEW n \in Nat, NEW f \in [1..n -> Int], NEW g \in [1..n -> Int],
         \A k \in 1..n : f[k] <= g[k]
  PROVE  Total(f, n) <= Total(g, n)
<1> DEFINE F == Partial(f, n)
           G == Partial(g, n)
           U == {m \in Nat : m <= n => F[m] <= G[m]}
<1>1. /\ F \in [0..n -> Int]
      /\ F[0] = 0
      /\ \A k \in 1..n : F[k] = F[k-1] + f[k]
  BY PartialDef
<1>2. /\ G \in [0..n -> Int]
      /\ G[0] = 0
      /\ \A k \in 1..n : G[k] = G[k-1] + g[k]
  BY PartialDef
<1> HIDE DEF F, G
<1>3. 0 \in U
  BY <1>1, <1>2
<1>4. \A m \in Nat : m \in U => m+1 \in U
  <2> SUFFICES ASSUME NEW m \in Nat, m \in U, m+1 <= n PROVE F[m+1] <= G[m+1]
    OBVIOUS
  <2>1. m+1 \in 1..n /\ (m+1)-1 = m /\ m \in 0..n
    OBVIOUS
  <2>2. F[m+1] = F[m] + f[m+1] /\ G[m+1] = G[m] + g[m+1]
    BY <2>1, <1>1, <1>2
  <2>3. F[m] \in Int /\ G[m] \in Int /\ f[m+1] \in Int /\ g[m+1] \in Int
    BY <2>1, <1>1, <1>2
  <2>. QED  BY <2>1, <2>2, <2>3
<1>5. Nat \subseteq U
  <2> HIDE DEF U
  <2>. QED  BY <1>3, <1>4, NatSetInduction
<1>. QED  BY <1>5 DEF Total, F, G

(* A sum of naturals is a natural.                                         *)
LEMMA TotalNat ==
  ASSUME NEW n \in Nat, NEW f \in [1..n -> Nat]
  PROVE  Total(f, n) \in Nat
<1> DEFINE z == [k \in 1..n |-> 0]
<1>1. Total(z, n) = 0
  BY TotalZero
<1>2. Total(z, n) <= Total(f, n)
  <2>1. f \in [1..n -> Int] /\ z \in [1..n -> Int] /\ \A k \in 1..n : z[k] <= f[k]
    OBVIOUS
  <2> HIDE DEF z
  <2>. QED  BY <2>1, TotalLe
<1>3. Total(f, n) \in Int
  BY TotalType
<1>. QED  BY <1>1, <1>2, <1>3

(* Changing one summand changes the sum by as much.                        *)
LEMMA TotalChange ==
  ASSUME NEW n \in Nat, NEW f \in [1..n -> Int], NEW g \in [1..n -> Int],
         NEW j \in 1..n, \A k \in 1..n : k # j => g[k] = f[k]
  PROVE  Total(g, n) = Total(f, n) + (g[j] - f[j])
<1> DEFINE F == Partial(f, n)
           d == g[j] - f[j]
           q == [k \in 0..n |-> IF k < j THEN F[k] ELSE F[k] + d]
<1>1. /\ F \in [0..n -> Int]
      /\ F[0] = 0
      /\ \A k \in 1..n : F[k] = F[k-1] + f[k]
  BY PartialDef
<1>2. d \in Int
  OBVIOUS
<1> HIDE DEF F
<1>3. q[0] = 0
  BY <1>1
<1>4. ASSUME NEW k \in 1..n PROVE q[k] = q[k-1] + g[k]
  <2>1. k \in 0..n /\ k-1 \in 0..n
    OBVIOUS
  <2>2. F[k] = F[k-1] + f[k] /\ F[k-1] \in Int /\ F[k] \in Int /\ f[k] \in Int /\ g[k] \in Int
    BY <2>1, <1>1
  <2>3. CASE k < j
    BY <2>1, <2>2, <2>3
  <2>4. CASE k = j
    BY <2>1, <2>2, <2>4
  <2>5. CASE k > j
    BY <2>1, <2>2, <2>5, <1>2
  <2>. QED  BY <2>3, <2>4, <2>5
<1>5. \A k \in 0..n : Partial(g, n)[k] = q[k]
  <2> HIDE DEF q
  <2>. QED  BY <1>3, <1>4, PartialUnique
<1>6. q[n] = F[n] + d
  OBVIOUS
<1>. QED  BY <1>5, <1>6 DEF Total, F

(* One natural summand is at most the sum.                                 *)
LEMMA TotalAtLeast ==
  ASSUME NEW n \in Nat, NEW f \in [1..n -> Nat], NEW j \in 1..n
  PROVE  f[j] <= Total(f, n)
<1> DEFINE g == [f EXCEPT ![j] = 0]
<1>1. g \in [1..n -> Nat] /\ g[j] = 0 /\ \A k \in 1..n : k # j => g[k] = f[k]
  OBVIOUS
<1> HIDE DEF g
<1>2. Total(g, n) \in Nat
  BY <1>1, TotalNat
<1>3. Total(g, n) = Total(f, n) + (g[j] - f[j])
  <2>1. f \in [1..n -> Int] /\ g \in [1..n -> Int]
    BY <1>1
  <2>. QED  BY <1>1, <2>1, TotalChange
<1>4. Total(f, n) \in Nat
  BY TotalNat
<1>. QED  BY <1>1, <1>2, <1>3, <1>4

(* A set of numbers has as many as there are ones in its indicator.        *)
LEMMA TotalCount ==
  ASSUME NEW n \in Nat, NEW S \in SUBSET (1..n)
  PROVE  /\ Cardinality(S) \in Nat
         /\ Cardinality(S) = Total([i \in 1..n |-> IF i \in S THEN 1 ELSE 0], n)
<1> DEFINE f == [i \in 1..n |-> IF i \in S THEN 1 ELSE 0]
           T(k) == {i \in S : i <= k}
           q == [k \in 0..n |-> Cardinality(T(k))]
<1>1. f \in [1..n -> Int] /\ \A k \in 1..n : f[k] = IF k \in S THEN 1 ELSE 0
  OBVIOUS
<1>0. \A i \in S : i \in 1..n /\ i \in Int
  OBVIOUS
<1>2. IsFiniteSet(S)
  <2>1. IsFiniteSet(1..n)
    BY FS_Interval
  <2>. QED  BY <2>1, FS_Subset
<1>3. \A k \in 0..n : q[k] = Cardinality(T(k)) /\ IsFiniteSet(T(k)) /\ Cardinality(T(k)) \in Nat
  <2> TAKE k \in 0..n
  <2>1. T(k) \subseteq S /\ q[k] = Cardinality(T(k))
    OBVIOUS
  <2> HIDE DEF T
  <2>. QED  BY <1>2, <2>1, FS_Subset, FS_CardinalityType
<1>4. q[0] = 0
  <2>1. T(0) = {}
    <3>1. \A i \in S : ~(i <= 0)
      BY <1>0
    <3>. QED  BY <3>1
  <2>. QED  BY <1>3, <2>1, FS_EmptySet
<1>5. ASSUME NEW k \in 1..n PROVE q[k] = q[k-1] + f[k]
  <2>1. k \in 0..n /\ k-1 \in 0..n
    OBVIOUS
  <2>2. CASE k \in S
    <3>1. T(k) = T(k-1) \cup {k} /\ k \notin T(k-1)
      <4>1. \A i \in S : i <= k <=> i <= k-1 \/ i = k
        BY <1>0
      <4>2. ~(k <= k-1)
        OBVIOUS
      <4>. QED  BY <2>2, <4>1, <4>2
    <3>2. Cardinality(T(k-1) \cup {k}) = Cardinality(T(k-1)) + 1
      BY <1>3, <2>1, <3>1, FS_AddElement
    <3>. QED  BY <1>1, <1>3, <2>1, <2>2, <3>1, <3>2
  <2>3. CASE k \notin S
    <3>1. T(k) = T(k-1)
      <4>1. \A i \in S : i <= k <=> i <= k-1
        BY <1>0, <2>3
      <4>. QED  BY <4>1
    <3>2. q[k] = q[k-1] /\ q[k-1] \in Nat
      BY <1>3, <2>1, <3>1
    <3>. QED  BY <1>1, <2>3, <3>2
  <2>. QED  BY <2>2, <2>3
<1>6. q[n] = Cardinality(S)
  <2>1. T(n) = S
    <3>1. \A i \in S : i <= n
      BY <1>0
    <3>. QED  BY <3>1
  <2>. QED  BY <1>3, <2>1
<1> HIDE DEF q, f
<1>7. \A k \in 0..n : Partial(f, n)[k] = q[k]
  BY <1>1, <1>4, <1>5, PartialUnique
<1>8. n \in 0..n
  OBVIOUS
<1>9. Total(f, n) = Cardinality(S)
  BY <1>6, <1>7, <1>8 DEF Total
<1>. QED  BY <1>2, <1>9, FS_CardinalityType DEF f

(* An interval that ends at b has as many numbers as its length.           *)
LEMMA TotalInterval ==
  ASSUME NEW n \in Nat, NEW a \in 0..n, NEW b \in 0..n, a <= b
  PROVE  Total([k \in 1..n |-> IF a < k /\ k <= b THEN 1 ELSE 0], n) = b - a
<1> DEFINE f == [k \in 1..n |-> IF a < k /\ k <= b THEN 1 ELSE 0]
           q == [k \in 0..n |-> IF k <= a THEN 0 ELSE IF k <= b THEN k - a ELSE b - a]
<1>1. f \in [1..n -> Int]
  OBVIOUS
<1>2. q[0] = 0
  OBVIOUS
<1>3. ASSUME NEW k \in 1..n PROVE q[k] = q[k-1] + f[k]
  <2>1. k \in 0..n /\ k-1 \in 0..n
    OBVIOUS
  <2>2. q[k] = (IF k <= a THEN 0 ELSE IF k <= b THEN k - a ELSE b - a)
        /\ q[k-1] = (IF k-1 <= a THEN 0 ELSE IF k-1 <= b THEN (k-1) - a ELSE b - a)
        /\ f[k] = (IF a < k /\ k <= b THEN 1 ELSE 0)
    BY <2>1
  <2>. QED  BY <2>1, <2>2
<1>4. q[n] = b - a
  OBVIOUS
<1> HIDE DEF q, f
<1>5. \A k \in 0..n : Partial(f, n)[k] = q[k]
  BY <1>1, <1>2, <1>3, PartialUnique
<1>6. n \in 0..n
  OBVIOUS
<1>7. Total(f, n) = b - a
  BY <1>4, <1>5, <1>6 DEF Total
<1>. QED  BY <1>7 DEF f

(* The entries of a table add up by rows as they do by columns.            *)
LEMMA TotalSwap ==
  ASSUME NEW n \in Nat, NEW m \in Nat, NEW f \in [1..n -> [1..m -> Int]]
  PROVE  Total([i \in 1..n |-> Total(f[i], m)], n)
           = Total([k \in 1..m |-> Total([i \in 1..n |-> f[i][k]], n)], m)
<1> DEFINE col(k) == [i \in 1..n |-> f[i][k]]
           rows == [i \in 1..n |-> Total(f[i], m)]
           part == [l \in 0..n |-> [k \in 1..m |-> Partial(col(k), n)[l]]]
           q == [l \in 0..n |-> Total(part[l], m)]
<1>1. \A k \in 1..m : col(k) \in [1..n -> Int] /\ \A i \in 1..n : col(k)[i] = f[i][k]
  OBVIOUS
<1> HIDE DEF col
<1>2. \A k \in 1..m : /\ Partial(col(k), n) \in [0..n -> Int]
                      /\ Partial(col(k), n)[0] = 0
                      /\ \A l \in 1..n : Partial(col(k), n)[l] = Partial(col(k), n)[l-1] + col(k)[l]
  BY <1>1, PartialDef
<1>3. \A l \in 0..n : /\ part[l] \in [1..m -> Int]
                      /\ \A k \in 1..m : part[l][k] = Partial(col(k), n)[l]
  BY <1>2
<1>4. rows \in [1..n -> Int] /\ \A i \in 1..n : rows[i] = Total(f[i], m)
  BY TotalType
<1>5. \A l \in 0..n : q[l] = Total(part[l], m)
  OBVIOUS
<1> HIDE DEF part, rows, q
<1>6. 0 \in 0..n /\ n \in 0..n
  OBVIOUS
<1>7. q[0] = 0
  <2>1. \A k \in 1..m : part[0][k] = 0
    BY <1>2, <1>3, <1>6
  <2>2. Total(part[0], m) = 0
    BY <1>3, <1>6, <2>1, TotalZero
  <2>. QED  BY <1>5, <1>6, <2>2
<1>8. ASSUME NEW l \in 1..n PROVE q[l] = q[l-1] + rows[l]
  <2>1. l \in 0..n /\ l-1 \in 0..n
    OBVIOUS
  <2>2. f[l] \in [1..m -> Int]
    OBVIOUS
  <2>3. \A k \in 1..m : part[l][k] = part[l-1][k] + f[l][k]
    BY <1>1, <1>2, <1>3, <2>1
  <2>4. part[l] \in [1..m -> Int] /\ part[l-1] \in [1..m -> Int]
    BY <1>3, <2>1
  <2>5. Total(part[l], m) = Total(part[l-1], m) + Total(f[l], m)
    BY <2>2, <2>3, <2>4, TotalAdd
  <2>. QED  BY <1>4, <1>5, <2>1, <2>5
<1>9. \A l \in 0..n : Partial(rows, n)[l] = q[l]
  BY <1>4, <1>7, <1>8, PartialUnique
<1>10. Total(rows, n) = Total(part[n], m)
  BY <1>5, <1>6, <1>9 DEF Total
<1>11. part[n] = [k \in 1..m |-> Total(col(k), n)]
  BY <1>6 DEF part, Total
<1>. QED  BY <1>10, <1>11 DEF rows, col

(* Who is there at each of m instants, counted by instant or by head.      *)
LEMMA CountBothWays ==
  ASSUME NEW n \in Nat, NEW m \in Nat, NEW S \in [1..m -> SUBSET (1..n)]
  PROVE  Total([k \in 1..m |-> Cardinality(S[k])], m)
           = Total([i \in 1..n |-> Total([k \in 1..m |-> IF i \in S[k] THEN 1 ELSE 0], m)], n)
<1> DEFINE f == [i \in 1..n |-> [k \in 1..m |-> IF i \in S[k] THEN 1 ELSE 0]]
<1>1. f \in [1..n -> [1..m -> Int]]
  OBVIOUS
<1>2. \A k \in 1..m : Cardinality(S[k]) = Total([i \in 1..n |-> f[i][k]], n)
  <2> TAKE k \in 1..m
  <2>1. [i \in 1..n |-> f[i][k]] = [i \in 1..n |-> IF i \in S[k] THEN 1 ELSE 0]
    OBVIOUS
  <2>2. S[k] \in SUBSET (1..n)
    OBVIOUS
  <2> HIDE DEF f
  <2>. QED  BY <2>1, <2>2, TotalCount
<1>3. \A i \in 1..n : f[i] = [k \in 1..m |-> IF i \in S[k] THEN 1 ELSE 0]
  OBVIOUS
<1> HIDE DEF f
<1>4. [k \in 1..m |-> Cardinality(S[k])] = [k \in 1..m |-> Total([i \in 1..n |-> f[i][k]], n)]
  BY <1>2
<1>5. [i \in 1..n |-> Total([k \in 1..m |-> IF i \in S[k] THEN 1 ELSE 0], m)]
        = [i \in 1..n |-> Total(f[i], m)]
  BY <1>3
<1>. QED  BY <1>1, <1>4, <1>5, TotalSwap

(* Everybody is there for two intervals: the heads counted at each instant *)
(* make up the time they spend there.                                      *)
LEMMA TimeCounted ==
  ASSUME NEW n \in Nat, NEW m \in Nat, NEW S \in [1..m -> SUBSET (1..n)],
         NEW from \in [1..n -> 0..m], NEW mid \in [1..n -> 0..m],
         NEW again \in [1..n -> 0..m], NEW to \in [1..n -> 0..m],
         \A i \in 1..n : from[i] <= mid[i] /\ mid[i] <= again[i] /\ again[i] <= to[i],
         \A i \in 1..n, k \in 1..m :
           i \in S[k] <=> (from[i] < k /\ k <= mid[i]) \/ (again[i] < k /\ k <= to[i])
  PROVE  Total([k \in 1..m |-> Cardinality(S[k])], m)
           = Total([i \in 1..n |-> (mid[i] - from[i]) + (to[i] - again[i])], n)
<1>1. ASSUME NEW i \in 1..n
      PROVE  Total([k \in 1..m |-> IF i \in S[k] THEN 1 ELSE 0], m)
               = (mid[i] - from[i]) + (to[i] - again[i])
  <2> DEFINE f == [k \in 1..m |-> IF from[i] < k /\ k <= mid[i] THEN 1 ELSE 0]
             g == [k \in 1..m |-> IF again[i] < k /\ k <= to[i] THEN 1 ELSE 0]
             h == [k \in 1..m |-> IF i \in S[k] THEN 1 ELSE 0]
  <2>1. f \in [1..m -> Int] /\ g \in [1..m -> Int] /\ h \in [1..m -> Int]
    OBVIOUS
  <2>2. ASSUME NEW k \in 1..m PROVE h[k] = f[k] + g[k]
    <3> DEFINE a == from[i]
               b == mid[i]
               c == again[i]
               d == to[i]
    <3>1. /\ a \in Int /\ b \in Int /\ c \in Int /\ d \in Int
          /\ a <= b /\ b <= c /\ c <= d
          /\ i \in S[k] <=> (a < k /\ k <= b) \/ (c < k /\ k <= d)
      OBVIOUS
    <3>2. /\ f[k] = IF a < k /\ k <= b THEN 1 ELSE 0
          /\ g[k] = IF c < k /\ k <= d THEN 1 ELSE 0
          /\ h[k] = IF i \in S[k] THEN 1 ELSE 0
      OBVIOUS
    <3> HIDE DEF f, g, h, a, b, c, d
    <3>. QED  BY <3>1, <3>2
  <2>3. Total(f, m) = mid[i] - from[i] /\ Total(g, m) = to[i] - again[i]
    <3>1. /\ from[i] \in 0..m /\ mid[i] \in 0..m /\ again[i] \in 0..m /\ to[i] \in 0..m
          /\ from[i] <= mid[i] /\ again[i] <= to[i]
      OBVIOUS
    <3>. QED  BY <3>1, TotalInterval
  <2> HIDE DEF f, g, h
  <2>4. Total(h, m) = Total(f, m) + Total(g, m)
    BY <2>1, <2>2, TotalAdd
  <2>. QED  BY <2>3, <2>4 DEF h
<1>2. [i \in 1..n |-> Total([k \in 1..m |-> IF i \in S[k] THEN 1 ELSE 0], m)]
        = [i \in 1..n |-> (mid[i] - from[i]) + (to[i] - again[i])]
  BY <1>1
<1>. QED  BY <1>2, CountBothWays

-----------------------------------------------------------------------------
(* Keep(s, S) is a list of the entries of s that are in S; it has none     *)
(* twice that s has once.                                                  *)
LEMMA KeepEntries ==
  ASSUME NEW T, NEW s \in Seq(T), NEW S
  PROVE  /\ Keep(s, S) \in Seq(T)
         /\ \A x : (\E k \in 1..Len(Keep(s, S)) : Keep(s, S)[k] = x)
                     <=> x \in S /\ \E i \in 1..Len(s) : s[i] = x
         /\ (\A i, k \in 1..Len(s) : s[i] = s[k] => i = k)
              => \A i, k \in 1..Len(Keep(s, S)) : Keep(s, S)[i] = Keep(s, S)[k] => i = k
<1> DEFINE n == Len(s)
           V == Seq(T)
           Next(g, k) == IF s[k] \in S THEN Append(g[k-1], s[k]) ELSE g[k-1]
           Rec(g, m) == /\ g[0] = <<>>
                        /\ \A k \in 1..m : g[k] = Next(g, k)
           Has(t, m) == \A x : (\E k \in 1..Len(t) : t[k] = x)
                                 <=> x \in S /\ \E i \in 1..m : s[i] = x
           Once(t) == \A i, k \in 1..Len(t) : t[i] = t[k] => i = k
           I == {m \in Nat : m <= n => \E g \in [0..m -> V] : Rec(g, m)}
<1>1. n \in Nat /\ \A k \in 1..n : s[k] \in T
  OBVIOUS
<1>2. <<>> \in V /\ \A t \in V, x \in T : Append(t, x) \in V
  OBVIOUS
<1>3. 0 \in I
  <2> HIDE DEF V
  <2> DEFINE g == [k \in 0..0 |-> <<>>]
  <2>1. g \in [0..0 -> V] /\ Rec(g, 0)
    BY <1>2
  <2>. QED  BY <2>1
<1>4. ASSUME NEW m \in Nat, m \in I
      PROVE  m+1 \in I
  <2> HIDE DEF V
  <2>1. SUFFICES ASSUME m+1 <= n
                 PROVE  \E g \in [0..(m+1) -> V] : Rec(g, m+1)
    OBVIOUS
  <2>2. PICK g \in [0..m -> V] : Rec(g, m)
    BY <1>4, <2>1
  <2> DEFINE last == IF s[m+1] \in S THEN Append(g[m], s[m+1]) ELSE g[m]
             h == [k \in 0..(m+1) |-> IF k = m+1 THEN last ELSE g[k]]
  <2>3. last \in V
    BY <1>1, <1>2, <2>1
  <2>4. h \in [0..(m+1) -> V] /\ h[m+1] = last /\ \A k \in 0..m : h[k] = g[k]
    BY <2>3
  <2>5. h[0] = <<>>
    BY <2>2, <2>4
  <2>6. ASSUME NEW k \in 1..(m+1)
        PROVE  h[k] = Next(h, k)
    <3>1. h[k-1] = g[k-1]
      BY <2>4
    <3>2. CASE k = m+1
      BY <2>4, <3>1, <3>2
    <3>3. CASE k # m+1
      <4>1. k \in 1..m
        BY <3>3
      <4>2. h[k] = g[k] /\ g[k] = Next(g, k)
        BY <2>2, <2>4, <4>1
      <4>. QED  BY <3>1, <4>2
    <3>. QED  BY <3>2, <3>3
  <2> HIDE DEF h
  <2>7. Rec(h, m+1)
    BY <2>5, <2>6
  <2>. QED  BY <2>4, <2>7
<1>5. n \in I
  <2> HIDE DEF I
  <2>. QED  BY <1>1, <1>3, <1>4, NatSetInduction
<1>6. PICK g \in [0..n -> V] : Rec(g, n)
  BY <1>1, <1>5
<1> DEFINE Eqn(p) == p = [i \in 0..n |-> IF i = 0 THEN <<>>
                                         ELSE IF s[i] \in S THEN Append(p[i-1], s[i]) ELSE p[i-1]]
           P == CHOOSE p : Eqn(p)
<1>7. Eqn(g)
  <2>1. \A k \in 0..n : g[k] = IF k = 0 THEN <<>>
                               ELSE IF s[k] \in S THEN Append(g[k-1], s[k]) ELSE g[k-1]
    <3> TAKE k \in 0..n
    <3>1. CASE k = 0
      BY <1>6, <3>1
    <3>2. CASE k # 0
      <4>1. k \in 1..n
        BY <1>1, <3>2
      <4>2. g[k] = Next(g, k)
        BY <1>6, <4>1
      <4>. QED  BY <3>2, <4>2
    <3>. QED  BY <3>1, <3>2
  <2> HIDE DEF V
  <2>. QED  BY <2>1
<1>8. Keep(s, S) = P[n]
  BY DEF Keep
<1>9. Eqn(P)
  <2> HIDE DEF Eqn
  <2>. QED  BY <1>7
<1>10. Rec(P, n)
  <2> HIDE DEF P
  <2>1. \A k \in 0..n : P[k] = IF k = 0 THEN <<>>
                               ELSE IF s[k] \in S THEN Append(P[k-1], s[k]) ELSE P[k-1]
    BY <1>9
  <2>. QED  BY <1>1, <2>1
<1> HIDE DEF P, Eqn, I
<1> DEFINE Good(m) == /\ P[m] \in V /\ Has(P[m], m)
                      /\ (\A i, k \in 1..n : s[i] = s[k] => i = k) => Once(P[m])
           J == {m \in Nat : m <= n => Good(m)}
<1>11. 0 \in J
  <2>1. P[0] = <<>> /\ Len(<<>>) = 0
    BY <1>10
  <2>2. P[0] \in V
    BY <1>2, <2>1
  <2>3. Has(P[0], 0)
    BY <2>1
  <2>4. Once(P[0])
    BY <2>1
  <2>5. Good(0)
    <3> HIDE DEF Has, Once
    <3>. QED  BY <2>2, <2>3, <2>4
  <2> HIDE DEF Good
  <2>. QED  BY <2>5
<1>12. ASSUME NEW m \in Nat, m \in J
       PROVE  m+1 \in J
  <2>1. SUFFICES ASSUME m+1 <= n
                 PROVE  Good(m+1)
    OBVIOUS
  <2>2. Good(m) /\ m+1 \in 1..n /\ (m+1) - 1 = m
    BY <1>12, <2>1
  <2>3. P[m+1] = IF s[m+1] \in S THEN Append(P[m], s[m+1]) ELSE P[m]
    BY <1>10, <2>2
  <2> DEFINE t == P[m]
             x == s[m+1]
  <2>4. t \in Seq(T) /\ x \in T /\ Has(t, m)
    BY <1>1, <2>2
  <2>5. CASE x \notin S
    <3>1. P[m+1] = t
      BY <2>3, <2>5
    <3>2. \A i \in 1..(m+1) : i \in 1..m \/ i = m+1
      OBVIOUS
    <3> HIDE DEF t
    <3>3. Has(t, m+1)
      BY <2>4, <2>5, <3>2
    <3>. QED  BY <2>2, <3>1, <3>3 DEF t
  <2>6. CASE x \in S
    <3> DEFINE u == Append(t, x)
    <3> HIDE DEF t, x
    <3>1. u \in Seq(T) /\ Len(u) = Len(t) + 1 /\ Len(t) \in Nat
      BY <2>4
    <3>2. u[Len(t) + 1] = x /\ \A k \in 1..Len(t) : u[k] = t[k]
      BY <2>4
    <3> HIDE DEF u
    <3>3. Has(u, m+1)
      <4> SUFFICES ASSUME NEW y
                   PROVE  (\E k \in 1..Len(u) : u[k] = y) <=> y \in S /\ \E i \in 1..(m+1) : s[i] = y
        OBVIOUS
      <4>1. (\E k \in 1..Len(u) : u[k] = y) <=> (\E k \in 1..Len(t) : t[k] = y) \/ y = x
        <5>1. \A k \in 1..Len(u) : k \in 1..Len(t) \/ k = Len(t) + 1
          BY <3>1
        <5>2. Len(t) + 1 \in 1..Len(u) /\ \A k \in 1..Len(t) : k \in 1..Len(u)
          BY <3>1
        <5>. QED  BY <3>2, <5>1, <5>2
      <4>2. (\E i \in 1..(m+1) : s[i] = y) <=> (\E i \in 1..m : s[i] = y) \/ y = x
        BY DEF x
      <4>. QED  BY <2>4, <2>6, <4>1, <4>2
    <3>4. ASSUME \A i, k \in 1..n : s[i] = s[k] => i = k, Once(t)
          PROVE  Once(u)
      <4>1. \A i \in 1..m : s[i] # x
        BY <2>2, <3>4 DEF x
      <4>2. \A k \in 1..Len(t) : t[k] # x
        BY <2>4, <4>1
      <4>. QED  BY <3>1, <3>2, <3>4, <4>2
    <3>5. P[m+1] = u
      BY <2>3, <2>6 DEF t, x, u
    <3>6. (\A i, k \in 1..n : s[i] = s[k] => i = k) => Once(u)
      BY <2>2, <3>4 DEF t
    <3>. QED  BY <3>1, <3>3, <3>5, <3>6
  <2>. QED  BY <2>5, <2>6
<1>13. Nat \subseteq J
  <2> HIDE DEF J
  <2>. QED  BY <1>11, <1>12, NatSetInduction
<1>14. Good(n)
  <2> HIDE DEF Good
  <2>. QED  BY <1>1, <1>13
<1>. QED  BY <1>8, <1>14

-----------------------------------------------------------------------------
(* What a set of jobs asks for is a natural.                               *)
LEMMA SumType ==
  ASSUME NEW n \in Nat, NEW S, NEW Amount \in [1..n -> Nat]
  PROVE  Asked(S, Amount, n) \in Nat
<1>1. [j \in 1..n |-> IF j \in S THEN Amount[j] ELSE 0] \in [1..n -> Nat]
  OBVIOUS
<1>. QED  BY <1>1, TotalNat DEF Asked

(* More jobs do not ask for less.                                          *)
LEMMA SumMonotone ==
  ASSUME NEW n \in Nat, NEW S, NEW T, S \subseteq T, NEW Amount \in [1..n -> Nat]
  PROVE  Asked(S, Amount, n) <= Asked(T, Amount, n)
<1> DEFINE f == [j \in 1..n |-> IF j \in S THEN Amount[j] ELSE 0]
           g == [j \in 1..n |-> IF j \in T THEN Amount[j] ELSE 0]
<1>1. f \in [1..n -> Int] /\ g \in [1..n -> Int] /\ \A k \in 1..n : f[k] <= g[k]
  OBVIOUS
<1>2. Asked(S, Amount, n) = Total(f, n) /\ Asked(T, Amount, n) = Total(g, n)
  BY DEF Asked
<1> HIDE DEF f, g
<1>. QED  BY <1>1, <1>2, TotalLe

(* Jobs that each ask for no more do not ask for more together.            *)
LEMMA SumBelow ==
  ASSUME NEW n \in Nat, NEW S, NEW Less \in [1..n -> Nat], NEW More \in [1..n -> Nat],
         \A k \in 1..n : k \in S => Less[k] <= More[k]
  PROVE  Asked(S, Less, n) <= Asked(S, More, n)
<1> DEFINE f == [j \in 1..n |-> IF j \in S THEN Less[j] ELSE 0]
           g == [j \in 1..n |-> IF j \in S THEN More[j] ELSE 0]
<1>1. f \in [1..n -> Int] /\ g \in [1..n -> Int] /\ \A k \in 1..n : f[k] <= g[k]
  OBVIOUS
<1>2. Asked(S, Less, n) = Total(f, n) /\ Asked(S, More, n) = Total(g, n)
  BY DEF Asked
<1> HIDE DEF f, g
<1>. QED  BY <1>1, <1>2, TotalLe

(* No jobs ask for nothing.                                                *)
LEMMA SumEmpty ==
  ASSUME NEW n \in Nat, NEW Amount \in [1..n -> Nat]
  PROVE  Asked({}, Amount, n) = 0
<1> DEFINE f == [j \in 1..n |-> IF j \in {} THEN Amount[j] ELSE 0]
<1>1. f \in [1..n -> Int] /\ \A k \in 1..n : f[k] = 0
  OBVIOUS
<1>2. Asked({}, Amount, n) = Total(f, n)
  BY DEF Asked
<1> HIDE DEF f
<1>. QED  BY <1>1, <1>2, TotalZero

(* One more job asks for its own amount more.                              *)
LEMMA SumAdd ==
  ASSUME NEW n \in Nat, NEW S, NEW Amount \in [1..n -> Nat], NEW j \in 1..n, j \notin S
  PROVE  Asked(S \cup {j}, Amount, n) = Asked(S, Amount, n) + Amount[j]
<1> DEFINE f == [k \in 1..n |-> IF k \in S THEN Amount[k] ELSE 0]
           g == [k \in 1..n |-> IF k \in S \cup {j} THEN Amount[k] ELSE 0]
<1>1. /\ f \in [1..n -> Int] /\ g \in [1..n -> Int]
      /\ f[j] = 0 /\ g[j] = Amount[j] /\ \A k \in 1..n : k # j => g[k] = f[k]
  OBVIOUS
<1>2. Asked(S, Amount, n) = Total(f, n) /\ Asked(S \cup {j}, Amount, n) = Total(g, n)
  BY DEF Asked
<1> HIDE DEF f, g
<1>3. Total(g, n) = Total(f, n) + (g[j] - f[j])
  BY <1>1, TotalChange
<1>. QED  BY <1>1, <1>2, <1>3

(* A set of jobs asks for no less than any of its jobs.                    *)
LEMMA SumAtLeast ==
  ASSUME NEW n \in Nat, NEW S, NEW Amount \in [1..n -> Nat], NEW j \in 1..n, j \in S
  PROVE  Amount[j] <= Asked(S, Amount, n)
<1> DEFINE f == [k \in 1..n |-> IF k \in S THEN Amount[k] ELSE 0]
<1>1. f \in [1..n -> Nat] /\ f[j] = Amount[j]
  OBVIOUS
<1>2. Asked(S, Amount, n) = Total(f, n)
  BY DEF Asked
<1> HIDE DEF f
<1>. QED  BY <1>1, <1>2, TotalAtLeast

(* Jobs that ask for two things ask for both together.                     *)
LEMMA SumPlus ==
  ASSUME NEW n \in Nat, NEW S, NEW A \in [1..n -> Nat], NEW B \in [1..n -> Nat],
         NEW C \in [1..n -> Nat], \A k \in 1..n : k \in S => C[k] = A[k] + B[k]
  PROVE  Asked(S, C, n) = Asked(S, A, n) + Asked(S, B, n)
<1> DEFINE f == [k \in 1..n |-> IF k \in S THEN A[k] ELSE 0]
           g == [k \in 1..n |-> IF k \in S THEN B[k] ELSE 0]
           h == [k \in 1..n |-> IF k \in S THEN C[k] ELSE 0]
<1>1. /\ f \in [1..n -> Int] /\ g \in [1..n -> Int] /\ h \in [1..n -> Int]
      /\ \A k \in 1..n : h[k] = f[k] + g[k]
  OBVIOUS
<1>2. Asked(S, A, n) = Total(f, n) /\ Asked(S, B, n) = Total(g, n)
      /\ Asked(S, C, n) = Total(h, n)
  BY DEF Asked
<1> HIDE DEF f, g, h
<1>3. Total(h, n) = Total(f, n) + Total(g, n)
  BY ONLY <1>1, n \in Nat, TotalAdd
<1>. QED  BY <1>2, <1>3

(* Jobs that each ask for c times as much ask for c times as much together.*)
LEMMA SumTimes ==
  ASSUME NEW n \in Nat, NEW S, NEW A \in [1..n -> Nat], NEW c \in Nat,
         NEW B \in [1..n -> Nat], \A k \in 1..n : k \in S => B[k] = c * A[k]
  PROVE  Asked(S, B, n) = c * Asked(S, A, n)
<1> DEFINE f == [k \in 1..n |-> IF k \in S THEN A[k] ELSE 0]
           g == [k \in 1..n |-> IF k \in S THEN B[k] ELSE 0]
           F == Partial(f, n)
           q == [k \in 0..n |-> c * F[k]]
<1>1. f \in [1..n -> Int] /\ g \in [1..n -> Int]
  OBVIOUS
<1>2. \A k \in 1..n : g[k] = c * f[k]
  <2>1. c * 0 = 0
    OBVIOUS
  <2>. QED  BY <2>1
<1>3. Asked(S, A, n) = Total(f, n) /\ Asked(S, B, n) = Total(g, n)
  BY DEF Asked
<1> HIDE DEF f, g
<1>4. F \in [0..n -> Int] /\ F[0] = 0 /\ \A k \in 1..n : F[k] = F[k-1] + f[k]
  BY <1>1, PartialDef
<1> HIDE DEF F
<1>5. q[0] = 0
  BY <1>4
<1>6. ASSUME NEW k \in 1..n PROVE q[k] = q[k-1] + g[k]
  <2>1. k-1 \in 0..n /\ k \in 0..n /\ F[k-1] \in Int /\ f[k] \in Int
    BY <1>1, <1>4
  <2>2. F[k] = F[k-1] + f[k] /\ g[k] = c * f[k]
    BY <1>2, <1>4
  <2>3. \A x, y \in Int : c * (x + y) = c * x + c * y
    BY SMT
  <2>. QED  BY <2>1, <2>2, <2>3
<1>7. \A k \in 0..n : Partial(g, n)[k] = q[k]
  <2> HIDE DEF q
  <2>. QED  BY <1>1, <1>5, <1>6, PartialUnique
<1>. QED  BY <1>3, <1>7 DEF Total, F

(* A recursion over 1..n whose steps stay in V has a solution.             *)
Recursion(g, base, step, n) == g[0] = base /\ \A i \in 1..n : g[i] = step[i][g[i-1]]

LEMMA RecursionExists ==
  ASSUME NEW n \in Nat, NEW V, NEW base \in V, NEW step \in [1..n -> [V -> V]]
  PROVE  \E g \in [0..n -> V] : Recursion(g, base, step, n)
<1> DEFINE Rec(g, m) == g[0] = base /\ \A i \in 1..m : g[i] = step[i][g[i-1]]
           S == {m \in Nat : m <= n => \E g \in [0..m -> V] : Rec(g, m)}
<1>1. 0 \in S
  <2>1. [i \in 0..0 |-> base] \in [0..0 -> V] /\ Rec([i \in 0..0 |-> base], 0)
    OBVIOUS
  <2>. QED  BY <2>1
<1>2. ASSUME NEW m \in Nat, m \in S
      PROVE  m+1 \in S
  <2> SUFFICES ASSUME m+1 <= n PROVE \E g \in [0..(m+1) -> V] : Rec(g, m+1)
    OBVIOUS
  <2>1. PICK g \in [0..m -> V] : Rec(g, m)
    BY <1>2
  <2> DEFINE h == [i \in 0..(m+1) |-> IF i = m+1 THEN step[m+1][g[m]] ELSE g[i]]
  <2>2. step[m+1][g[m]] \in V
    <3>1. m+1 \in 1..n /\ g[m] \in V
      BY <2>1
    <3>. QED  BY <3>1
  <2>3. h \in [0..(m+1) -> V] /\ h[0] = base
    BY <2>1, <2>2
  <2>4. ASSUME NEW i \in 1..(m+1)
        PROVE  h[i] = step[i][h[i-1]]
    <3>1. CASE i = m+1
      BY <3>1
    <3>2. CASE i # m+1
      <4>1. i \in 1..m /\ i-1 \in 0..(m+1) /\ i-1 # m+1 /\ i \in 0..(m+1)
        BY <3>2
      <4>2. h[i] = g[i] /\ h[i-1] = g[i-1]
        BY <4>1, <3>2
      <4>. QED  BY <4>1, <4>2, <2>1
    <3>. QED  BY <3>1, <3>2
  <2>. QED  BY <2>3, <2>4
<1>3. n \in S
  <2> HIDE DEF S
  <2>. QED  BY <1>1, <1>2, NatSetInduction
<1>. QED  BY <1>3 DEF Recursion

(* The quotient of naturals, and its remainder.                            *)
LEMMA DivBounds ==
  ASSUME NEW a \in Nat, NEW b \in Nat \ {0}
  PROVE  /\ a \div b \in Nat
         /\ (a \div b) * b <= a
         /\ a < (a \div b + 1) * b
<1>1. a \div b \in Int /\ b * (a \div b) <= a /\ a < b * (a \div b + 1)
  BY SMT
<1>2. a \div b >= 0
  BY SMT
<1>. QED  BY <1>1, <1>2, SMT

(* A quotient does not fall when the dividend does not.                    *)
LEMMA DivMonotone ==
  ASSUME NEW a \in Nat, NEW c \in Nat, NEW b \in Nat \ {0}, a <= c
  PROVE  a \div b <= c \div b
<1> DEFINE x == a \div b
           y == c \div b
<1>1. x \in Nat /\ y \in Nat /\ x * b <= a /\ c < (y + 1) * b
  BY DivBounds
<1> HIDE DEF x, y
<1>2. SUFFICES ASSUME y < x PROVE FALSE
  BY <1>1 DEF x, y
<1>3. (y + 1) * b <= x * b
  BY <1>1, <1>2, TimesMonotone
<1>4. x * b \in Int /\ (y + 1) * b \in Int
  BY <1>1
<1>. QED  BY <1>1, <1>3, <1>4

(* A bound on the quotient, from one on the dividend.                      *)
LEMMA DivAtMost ==
  ASSUME NEW a \in Nat, NEW b \in Nat \ {0}, NEW q \in Nat, a <= q * b
  PROVE  a \div b <= q
<1> DEFINE x == a \div b
<1>1. x \in Nat /\ x * b <= a
  BY DivBounds
<1> HIDE DEF x
<1>2. SUFFICES ASSUME q < x PROVE FALSE
  BY <1>1 DEF x
<1>3. q * b < x * b
  BY <1>1, <1>2, TimesStrict
<1>4. x * b \in Int /\ q * b \in Int
  BY <1>1
<1>. QED  BY <1>1, <1>3, <1>4

-----------------------------------------------------------------------------
(* A finite set has a greatest element under a total preorder: the CHOOSEs *)
(* of _best_fit_node and of the instance selection choose one.             *)
LEMMA GreatestExists ==
  ASSUME NEW S, IsFiniteSet(S), S # {}, NEW R,
         \A x, y \in S : <<x, y>> \in R \/ <<y, x>> \in R,
         \A x, y, z \in S : <<x, y>> \in R /\ <<y, z>> \in R => <<x, z>> \in R
  PROVE  \E x \in S : \A y \in S : <<x, y>> \in R
<1> DEFINE Has(T) == \E x \in T : \A y \in T : <<x, y>> \in R
           N == {m \in Nat : \A T \in SUBSET S : Cardinality(T) = m+1 => Has(T)}
<1>1. 0 \in N
  <2> SUFFICES ASSUME NEW T \in SUBSET S, Cardinality(T) = 1 PROVE Has(T)
    OBVIOUS
  <2>1. IsFiniteSet(T)
    BY FS_Subset
  <2>2. PICK x : T = {x}
    BY <2>1, FS_Singleton
  <2>. QED  BY <2>2
<1>2. ASSUME NEW m \in Nat, m \in N
      PROVE  m+1 \in N
  <2> SUFFICES ASSUME NEW T \in SUBSET S, Cardinality(T) = m+2 PROVE Has(T)
    OBVIOUS
  <2>1. IsFiniteSet(T) /\ T # {}
    BY FS_Subset, FS_EmptySet
  <2>2. PICK z \in T : TRUE
    BY <2>1
  <2>3. Cardinality(T \ {z}) = m+1
    BY <2>1, FS_RemoveElement
  <2>4. PICK x \in T \ {z} : \A y \in T \ {z} : <<x, y>> \in R
    BY <1>2, <2>3
  <2>5. CASE <<x, z>> \in R
    BY <2>4, <2>5
  <2>6. CASE <<z, x>> \in R
    <3>1. \A y \in T : <<z, y>> \in R
      BY <2>2, <2>4, <2>6
    <3>. QED  BY <3>1
  <2>. QED  BY <2>2, <2>4, <2>5, <2>6
<1>3. Cardinality(S) \in Nat /\ Cardinality(S) # 0
  BY FS_CardinalityType, FS_EmptySet
<1>4. Cardinality(S) - 1 \in N
  <2> HIDE DEF N
  <2>1. Nat \subseteq N
    BY <1>1, <1>2, NatSetInduction
  <2>. QED  BY <1>3, <2>1
<1>. QED  BY <1>3, <1>4

(* What comes before j in S, in the order Earlier.                         *)
Ahead(S, j, Earlier) == {k \in S : <<k, j>> \in Earlier}

StrictOrder(Earlier, Q) ==
  /\ \A x \in Q : <<x, x>> \notin Earlier
  /\ \A x, y \in Q : x # y => <<x, y>> \in Earlier \/ <<y, x>> \in Earlier
  /\ \A x, y, z \in Q : <<x, y>> \in Earlier /\ <<y, z>> \in Earlier => <<x, z>> \in Earlier

(* S is taken from Q in that order, a job when it fits what is ahead.      *)
TakenFrom(Q, S, Earlier, fits) ==
  \A j \in Q : j \in S <=> <<Ahead(S, j, Earlier), j>> \in fits

(* The set a greedy pass takes exists: a job is taken when it fits beside  *)
(* the jobs taken before it, in any strict order of the queue.             *)
LEMMA GreedyExists ==
  ASSUME NEW Q, IsFiniteSet(Q), NEW Earlier, StrictOrder(Earlier, Q),
         NEW fits \in SUBSET ((SUBSET Q) \X Q)
  PROVE  \E S \in SUBSET Q : TakenFrom(Q, S, Earlier, fits)
<1> DEFINE Taken(T, S) == \A j \in T : j \in S <=> <<Ahead(S, j, Earlier), j>> \in fits
           N == {m \in Nat : \A T \in SUBSET Q : Cardinality(T) = m =>
                               \E S \in SUBSET T : Taken(T, S)}
           Later == {p \in Q \X Q : p[1] = p[2] \/ <<p[2], p[1]>> \in Earlier}
<1>1. 0 \in N
  <2> SUFFICES ASSUME NEW T \in SUBSET Q, Cardinality(T) = 0
               PROVE  \E S \in SUBSET T : Taken(T, S)
    OBVIOUS
  <2>1. T = {}
    BY FS_Subset, FS_EmptySet
  <2>. QED  BY <2>1
<1>2. ASSUME NEW m \in Nat, m \in N
      PROVE  m+1 \in N
  <2> SUFFICES ASSUME NEW T \in SUBSET Q, Cardinality(T) = m+1
               PROVE  \E S \in SUBSET T : Taken(T, S)
    <3> HIDE DEF Taken
    <3>. QED  OBVIOUS
  <2>1. IsFiniteSet(T) /\ T # {}
    BY FS_Subset, FS_EmptySet
  <2>2. PICK z \in T : \A y \in T : <<z, y>> \in Later
    <3>1. \A x, y \in T : <<x, y>> \in Later <=> x = y \/ <<y, x>> \in Earlier
      OBVIOUS
    <3> HIDE DEF Later
    <3>2. \A x, y \in T : <<x, y>> \in Later \/ <<y, x>> \in Later
      BY <3>1 DEF StrictOrder
    <3>3. \A x, y, w \in T : <<x, y>> \in Later /\ <<y, w>> \in Later => <<x, w>> \in Later
      BY <3>1 DEF StrictOrder
    <3>. QED  BY <2>1, <3>2, <3>3, GreatestExists
  <2>3. \A y \in T : <<z, y>> \notin Earlier
    <3>1. \A y \in T : z = y \/ <<y, z>> \in Earlier
      BY <2>2
    <3>. QED  BY <3>1 DEF StrictOrder
  <2>4. Cardinality(T \ {z}) = m
    <3>1. Cardinality(T \ {z}) = Cardinality(T) - 1
      BY <2>1, <2>2, FS_RemoveElement
    <3>. QED  BY <3>1
  <2>5. PICK S \in SUBSET (T \ {z}) : Taken(T \ {z}, S)
    <3>1. T \ {z} \in SUBSET Q
      OBVIOUS
    <3> HIDE DEF Taken
    <3>. QED  BY <1>2, <2>4, <3>1
  <2> DEFINE U == IF <<Ahead(S, z, Earlier), z>> \in fits THEN S \cup {z} ELSE S
  <2>6. U \in SUBSET T /\ \A j \in T : Ahead(U, j, Earlier) = Ahead(S, j, Earlier)
    BY <2>3 DEF Ahead
  <2>7. \A j \in T : j # z => (j \in U <=> j \in S)
    OBVIOUS
  <2>8. z \in U <=> <<Ahead(S, z, Earlier), z>> \in fits
    BY <2>5
  <2>9. Taken(T, U)
    <3> HIDE DEF U
    <3>1. ASSUME NEW j \in T
          PROVE  j \in U <=> <<Ahead(U, j, Earlier), j>> \in fits
      <4>1. CASE j = z
        BY <2>6, <2>8, <4>1
      <4>2. CASE j # z
        BY <2>5, <2>6, <2>7, <4>2
      <4>. QED  BY <4>1, <4>2
    <3>. QED  BY <3>1
  <2>. QED  BY <2>6, <2>9
<1>3. Cardinality(Q) \in N
  <2> HIDE DEF N
  <2>1. Nat \subseteq N
    BY <1>1, <1>2, NatSetInduction
  <2>. QED  BY <2>1, FS_CardinalityType
<1>. QED  BY <1>3 DEF TakenFrom

(* OneNode is what its definition says: a set of jobs that each fit beside *)
(* the earlier ones of it.                                                 *)
LEMMA OneNodeTakes ==
  ASSUME NEW n \in Nat, NEW queue \in SUBSET (1..n), NEW ram, NEW vcpu, NEW Soft, NEW Vcpu
  PROVE  LET S == OneNode(queue, ram, vcpu, Soft, Vcpu, n)
         IN  /\ S \in SUBSET queue
             /\ \A j \in queue :
                  LET before == {k \in S : k < j}
                  IN  j \in S <=> /\ Asked(before, Soft, n) + Soft[j] <= ram
                                  /\ Asked(before, Vcpu, n) + Vcpu[j] <= vcpu
<1> DEFINE Earlier == {p \in queue \X queue : p[1] < p[2]}
           Fits(B, j) == Asked(B, Soft, n) + Soft[j] <= ram /\ Asked(B, Vcpu, n) + Vcpu[j] <= vcpu
           fits == {p \in (SUBSET queue) \X queue : Fits(p[1], p[2])}
<1>1. \A x, y \in queue : <<x, y>> \in Earlier <=> x < y
  OBVIOUS
<1>2. /\ fits \in SUBSET ((SUBSET queue) \X queue)
      /\ \A B \in SUBSET queue, j \in queue : <<B, j>> \in fits <=> Fits(B, j)
  <2> HIDE DEF Fits
  <2>. QED  OBVIOUS
<1>3. IsFiniteSet(queue)
  <2>1. IsFiniteSet(1..n)
    BY FS_Interval
  <2>. QED  BY <2>1, FS_Subset
<1> HIDE DEF Earlier, fits
<1>4. PICK S \in SUBSET queue : TakenFrom(queue, S, Earlier, fits)
  <2>1. StrictOrder(Earlier, queue)
    BY <1>1 DEF StrictOrder
  <2>. QED  BY <1>2, <1>3, <2>1, GreedyExists
<1>5. \A j \in queue : j \in S <=> Fits({k \in S : k < j}, j)
  <2> HIDE DEF Fits
  <2> TAKE j \in queue
  <2>1. Ahead(S, j, Earlier) = {k \in S : k < j}
    BY <1>1 DEF Ahead
  <2>. QED  BY <1>2, <1>4, <2>1 DEF TakenFrom
<1>. QED  BY <1>5 DEF OneNode

(* One node takes some of the jobs of the queue.                           *)
LEMMA OneNodeType ==
  ASSUME NEW n \in Nat, NEW queue \in SUBSET (1..n), NEW ram, NEW vcpu, NEW Soft, NEW Vcpu
  PROVE  OneNode(queue, ram, vcpu, Soft, Vcpu, n) \in SUBSET queue
BY OneNodeTakes

(* It takes none only if none fits an empty node.                          *)
LEMMA OneNodeNone ==
  ASSUME NEW n \in Nat, NEW queue \in SUBSET (1..n), NEW ram, NEW vcpu, NEW Soft, NEW Vcpu,
         OneNode(queue, ram, vcpu, Soft, Vcpu, n) = {}, NEW j \in queue
  PROVE  ~(/\ Asked({}, Soft, n) + Soft[j] <= ram
           /\ Asked({}, Vcpu, n) + Vcpu[j] <= vcpu)
<1>1. {k \in {} : k < j} = {}
  OBVIOUS
<1>. QED  BY <1>1, OneNodeTakes

-----------------------------------------------------------------------------
(* A provisioning pass over the sets of jobs of Q: what to launch first,   *)
(* and then what f has for the jobs that are left.                         *)
Pass(f, Q, choice, left) ==
  [S \in SUBSET Q |-> IF S = {} THEN <<>> ELSE IF choice[S] = 0 THEN <<>>
                      ELSE <<choice[S]>> \o f[left[S]]]

(* Whatever is launched takes a job.                                       *)
Shrinks(Q, choice, left) ==
  \A S \in SUBSET Q : S # {} /\ choice[S] # 0 => left[S] \in SUBSET S /\ left[S] # S

(* Less is left by cardinality.                                            *)
LEMMA LessLeft ==
  ASSUME NEW Q, IsFiniteSet(Q), NEW choice, NEW left, Shrinks(Q, choice, left),
         NEW S \in SUBSET Q, S # {}, choice[S] # 0
  PROVE  /\ left[S] \in SUBSET Q
         /\ Cardinality(left[S]) \in Nat /\ Cardinality(S) \in Nat
         /\ Cardinality(left[S]) < Cardinality(S)
<1>1. left[S] \in SUBSET S /\ left[S] # S
  BY DEF Shrinks
<1>2. IsFiniteSet(S)
  BY FS_Subset
<1>3. IsFiniteSet(left[S]) /\ Cardinality(left[S]) <= Cardinality(S)
      /\ (Cardinality(S) = Cardinality(left[S]) => S = left[S])
  BY <1>1, <1>2, FS_Subset
<1>4. Cardinality(left[S]) \in Nat /\ Cardinality(S) \in Nat
  BY <1>2, <1>3, FS_CardinalityType
<1>. QED  BY <1>1, <1>3, <1>4

(* A pass that shrinks the queue is a function: the provisioning ends.     *)
LEMMA PassExists ==
  ASSUME NEW Q, IsFiniteSet(Q), NEW T, NEW choice \in [SUBSET Q -> T \cup {0}], NEW left,
         Shrinks(Q, choice, left)
  PROVE  \E f : f = Pass(f, Q, choice, left)
<1> DEFINE D(m) == {S \in SUBSET Q : Cardinality(S) <= m}
           Stop(S) == S = {} \/ choice[S] = 0
           Value(f, S) == IF Stop(S) THEN <<>> ELSE <<choice[S]>> \o f[left[S]]
           V == Seq(T)
           N == {m \in Nat : \E f \in [D(m) -> V] : \A S \in D(m) : f[S] = Value(f, S)}
<1>1. \A m \in Nat : \A S \in D(m+1) : ~Stop(S) => left[S] \in D(m)
  <2> SUFFICES ASSUME NEW m \in Nat, NEW S \in D(m+1), ~Stop(S) PROVE left[S] \in D(m)
    OBVIOUS
  <2>1. left[S] \in SUBSET Q /\ Cardinality(left[S]) \in Nat /\ Cardinality(S) \in Nat
        /\ Cardinality(left[S]) < Cardinality(S)
    BY LessLeft
  <2>. QED  BY <2>1
<1>2. \A S \in SUBSET Q, v \in V : ~Stop(S) => choice[S] # 0 /\ <<choice[S]>> \o v \in V
  <2> SUFFICES ASSUME NEW S \in SUBSET Q, NEW v \in Seq(T), ~Stop(S)
               PROVE  choice[S] # 0 /\ <<choice[S]>> \o v \in Seq(T)
    OBVIOUS
  <2>1. choice[S] \in T
    OBVIOUS
  <2>2. <<choice[S]>> \in Seq(T)
    BY <2>1
  <2>. QED  BY <2>2
<1>3. <<>> \in V
  OBVIOUS
<1>4. \A S \in D(0) : S = {}
  <2> SUFFICES ASSUME NEW S \in SUBSET Q, Cardinality(S) <= 0 PROVE S = {}
    OBVIOUS
  <2>1. IsFiniteSet(S)
    BY FS_Subset
  <2>2. Cardinality(S) \in Nat
    BY <2>1, FS_CardinalityType
  <2>. QED  BY <2>1, <2>2, FS_EmptySet
<1>5. \A m \in Nat : D(m) \subseteq SUBSET Q
  OBVIOUS
<1>6. \A m \in Nat : D(m) \subseteq D(m+1)
  <2> SUFFICES ASSUME NEW m \in Nat, NEW S \in SUBSET Q, Cardinality(S) <= m
               PROVE  Cardinality(S) <= m+1
    OBVIOUS
  <2>1. IsFiniteSet(S)
    BY FS_Subset
  <2>2. Cardinality(S) \in Nat
    BY <2>1, FS_CardinalityType
  <2>. QED  BY <2>2
<1>7. D(Cardinality(Q)) = SUBSET Q /\ Cardinality(Q) \in Nat
  <2>1. \A S \in SUBSET Q : Cardinality(S) <= Cardinality(Q)
    BY FS_Subset
  <2>. QED  BY <2>1, FS_CardinalityType
<1>8. \A S \in SUBSET Q : \A f : Value(f, S) =
        IF S = {} THEN <<>> ELSE IF choice[S] = 0 THEN <<>> ELSE <<choice[S]>> \o f[left[S]]
  OBVIOUS
<1>9. \A S \in SUBSET Q : \A f : Stop(S) => Value(f, S) = <<>>
  OBVIOUS
<1>10. \A S \in SUBSET Q : \A f, g : f[left[S]] = g[left[S]] => Value(f, S) = Value(g, S)
  OBVIOUS
<1>11. \A S \in SUBSET Q : \A f : ~Stop(S) => Value(f, S) = <<choice[S]>> \o f[left[S]]
  OBVIOUS
<1>12. \A S : S = {} => Stop(S)
  OBVIOUS
<1> HIDE DEF D, Stop, Value, V
<1>13. 0 \in N
  <2> DEFINE f == [S \in D(0) |-> <<>>]
  <2>1. f \in [D(0) -> V] /\ \A S \in D(0) : f[S] = <<>>
    BY <1>3
  <2>2. \A S \in D(0) : Value(f, S) = <<>>
    BY <1>4, <1>5, <1>9, <1>12
  <2> HIDE DEF f
  <2>. QED  BY <2>1, <2>2
<1>14. ASSUME NEW m \in Nat, m \in N
       PROVE  m+1 \in N
  <2>1. PICK f \in [D(m) -> V] : \A S \in D(m) : f[S] = Value(f, S)
    BY <1>14
  <2> DEFINE g == [S \in D(m+1) |-> IF S \in D(m) THEN f[S] ELSE Value(f, S)]
  <2>2. \A S \in D(m+1) : g[S] = IF S \in D(m) THEN f[S] ELSE Value(f, S)
    OBVIOUS
  <2>3. \A S \in D(m+1) : Value(f, S) \in V
    <3> TAKE S \in D(m+1)
    <3>1. S \in SUBSET Q
      BY <1>5
    <3>2. CASE Stop(S)
      BY <1>3, <1>9, <3>1, <3>2
    <3>3. CASE ~Stop(S)
      <4>1. f[left[S]] \in V
        BY <1>1, <3>3
      <4>2. Value(f, S) = <<choice[S]>> \o f[left[S]]
        BY <1>11, <3>1, <3>3
      <4>3. choice[S] # 0 /\ <<choice[S]>> \o f[left[S]] \in V
        BY <1>2, <3>1, <3>3, <4>1
      <4>. QED  BY <4>2, <4>3
    <3>. QED  BY <3>2, <3>3
  <2>4. g \in [D(m+1) -> V]
    BY <2>2, <2>3
  <2> HIDE DEF g
  <2>5. \A S \in D(m+1) : g[S] = Value(f, S)
    BY <2>1, <2>2
  <2>6. \A S \in D(m+1) : Value(f, S) = Value(g, S)
    <3> TAKE S \in D(m+1)
    <3>1. S \in SUBSET Q
      BY <1>5
    <3>2. CASE Stop(S)
      BY <1>9, <3>1, <3>2
    <3>3. CASE ~Stop(S)
      <4>1. left[S] \in D(m) /\ left[S] \in D(m+1)
        BY <1>1, <1>6, <3>3
      <4>2. g[left[S]] = f[left[S]]
        BY <2>2, <4>1
      <4>. QED  BY <1>10, <3>1, <4>2
    <3>. QED  BY <3>2, <3>3
  <2>. QED  BY <2>4, <2>5, <2>6
<1>15. Cardinality(Q) \in N
  <2> HIDE DEF N
  <2>. QED  BY <1>7, <1>13, <1>14, NatSetInduction
<1>16. PICK f \in [SUBSET Q -> V] : \A S \in SUBSET Q : f[S] = Value(f, S)
  BY <1>7, <1>15
<1>17. f = Pass(f, Q, choice, left)
  <2>1. \A S \in SUBSET Q : f[S] = Pass(f, Q, choice, left)[S]
    BY <1>8, <1>16 DEF Pass
  <2>. QED  BY <1>16, <2>1 DEF Pass
<1>. QED  BY <1>16, <1>17 DEF V

(* Such a function has sequences as values, whichever CHOOSE takes.        *)
LEMMA PassType ==
  ASSUME NEW Q, IsFiniteSet(Q), NEW T, NEW choice \in [SUBSET Q -> T \cup {0}], NEW left,
         Shrinks(Q, choice, left), NEW f, f = Pass(f, Q, choice, left)
  PROVE  \A S \in SUBSET Q : f[S] \in Seq(T)
<1> DEFINE V == Seq(T)
           N == {m \in Nat : \A S \in SUBSET Q : Cardinality(S) <= m => f[S] \in V}
<1>1. \A S \in SUBSET Q : f[S] = IF S = {} THEN <<>> ELSE IF choice[S] = 0 THEN <<>>
                                  ELSE <<choice[S]>> \o f[left[S]]
  BY DEF Pass
<1>2. \A S \in SUBSET Q, v \in V : choice[S] # 0 => <<choice[S]>> \o v \in V
  <2> SUFFICES ASSUME NEW S \in SUBSET Q, NEW v \in Seq(T), choice[S] # 0
               PROVE  <<choice[S]>> \o v \in Seq(T)
    OBVIOUS
  <2>1. choice[S] \in T
    OBVIOUS
  <2>2. <<choice[S]>> \in Seq(T)
    BY <2>1
  <2>. QED  BY <2>2
<1>3. <<>> \in V
  OBVIOUS
<1> HIDE DEF V
<1>4. 0 \in N
  <2> SUFFICES ASSUME NEW S \in SUBSET Q, Cardinality(S) <= 0 PROVE f[S] \in V
    OBVIOUS
  <2>1. IsFiniteSet(S)
    BY FS_Subset
  <2>2. S = {}
    BY <2>1, FS_CardinalityType, FS_EmptySet
  <2>. QED  BY <1>1, <1>3, <2>2
<1>5. ASSUME NEW m \in Nat, m \in N
      PROVE  m+1 \in N
  <2> SUFFICES ASSUME NEW S \in SUBSET Q, Cardinality(S) <= m+1 PROVE f[S] \in V
    OBVIOUS
  <2>1. CASE S = {} \/ choice[S] = 0
    BY <1>1, <1>3, <2>1
  <2>2. CASE S # {} /\ choice[S] # 0
    <3>1. left[S] \in SUBSET Q /\ Cardinality(left[S]) \in Nat /\ Cardinality(S) \in Nat
          /\ Cardinality(left[S]) < Cardinality(S)
      BY <2>2, LessLeft
    <3>2. f[left[S]] \in V
      BY <1>5, <3>1
    <3>. QED  BY <1>1, <1>2, <2>2, <3>2
  <2>. QED  BY <2>1, <2>2
<1>6. Nat \subseteq N
  <2> HIDE DEF N
  <2>. QED  BY <1>4, <1>5, NatSetInduction
<1>7. ASSUME NEW S \in SUBSET Q
      PROVE  f[S] \in V
  <2>1. IsFiniteSet(S)
    BY FS_Subset
  <2>2. Cardinality(S) \in Nat
    BY <2>1, FS_CardinalityType
  <2>. QED  BY <1>6, <2>2
<1>. QED  BY <1>7 DEF V

-----------------------------------------------------------------------------
(* Nodes are launched in order: those that are launched are the first.     *)
LEMMA PrefixIsInterval ==
  ASSUME NEW n \in Nat, NEW S \in SUBSET (1..n), \A x \in S, y \in 1..n : y < x => y \in S
  PROVE  Cardinality(S) \in Nat /\ S = 1..Cardinality(S)
<1> DEFINE N == {m \in Nat : \E k \in Nat : {x \in S : x <= m} = 1..k}
<1>0. \A x \in S : x \in 1..n /\ x \in Int
  OBVIOUS
<1>1. 0 \in N
  <2>1. \A x \in S : ~(x <= 0)
    BY <1>0
  <2>2. {x \in S : x <= 0} = {}
    BY <2>1
  <2>3. 1..0 = {}
    OBVIOUS
  <2>. QED  BY <2>2, <2>3
<1>2. ASSUME NEW m \in Nat, m \in N
      PROVE  m+1 \in N
  <2>1. PICK k \in Nat : {x \in S : x <= m} = 1..k
    BY <1>2
  <2>2. CASE m+1 \in S
    <3>1. \A x : x \in S /\ x <= m+1 => x \in 1..(m+1)
      BY <1>0
    <3>2. \A x \in 1..(m+1) : x \in S
      BY <1>0, <2>2
    <3>3. \A x \in 1..(m+1) : x <= m+1
      OBVIOUS
    <3>4. {x \in S : x <= m+1} = 1..(m+1)
      BY <3>1, <3>2, <3>3
    <3>. QED  BY <3>4
  <2>3. CASE m+1 \notin S
    <3>1. {x \in S : x <= m+1} = 1..k
      <4>0. \A x \in S : x <= m+1 <=> x <= m
        BY <1>0, <2>3
      <4>1. {x \in S : x <= m+1} = {x \in S : x <= m}
        BY <4>0
      <4>. QED  BY <2>1, <4>1
    <3>. QED  BY <3>1
  <2>. QED  BY <2>2, <2>3
<1>3. n \in N
  <2> HIDE DEF N
  <2>. QED  BY <1>1, <1>2, NatSetInduction
<1>4. PICK k \in Nat : S = 1..k
  <2>1. \A x \in S : x <= n
    BY <1>0
  <2>2. {x \in S : x <= n} = S
    BY <2>1
  <2>. QED  BY <1>3, <2>2
<1>5. Cardinality(1..k) = k
  BY FS_Interval
<1>. QED  BY <1>4, <1>5

-----------------------------------------------------------------------------
(* choice[f][i], what is chosen for i after f, depends on the earlier      *)
(* choices only.                                                           *)
LooksBack(choice, n, T) ==
  /\ \A f \in [1..n -> T], i \in 1..n : choice[f][i] \in T
  /\ \A f, g \in [1..n -> T], i \in 1..n :
       (\A k \in 1..(i-1) : f[k] = g[k]) => choice[f][i] = choice[g][i]

(* A pass down a list that makes such choices exists.                      *)
LEMMA ChoicesExist ==
  ASSUME NEW n \in Nat, NEW T, NEW t \in T, NEW choice, LooksBack(choice, n, T)
  PROVE  \E f \in [1..n -> T] : \A i \in 1..n : f[i] = choice[f][i]
<1> DEFINE Made(f, m) == \A i \in 1..m : f[i] = choice[f][i]
           N == {m \in Nat : m <= n => \E f \in [1..n -> T] : Made(f, m)}
<1>1. 0 \in N
  <2>1. [i \in 1..n |-> t] \in [1..n -> T] /\ Made([i \in 1..n |-> t], 0)
    OBVIOUS
  <2> HIDE DEF Made
  <2>. QED  BY <2>1
<1>2. ASSUME NEW m \in Nat, m \in N
      PROVE  m+1 \in N
  <2>1. SUFFICES ASSUME m+1 <= n
                 PROVE  \E f \in [1..n -> T] : Made(f, m+1)
    OBVIOUS
  <2>2. PICK f \in [1..n -> T] : Made(f, m)
    BY <1>2, <2>1
  <2> DEFINE g == [f EXCEPT ![m+1] = choice[f][m+1]]
  <2>3. m+1 \in 1..n
    BY <2>1
  <2>4. g \in [1..n -> T] /\ g[m+1] = choice[f][m+1]
        /\ \A i \in 1..n : i # m+1 => g[i] = f[i]
    BY <2>3 DEF LooksBack
  <2> HIDE DEF g
  <2>5. ASSUME NEW i \in 1..(m+1)
        PROVE  g[i] = choice[g][i]
    <3>1. i \in 1..n /\ i \in Int /\ i <= m+1
      BY <2>1
    <3>2. \A k \in 1..(i-1) : k \in 1..n /\ k # m+1
      BY <2>1, <3>1
    <3>3. choice[f][i] = choice[g][i]
      BY <2>4, <3>1, <3>2 DEF LooksBack
    <3>4. CASE i = m+1
      BY <2>4, <3>3, <3>4
    <3>5. CASE i # m+1
      <4>1. i \in 1..m
        BY <3>1, <3>5
      <4>. QED  BY <2>2, <2>4, <3>1, <3>3, <3>5, <4>1
    <3>. QED  BY <3>4, <3>5
  <2>. QED  BY <2>4, <2>5
<1>3. n \in N
  <2> HIDE DEF N
  <2>. QED  BY <1>1, <1>2, NatSetInduction
<1>. QED  BY <1>3

(* pick[g][j] is among V, whatever g the jobs before j have made of hosts. *)
Picks(pick, hosts, queue, V) == \A g \in hosts, j \in queue : pick[g][j] \in V

(* placed is where pick says when the jobs of queue go in their order.     *)
Follows(placed, pick, queue, h) ==
  \A j \in queue : placed[j] = pick[Until(j, queue, h, placed)][j]

(* The pass over the queue that sends each job where pick says exists.     *)
LEMMA GreedyPlaces ==
  ASSUME NEW n \in Nat, NEW queue \in SUBSET (1..n), NEW H, NEW h \in [1..n -> H],
         NEW V \in SUBSET H, 0 \in V, NEW pick, Picks(pick, [1..n -> H], queue, V)
  PROVE  \E placed \in [queue -> V] : Follows(placed, pick, queue, h)
<1> DEFINE value(f, j) == IF j \in queue THEN pick[Until(j, queue, h, f)][j] ELSE 0
           choice == [f \in [1..n -> V] |-> [j \in 1..n |-> value(f, j)]]
<1>1. \A f \in [1..n -> V], j \in 1..n : Until(j, queue, h, f) \in [1..n -> H]
  BY DEF Until
<1>2. \A f, g, j : (\A k \in queue : k < j => f[k] = g[k])
                     => Until(j, queue, h, f) = Until(j, queue, h, g)
  BY DEF Until
<1>3. \A f \in [1..n -> V], j \in 1..n : value(f, j) \in V
  BY <1>1 DEF Picks
<1>4. \A f, g, j : (\A k \in queue : k < j => f[k] = g[k]) => value(f, j) = value(g, j)
  <2> TAKE f, g, j
  <2> HAVE \A k \in queue : k < j => f[k] = g[k]
  <2>1. Until(j, queue, h, f) = Until(j, queue, h, g)
    BY <1>2
  <2>. QED  BY <2>1
<1>5. \A f, j : j \in queue => value(f, j) = pick[Until(j, queue, h, f)][j]
  OBVIOUS
<1> HIDE DEF value
<1>6. \A f \in [1..n -> V], j \in 1..n : choice[f][j] = value(f, j)
  OBVIOUS
<1> HIDE DEF choice
<1>7. LooksBack(choice, n, V)
  <2>1. \A f \in [1..n -> V], j \in 1..n : choice[f][j] \in V
    BY <1>3, <1>6
  <2>2. ASSUME NEW f \in [1..n -> V], NEW g \in [1..n -> V], NEW j \in 1..n,
               \A k \in 1..(j-1) : f[k] = g[k]
        PROVE  choice[f][j] = choice[g][j]
    <3>1. \A k \in queue : k < j => k \in 1..(j-1)
      OBVIOUS
    <3>2. value(f, j) = value(g, j)
      BY <1>4, <2>2, <3>1
    <3>. QED  BY <1>6, <3>2
  <2>. QED  BY <2>1, <2>2 DEF LooksBack
<1>8. PICK f \in [1..n -> V] : \A j \in 1..n : f[j] = choice[f][j]
  BY <1>7, ChoicesExist
<1> DEFINE placed == [j \in queue |-> f[j]]
<1>9. placed \in [queue -> V] /\ \A j \in queue : placed[j] = f[j]
  OBVIOUS
<1> HIDE DEF placed
<1>10. \A j \in queue : placed[j] = pick[Until(j, queue, h, placed)][j]
  <2> TAKE j \in queue
  <2>1. placed[j] = value(f, j)
    BY <1>6, <1>8, <1>9
  <2>2. value(f, j) = value(placed, j)
    BY <1>4, <1>9
  <2>. QED  BY <1>5, <2>1, <2>2
<1>. QED  BY <1>9, <1>10 DEF Follows

(* There is one such pass only.                                            *)
LEMMA GreedyUnique ==
  ASSUME NEW n \in Nat, NEW queue \in SUBSET (1..n), NEW h, NEW V, NEW pick,
         NEW p \in [queue -> V], Follows(p, pick, queue, h),
         NEW q \in [queue -> V], Follows(q, pick, queue, h)
  PROVE  p = q
<1> DEFINE T == {j \in queue : p[j] # q[j]}
<1>1. SUFFICES ASSUME T # {} PROVE FALSE
  OBVIOUS
<1>2. PICK j \in T : \A k \in T : j <= k
  <2>1. \A k \in T : k \in 1..n
    OBVIOUS
  <2> HIDE DEF T
  <2>2. T \in SUBSET Nat
    BY <2>1
  <2>. QED  BY <1>1, <2>2, LeastNat
<1>3. \A k \in queue : k < j => p[k] = q[k]
  BY <1>2
<1>4. Until(j, queue, h, p) = Until(j, queue, h, q)
  BY <1>3 DEF Until
<1>. QED  BY <1>2, <1>4 DEF Follows

-----------------------------------------------------------------------------
(* Some of the jobs 1..n have a last one.                                  *)
LEMMA LastOf ==
  ASSUME NEW n \in Nat, NEW S \in SUBSET (1..n), S # {}
  PROVE  \E j \in S : \A k \in S : k <= j
<1> DEFINE R == {p \in S \X S : p[1] >= p[2]}
<1>1. \A x, y \in S : <<x, y>> \in R <=> x >= y
  OBVIOUS
<1>2. \A x \in S : x \in Nat
  OBVIOUS
<1>3. IsFiniteSet(S)
  <2>1. IsFiniteSet(1..n)
    BY FS_Interval
  <2>. QED  BY <2>1, FS_Subset
<1> HIDE DEF R
<1>4. \A x, y \in S : <<x, y>> \in R \/ <<y, x>> \in R
  <2>1. \A x, y \in S : x >= y \/ y >= x
    BY <1>2
  <2>. QED  BY <1>1, <2>1
<1>5. \A x, y, z \in S : <<x, y>> \in R /\ <<y, z>> \in R => <<x, z>> \in R
  BY <1>1, <1>2
<1>6. \E x \in S : \A y \in S : <<x, y>> \in R
  BY <1>3, <1>4, <1>5, GreatestExists
<1>. QED  BY <1>1, <1>2, <1>6

(* The pass over Q puts a job on x only if room has it beside those that   *)
(* it finds there, and before the pass those on x are within room.         *)
FillsWithin(n, Q, h, placed, after, x, room) ==
  /\ n \in Nat /\ Q \in SUBSET (1..n) /\ DOMAIN h = 1..n /\ x # 0
  /\ \A k \in 1..n : after[k] = IF k \in Q THEN placed[k] ELSE h[k]
  /\ {k \in 1..n : h[k] = x} # {} => {k \in 1..n : h[k] = x} \in room
  /\ \A k \in Q : h[k] # x
  /\ \A j \in Q : placed[j] = x =>
       {k \in 1..n : Until(j, Q, h, placed)[k] = x} \cup {j} \in room

(* Then room has all the jobs that the pass leaves on x.                   *)
LEMMA PassWithin ==
  ASSUME NEW n, NEW Q, NEW h, NEW placed, NEW after, NEW x, NEW room,
         FillsWithin(n, Q, h, placed, after, x, room)
  PROVE  {k \in 1..n : after[k] = x} # {} => {k \in 1..n : after[k] = x} \in room
<1>. USE DEF FillsWithin
<1> DEFINE on == {k \in 1..n : after[k] = x}
           new == {k \in Q : placed[k] = x}
<1>1. CASE new = {}
  <2>1. on = {k \in 1..n : h[k] = x}
    BY <1>1
  <2>. QED  BY <2>1
<1>2. CASE new # {}
  <2>1. new \in SUBSET (1..n)
    OBVIOUS
  <2>2. PICK j \in new : \A k \in new : k <= j
    BY <1>2, <2>1, LastOf
  <2>3. j \in Q /\ placed[j] = x /\ j \in 1..n /\ after[j] = x
    BY <2>2
  <2>4. {k \in 1..n : Until(j, Q, h, placed)[k] = x} = {k \in on : k \in Q => k < j}
    <3>1. {k \in 1..n : Until(j, Q, h, placed)[k] = x}
            = {k \in {i \in 1..n : after[i] = x} : k \in Q => k < j}
      <4> DEFINE u == Until(j, Q, h, placed)
      <4>1. \A k \in 1..n : u[k] = IF k \in Q THEN IF k < j THEN placed[k] ELSE 0 ELSE h[k]
        BY DEF Until
      <4> HIDE DEF u
      <4>2. \A k \in 1..n : u[k] = x <=> after[k] = x /\ (k \in Q => k < j)
        BY <4>1
      <4>. QED  BY <4>2 DEF u
    <3>. QED  BY <3>1
  <2>5. {k \in on : k \in Q => k < j} \cup {j} = on
    <3>1. ASSUME NEW k \in on, k # j, k \in Q PROVE k < j
      <4>1. k \in new /\ k \in Int /\ j \in Int
        BY <3>1, <2>3
      <4>2. k <= j
        BY <2>2, <4>1
      <4>. QED  BY <3>1, <4>1, <4>2
    <3>. QED  BY <2>3, <3>1
  <2>6. {k \in 1..n : Until(j, Q, h, placed)[k] = x} \cup {j} \in room
    BY <2>3
  <2>. QED  BY <2>4, <2>5, <2>6
<1>. QED  BY <1>1, <1>2
=============================================================================
