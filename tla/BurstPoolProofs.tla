-------------------------- MODULE BurstPoolProofs --------------------------
(***************************************************************************)
(* Proofs about BurstPool, for any number of jobs, any bursts and any      *)
(* reservation: its type, the balance of its claims, the absence of lost   *)
(* wake-ups and the order of those that happen.                            *)
(***************************************************************************)
EXTENDS BurstPool, PackingProofs

ScanStates == [used : Nat, remaining : Seq(Jobs)]

(* The loop of release is well defined: Scan is the function its recursion *)
(* describes, and each of its values is an amount and a queue of jobs.     *)
LEMMA ScanDef ==
  ASSUME PoolTypeOK, NEW used \in Nat, NEW ws \in Seq(Jobs)
  PROVE  /\ Scan(used, ws) \in [0..Len(ws) -> ScanStates]
         /\ Scan(used, ws)[0] = [used |-> used, remaining |-> <<>>]
         /\ \A i \in 1..Len(ws) :
              Scan(used, ws)[i] =
                LET s == Scan(used, ws)[i-1]
                IN  IF Fits(s.used, ws[i])
                    THEN [used |-> s.used + Burst[ws[i]], remaining |-> s.remaining]
                    ELSE [used |-> s.used, remaining |-> Append(s.remaining, ws[i])]
<1> DEFINE n == Len(ws)
           base == [used |-> used, remaining |-> <<>>]
           Step(s, i) == IF Fits(s.used, ws[i])
                         THEN [used |-> s.used + Burst[ws[i]], remaining |-> s.remaining]
                         ELSE [used |-> s.used, remaining |-> Append(s.remaining, ws[i])]
           Rec(g, m) == g[0] = base /\ \A i \in 1..m : g[i] = Step(g[i-1], i)
           S == {m \in Nat : m <= n => \E g \in [0..m -> ScanStates] : Rec(g, m)}
<1>1. n \in Nat /\ base \in ScanStates
  BY DEF ScanStates
<1>2. ASSUME NEW s \in ScanStates, NEW i \in 1..n
      PROVE  Step(s, i) \in ScanStates
  <2>1. ws[i] \in Jobs /\ Burst[ws[i]] \in Nat
    BY PoolAssumption DEF Jobs
  <2>2. s.used \in Nat /\ s.remaining \in Seq(Jobs)
    BY DEF ScanStates
  <2>3. s.used + Burst[ws[i]] \in Nat /\ Append(s.remaining, ws[i]) \in Seq(Jobs)
    BY <2>1, <2>2
  <2>. QED  BY <2>2, <2>3 DEF ScanStates
<1> HIDE DEF base, Step, n
<1>3. 0 \in S
  <2>1. [i \in 0..0 |-> base] \in [0..0 -> ScanStates] /\ Rec([i \in 0..0 |-> base], 0)
    BY <1>1
  <2>. QED  BY <2>1
<1>4. ASSUME NEW m \in Nat, m \in S
      PROVE  m+1 \in S
  <2>1. SUFFICES ASSUME m+1 <= n
                 PROVE  \E g \in [0..(m+1) -> ScanStates] : Rec(g, m+1)
    OBVIOUS
  <2>2. PICK g \in [0..m -> ScanStates] : Rec(g, m)
    BY <1>4, <2>1, <1>1
  <2> DEFINE h == [i \in 0..(m+1) |-> IF i = m+1 THEN Step(g[m], m+1) ELSE g[i]]
  <2>3. Step(g[m], m+1) \in ScanStates
    BY <1>1, <1>2, <2>1
  <2>4. h \in [0..(m+1) -> ScanStates]
    BY <2>3
  <2>5. h[0] = base
    BY <2>2
  <2>6. ASSUME NEW i \in 1..(m+1)
        PROVE  h[i] = Step(h[i-1], i)
    <3>1. CASE i = m+1
      BY <3>1
    <3>2. CASE i # m+1
      <4>1. i \in 1..m /\ i-1 \in 0..(m+1) /\ i-1 # m+1 /\ i \in 0..(m+1)
        BY <3>2
      <4>2. h[i] = g[i] /\ h[i-1] = g[i-1]
        BY <4>1, <3>2
      <4>. QED  BY <4>1, <4>2, <2>2
    <3>. QED  BY <3>1, <3>2
  <2>. QED  BY <2>4, <2>5, <2>6
<1>5. n \in S
  <2> HIDE DEF S
  <2>. QED  BY <1>1, <1>3, <1>4, NatSetInduction
<1>6. PICK g \in [0..n -> ScanStates] : Rec(g, n)
  BY <1>5, <1>1
<1> DEFINE Eqn(p) == p = [i \in 0..n |-> IF i = 0 THEN base ELSE Step(p[i-1], i)]
<1>7. Eqn(g)
  <2>1. \A i \in 0..n : g[i] = IF i = 0 THEN base ELSE Step(g[i-1], i)
    BY <1>6, <1>1
  <2>. QED  BY <2>1
<1>8. Scan(used, ws) = CHOOSE p : Eqn(p)
  <2>1. \A p : Eqn(p) <=>
          p = [i \in 0..Len(ws) |->
                IF i = 0 THEN [used |-> used, remaining |-> <<>>]
                ELSE IF Fits(p[i-1].used, ws[i])
                     THEN [used      |-> p[i-1].used + Burst[ws[i]],
                           remaining |-> p[i-1].remaining]
                     ELSE [used      |-> p[i-1].used,
                           remaining |-> Append(p[i-1].remaining, ws[i])]]
    BY DEF n, base, Step
  <2> HIDE DEF Eqn
  <2>. QED  BY <2>1 DEF Scan
<1> DEFINE P == Scan(used, ws)
<1>9. Eqn(P)
  <2> HIDE DEF Eqn
  <2>. QED  BY <1>7, <1>8
<1> HIDE DEF P
<1>10. P[0] = base /\ \A i \in 1..n : P[i] = Step(P[i-1], i)
  BY <1>9, <1>1
<1>11. P = g
  <2> DEFINE U == {m \in Nat : m <= n => P[m] = g[m]}
  <2>1. 0 \in U
    BY <1>6, <1>10
  <2>2. \A m \in Nat : m \in U => m+1 \in U
    <3> SUFFICES ASSUME NEW m \in Nat, m \in U, m+1 <= n PROVE P[m+1] = g[m+1]
      OBVIOUS
    <3>1. m+1 \in 1..n /\ (m+1)-1 = m /\ m <= n
      BY <1>1
    <3>. QED  BY <3>1, <1>6, <1>10
  <2>3. Nat \subseteq U
    <3> HIDE DEF U
    <3>. QED  BY <2>1, <2>2, NatSetInduction
  <2>4. \A m \in 0..n : P[m] = g[m]
    BY <2>3, <1>1
  <2>5. P = [i \in 0..n |-> P[i]]
    BY <1>9
  <2>. QED  BY <2>4, <2>5
<1>. QED  BY <1>10, <1>11, <1>6 DEF P, n, base, Step

Distinct(ws) == \A a, b \in 1..Len(ws) : ws[a] = ws[b] => a = b

(* What a set of jobs asks of the pool.                                    *)
BurstsOf(W) == [j \in Jobs |-> IF j \in W THEN Burst[j] ELSE 0]

(* Appending adds one member, and keeps a queue without duplicates so when *)
(* the member is new.                                                      *)
LEMMA AppendToSet ==
  ASSUME NEW ws \in Seq(Jobs), NEW j \in Jobs
  PROVE  /\ Append(ws, j) \in Seq(Jobs)
         /\ ToSet(Append(ws, j)) = ToSet(ws) \cup {j}
         /\ Distinct(ws) /\ j \notin ToSet(ws) => Distinct(Append(ws, j))
<1>1. /\ Append(ws, j) \in Seq(Jobs)
      /\ Len(Append(ws, j)) = Len(ws) + 1
      /\ \A i \in 1..Len(ws) : Append(ws, j)[i] = ws[i]
      /\ Append(ws, j)[Len(ws) + 1] = j
      /\ Len(ws) \in Nat
  OBVIOUS
<1> DEFINE a == Append(ws, j)
<1> HIDE DEF a
<1>2. 1..Len(a) = (1..Len(ws)) \cup {Len(ws) + 1}
  BY <1>1 DEF a
<1>3. ToSet(a) = ToSet(ws) \cup {j}
  BY <1>1, <1>2 DEF a, ToSet
<1>4. ASSUME Distinct(ws), j \notin ToSet(ws)
      PROVE  Distinct(a)
  <2>1. \A i \in 1..Len(ws) : a[i] = ws[i] /\ a[i] # j
    BY <1>1, <1>4 DEF a, ToSet
  <2>2. a[Len(ws) + 1] = j
    BY <1>1 DEF a
  <2>. QED  BY <2>1, <2>2, <1>2, <1>4 DEF Distinct
<1>. QED  BY <1>1, <1>3, <1>4 DEF a

(* One more job asks for its burst on top of what the others ask.          *)
LEMMA BurstsOfAdd ==
  ASSUME PoolTypeOK, NEW W \in SUBSET Jobs, NEW j \in Jobs, j \notin W
  PROVE  Total(BurstsOf(W \cup {j}), NumJobs) = Total(BurstsOf(W), NumJobs) + Burst[j]
<1>1. /\ BurstsOf(W) \in [1..NumJobs -> Int]
      /\ BurstsOf(W \cup {j}) \in [1..NumJobs -> Int]
      /\ NumJobs \in Nat /\ j \in 1..NumJobs /\ Burst[j] \in Nat
  BY PoolAssumption DEF BurstsOf, Jobs
<1>2. /\ BurstsOf(W)[j] = 0 /\ BurstsOf(W \cup {j})[j] = Burst[j]
      /\ \A k \in 1..NumJobs : k # j => BurstsOf(W \cup {j})[k] = BurstsOf(W)[k]
  BY DEF BurstsOf, Jobs
<1>3. Total(BurstsOf(W \cup {j}), NumJobs)
        = Total(BurstsOf(W), NumJobs) + (BurstsOf(W \cup {j})[j] - BurstsOf(W)[j])
  BY <1>1, <1>2, TotalChange
<1>4. Total(BurstsOf(W), NumJobs) \in Int
  BY <1>1, TotalType
<1>. QED  BY <1>1, <1>2, <1>3, <1>4

(* What release does to a pool with room used: the claims it hands out are *)
(* counted, stay within the headroom, and nobody it leaves behind fits.    *)
LEMMA ScanSafe ==
  ASSUME PoolTypeOK, NEW used \in Nat, used <= headroom,
         NEW ws \in Seq(Jobs), Distinct(ws)
  PROVE  LET after == Scan(used, ws)[Len(ws)]
             woken == ToSet(ws) \ ToSet(after.remaining)
         IN  /\ after.used \in Nat
             /\ after.remaining \in Seq(Jobs)
             /\ after.used <= headroom
             /\ after.used = used + Total(BurstsOf(woken), NumJobs)
             /\ ToSet(after.remaining) \subseteq ToSet(ws)
             /\ Distinct(after.remaining)
             /\ \A j \in ToSet(after.remaining) : ~Fits(after.used, j)
<1> DEFINE n == Len(ws)
           P == Scan(used, ws)
           Seen(i) == {ws[k] : k \in 1..i}
           Woken(i) == Seen(i) \ ToSet(P[i].remaining)
           Good(i) == /\ used <= P[i].used
                      /\ P[i].used <= headroom
                      /\ P[i].used = used + Total(BurstsOf(Woken(i)), NumJobs)
                      /\ ToSet(P[i].remaining) \subseteq Seen(i)
                      /\ Distinct(P[i].remaining)
                      /\ \A j \in ToSet(P[i].remaining) : ~Fits(P[i].used, j)
           G == {i \in Nat : i <= n => Good(i)}
<1>1. /\ P \in [0..n -> ScanStates]
      /\ P[0] = [used |-> used, remaining |-> <<>>]
      /\ \A i \in 1..n :
           P[i] = LET s == P[i-1]
                  IN  IF Fits(s.used, ws[i])
                      THEN [used |-> s.used + Burst[ws[i]], remaining |-> s.remaining]
                      ELSE [used |-> s.used, remaining |-> Append(s.remaining, ws[i])]
  BY ScanDef
<1>2. n \in Nat /\ \A i \in 1..n : ws[i] \in Jobs
  OBVIOUS
<1>3. \A i \in 0..n : P[i].used \in Nat /\ P[i].remaining \in Seq(Jobs)
  BY <1>1 DEF ScanStates
<1>4. \A i \in 0..n : Seen(i) \subseteq Jobs
  BY <1>2
<1> HIDE DEF P
<1>5. 0 \in G
  <2>1. P[0].used = used /\ P[0].remaining = <<>>
    BY <1>1
  <2>2. ToSet(<<>>) = {} /\ Distinct(<<>>) /\ Seen(0) = {}
    BY DEF ToSet, Distinct
  <2>3. Total(BurstsOf({}), NumJobs) = 0
    <3>1. BurstsOf({}) \in [1..NumJobs -> Int] /\ \A k \in 1..NumJobs : BurstsOf({})[k] = 0
      BY DEF BurstsOf, Jobs
    <3>. QED  BY <3>1, TotalZero, PoolAssumption
  <2>4. Woken(0) = {}
    BY <2>2
  <2>5. Good(0)
    <3> HIDE DEF Woken, Seen
    <3>1. Total(BurstsOf(Woken(0)), NumJobs) = 0
      BY <2>3, <2>4
    <3>. QED  BY <2>1, <2>2, <3>1
  <2> HIDE DEF Good
  <2>. QED  BY <2>5
<1>6. ASSUME NEW i \in Nat, i \in G
      PROVE  i+1 \in G
  <2> SUFFICES ASSUME i+1 <= n PROVE Good(i+1)
    OBVIOUS
  <2> DEFINE w == ws[i+1]
             s == P[i]
             t == P[i+1]
  <2>1. /\ i+1 \in 1..n /\ (i+1)-1 = i /\ i \in 0..n /\ i+1 \in 0..n
        /\ w \in Jobs /\ Burst[w] \in Nat
    BY <1>2, PoolAssumption DEF Jobs
  <2>2. Good(i)
    BY <1>6, <2>1
  <2>3. /\ s.used \in Nat /\ s.remaining \in Seq(Jobs)
        /\ t.used \in Nat /\ t.remaining \in Seq(Jobs)
    BY <2>1, <1>3
  <2>4. t = IF Fits(s.used, w)
            THEN [used |-> s.used + Burst[w], remaining |-> s.remaining]
            ELSE [used |-> s.used, remaining |-> Append(s.remaining, w)]
    BY <2>1, <1>1
  <2>5. Seen(i+1) = Seen(i) \cup {w}
    <3>1. 1..(i+1) = (1..i) \cup {i+1}
      OBVIOUS
    <3>. QED  BY <3>1
  <2>6. w \notin Seen(i)
    <3>1. \A k \in 1..i : k \in 1..n /\ k # i+1
      BY <2>1
    <3>. QED  BY <3>1, <2>1 DEF Distinct
  <2>7. headroom \in Nat
    BY DEF PoolTypeOK
  <2> HIDE DEF w, s, t
  <2>8. CASE Fits(s.used, w)
    <3>1. t.used = s.used + Burst[w] /\ t.remaining = s.remaining
      BY <2>4, <2>8
    <3>2. Woken(i+1) = Woken(i) \cup {w} /\ w \notin Woken(i)
      BY <3>1, <2>2, <2>5, <2>6 DEF s, t
    <3>3. Woken(i) \in SUBSET Jobs
      BY <1>4, <2>1
    <3>4. Total(BurstsOf(Woken(i+1)), NumJobs) = Total(BurstsOf(Woken(i)), NumJobs) + Burst[w]
      <4> HIDE DEF Woken
      <4>. QED  BY <3>2, <3>3, <2>1, BurstsOfAdd DEF w
    <3>5. Total(BurstsOf(Woken(i)), NumJobs) \in Int
      <4>1. BurstsOf(Woken(i)) \in [1..NumJobs -> Int]
        BY PoolAssumption DEF BurstsOf, Jobs
      <4>. QED  BY <4>1, TotalType, PoolAssumption
    <3>6. t.used = used + Total(BurstsOf(Woken(i+1)), NumJobs)
      <4>1. s.used = used + Total(BurstsOf(Woken(i)), NumJobs)
        BY <2>2 DEF s
      <4> HIDE DEF Woken
      <4>. QED  BY <4>1, <3>1, <3>4, <3>5, <2>1 DEF w
    <3>7. t.used <= headroom /\ used <= t.used
      BY <3>1, <2>8, <2>2, <2>1, <2>3 DEF Fits, s, w
    <3>8. \A j \in ToSet(t.remaining) : ~Fits(t.used, j)
      <4> SUFFICES ASSUME NEW j \in ToSet(s.remaining) PROVE ~Fits(t.used, j)
        BY <3>1
      <4>1. ~Fits(s.used, j)
        BY <2>2 DEF s
      <4>2. j \in Jobs
        <5> DEFINE r == s.remaining
        <5>1. r \in Seq(Jobs) /\ j \in ToSet(r)
          BY <2>3
        <5> HIDE DEF r
        <5>. QED  BY <5>1 DEF ToSet
      <4>3. Burst[j] \in Nat
        BY <4>2, PoolAssumption
      <4>. QED  BY <4>1, <4>3, <3>1, <2>1, <2>3, <2>7 DEF Fits, w
    <3>. QED  BY <3>1, <3>6, <3>7, <3>8, <2>2, <2>5 DEF s, t
  <2>9. CASE ~Fits(s.used, w)
    <3>1. t.used = s.used /\ t.remaining = Append(s.remaining, w)
      BY <2>4, <2>9
    <3>2. w \notin ToSet(s.remaining)
      BY <2>2, <2>6 DEF s
    <3>3. ToSet(t.remaining) = ToSet(s.remaining) \cup {w} /\ Distinct(t.remaining)
      BY <3>1, <3>2, <2>1, <2>2, <2>3, AppendToSet DEF s, w
    <3>4. Woken(i+1) = Woken(i)
      BY <3>3, <2>5, <2>6 DEF s, t
    <3>5. \A j \in ToSet(t.remaining) : ~Fits(t.used, j)
      BY <3>1, <3>3, <2>2, <2>9 DEF s
    <3>. QED  BY <3>1, <3>3, <3>4, <3>5, <2>2, <2>5 DEF s, t
  <2>. QED  BY <2>8, <2>9
<1>7. Good(n)
  <2>1. Nat \subseteq G
    <3> HIDE DEF G
    <3>. QED  BY <1>5, <1>6, NatSetInduction
  <2> HIDE DEF Good, n
  <2>. QED  BY <2>1, <1>2
<1>8. Seen(n) = ToSet(ws)
  BY DEF ToSet
<1>9. P[n].used \in Nat /\ P[n].remaining \in Seq(Jobs)
  BY <1>2, <1>3
<1>10. Woken(n) = ToSet(ws) \ ToSet(P[n].remaining)
  BY <1>8
<1> HIDE DEF Seen, Woken, n
<1>11. /\ P[n].used <= headroom
       /\ P[n].used = used + Total(BurstsOf(ToSet(ws) \ ToSet(P[n].remaining)), NumJobs)
       /\ ToSet(P[n].remaining) \subseteq ToSet(ws)
       /\ Distinct(P[n].remaining)
       /\ \A j \in ToSet(P[n].remaining) : ~Fits(P[n].used, j)
  BY <1>7, <1>8, <1>10
<1>. QED  BY <1>9, <1>11 DEF P, n
-----------------------------------------------------------------------------
(* What makes the properties inductive: the queue holds exactly the jobs   *)
(* that wait, each once.                                                   *)
PoolIInv ==
  /\ PoolTypeOK
  /\ ClaimsWithinHeadroom
  /\ ToSet(waiters) = {j \in Jobs : at[j] = "waiting"}
  /\ Distinct(waiters)
  /\ fixed => \A j \in ToSet(waiters) : ~Fits(in_use, j)

(* The claims, and the constants they are made of, are numbers.            *)
LEMMA ClaimType ==
  ASSUME PoolTypeOK
  PROVE  /\ Claim \in [1..NumJobs -> Nat]
         /\ Claim \in [1..NumJobs -> Int]
         /\ NumJobs \in Nat
         /\ \A j \in Jobs : Burst[j] \in Nat
BY PoolAssumption DEF Claim, Jobs

(* A new pool is empty: no claim, no waiter.                               *)
LEMMA PoolInitSafe ==
  PoolInit => PoolIInv
<1> SUFFICES ASSUME PoolInit PROVE PoolIInv
  OBVIOUS
<1>1. PoolTypeOK
  BY PoolAssumption DEF PoolInit, PoolTypeOK, Stages
<1>2. Total(Claim, NumJobs) = 0
  <2>1. \A j \in 1..NumJobs : Claim[j] = 0
    BY DEF Claim, PoolInit, Jobs
  <2>. QED  BY <1>1, <2>1, ClaimType, TotalZero
<1>3. ClaimsWithinHeadroom
  BY <1>1, <1>2 DEF ClaimsWithinHeadroom, PoolInit, PoolTypeOK
<1>4. ToSet(waiters) = {} /\ Distinct(waiters)
  BY DEF PoolInit, ToSet, Distinct
<1>5. {j \in Jobs : at[j] = "waiting"} = {}
  BY DEF PoolInit
<1>. QED  BY <1>1, <1>3, <1>4, <1>5 DEF PoolIInv

(* A job's placement moves no claim; only a legacy pool changes, and grows.*)
LEMMA UpdateMaxPeakSafe ==
  ASSUME PoolIInv, NEW j \in Jobs, UpdateMaxPeak(j)
  PROVE  PoolIInv'
<1>0. /\ PoolTypeOK /\ at[j] = "outside" /\ Burst[j] \in Nat /\ headroom \in Nat
      /\ at' = [at EXCEPT ![j] = "placed"]
      /\ UNCHANGED <<fixed, in_use, waiters>>
  BY ClaimType DEF PoolIInv, UpdateMaxPeak, PoolTypeOK
<1>1. headroom' \in Nat /\ headroom <= headroom' /\ (fixed => headroom' = headroom)
  BY <1>0 DEF UpdateMaxPeak
<1>2. PoolTypeOK'
  BY <1>0, <1>1 DEF PoolTypeOK, Stages
<1>3. Claim' = Claim
  BY <1>0 DEF Claim, PoolTypeOK
<1>4. ClaimsWithinHeadroom'
  BY <1>0, <1>1, <1>3 DEF PoolIInv, ClaimsWithinHeadroom, PoolTypeOK
<1>5. {k \in Jobs : at'[k] = "waiting"} = {k \in Jobs : at[k] = "waiting"}
  BY <1>0 DEF PoolTypeOK
<1>6. fixed => \A k \in ToSet(waiters) : ~Fits(in_use, k)'
  BY <1>0, <1>1 DEF PoolIInv, Fits
<1>7. ToSet(waiters)' = ToSet(waiters) /\ Distinct(waiters)'
  BY <1>0 DEF PoolIInv, ToSet, Distinct
<1>. QED  BY <1>0, <1>2, <1>4, <1>5, <1>6, <1>7 DEF PoolIInv

(* Either the claim fits and is counted, or the job joins the queue.       *)
LEMMA AcquireSafe ==
  ASSUME PoolIInv, NEW j \in Jobs, Acquire(j)
  PROVE  PoolIInv'
<1>0. /\ PoolTypeOK /\ at[j] = "placed" /\ Burst[j] \in Nat
      /\ headroom \in Nat /\ in_use \in Nat /\ waiters \in Seq(Jobs)
      /\ UNCHANGED <<fixed, headroom>>
      /\ in_use = Total(Claim, NumJobs) /\ in_use <= headroom
      /\ ToSet(waiters) = {k \in Jobs : at[k] = "waiting"}
      /\ Distinct(waiters)
      /\ fixed => \A k \in ToSet(waiters) : ~Fits(in_use, k)
  BY ClaimType DEF PoolIInv, Acquire, PoolTypeOK, ClaimsWithinHeadroom
<1>1. CASE /\ Fits(in_use, j)
           /\ in_use' = in_use + Burst[j]
           /\ at' = [at EXCEPT ![j] = "holding"]
           /\ UNCHANGED waiters
  <2>1. PoolTypeOK'
    BY <1>0, <1>1 DEF PoolTypeOK, Stages
  <2>2. in_use' <= headroom'
    BY <1>0, <1>1 DEF Fits
  <2>3. /\ Claim'[j] = Burst[j] /\ Claim[j] = 0
        /\ \A k \in 1..NumJobs : k # j => Claim'[k] = Claim[k]
    BY <1>0, <1>1 DEF Claim, PoolTypeOK, Jobs
  <2>4. Claim' \in [1..NumJobs -> Int]
    BY PoolAssumption DEF Claim, Jobs
  <2>5. Total(Claim', NumJobs) = Total(Claim, NumJobs) + (Claim'[j] - Claim[j])
    <3>1. NumJobs \in Nat /\ j \in 1..NumJobs /\ Claim \in [1..NumJobs -> Int]
      BY <1>0, ClaimType DEF Jobs
    <3>. QED  BY <2>3, <2>4, <3>1, TotalChange
  <2>6. ClaimsWithinHeadroom'
    <3>1. Total(Claim, NumJobs) \in Int
      BY <1>0
    <3>2. in_use' = Total(Claim', NumJobs)
      BY <1>0, <1>1, <2>3, <2>5, <3>1
    <3>. QED  BY <2>2, <3>2 DEF ClaimsWithinHeadroom
  <2>7. {k \in Jobs : at'[k] = "waiting"} = {k \in Jobs : at[k] = "waiting"}
    BY <1>0, <1>1 DEF PoolTypeOK
  <2>8. fixed => \A k \in ToSet(waiters) : ~Fits(in_use, k)'
    <3> SUFFICES ASSUME fixed, NEW k \in ToSet(waiters) PROVE ~Fits(in_use, k)'
      OBVIOUS
    <3>1. k \in Jobs
      BY <1>0
    <3>. QED  BY <1>0, <1>1, <3>1, PoolAssumption DEF Fits
  <2>9. ToSet(waiters)' = ToSet(waiters) /\ Distinct(waiters)'
    BY <1>0, <1>1 DEF ToSet, Distinct
  <2>. QED  BY <1>0, <2>1, <2>6, <2>7, <2>8, <2>9 DEF PoolIInv
<1>2. CASE /\ ~Fits(in_use, j)
           /\ waiters' = Append(waiters, j)
           /\ at' = [at EXCEPT ![j] = "waiting"]
           /\ UNCHANGED in_use
  <2>1. j \notin ToSet(waiters)
    BY <1>0
  <2>2. /\ waiters' \in Seq(Jobs)
        /\ ToSet(waiters)' = ToSet(waiters) \cup {j}
        /\ Distinct(waiters)'
    <3>1. ToSet(waiters') = ToSet(waiters) \cup {j} /\ Distinct(waiters')
      BY <1>0, <1>2, <2>1, AppendToSet
    <3>2. ToSet(waiters)' = ToSet(waiters') /\ (Distinct(waiters)' <=> Distinct(waiters'))
      BY DEF ToSet, Distinct
    <3>. QED  BY <1>0, <1>2, <3>1, <3>2
  <2>3. PoolTypeOK'
    BY <1>0, <1>2, <2>2 DEF PoolTypeOK, Stages
  <2>4. Claim' = Claim
    BY <1>0, <1>2 DEF Claim, PoolTypeOK
  <2>5. ClaimsWithinHeadroom'
    BY <1>0, <1>2, <2>4 DEF ClaimsWithinHeadroom
  <2>6. {k \in Jobs : at'[k] = "waiting"} = {k \in Jobs : at[k] = "waiting"} \cup {j}
    BY <1>0, <1>2 DEF PoolTypeOK
  <2>7. fixed => \A k \in ToSet(waiters) \cup {j} : ~Fits(in_use, k)'
    BY <1>0, <1>2 DEF Fits
  <2>. QED  BY <1>0, <2>2, <2>3, <2>5, <2>6, <2>7 DEF PoolIInv
<1>. QED  BY <1>1, <1>2 DEF Acquire

(* The woken job's claim was counted when it was woken.                    *)
LEMMA ResumeSafe ==
  ASSUME PoolIInv, NEW j \in Jobs, Resume(j)
  PROVE  PoolIInv'
<1>0. /\ PoolTypeOK /\ at[j] = "woken"
      /\ at' = [at EXCEPT ![j] = "holding"]
      /\ UNCHANGED <<fixed, headroom, in_use, waiters>>
  BY DEF PoolIInv, Resume
<1>1. PoolTypeOK'
  BY <1>0 DEF PoolTypeOK, Stages
<1>2. Claim' = Claim
  BY <1>0 DEF Claim, PoolTypeOK
<1>3. {k \in Jobs : at'[k] = "waiting"} = {k \in Jobs : at[k] = "waiting"}
  BY <1>0 DEF PoolTypeOK
<1>4. ClaimsWithinHeadroom'
  BY <1>0, <1>2 DEF PoolIInv, ClaimsWithinHeadroom
<1>. QED  BY <1>0, <1>1, <1>3, <1>4 DEF PoolIInv, ToSet, Distinct, Fits

(* What a release does, in terms of the claims: the one given back is      *)
(* subtracted in full (the clamp at zero never bites), those of the woken  *)
(* are added, and whoever still waits does not fit.                        *)
LEMMA ReleaseEffect ==
  ASSUME PoolIInv, NEW j \in Jobs, Release(j)
  PROVE  \E woken \in SUBSET ToSet(waiters) :
           /\ at' = [k \in Jobs |-> IF k = j THEN "returned"
                                    ELSE IF k \in woken THEN "woken" ELSE at[k]]
           /\ waiters' \in Seq(Jobs)
           /\ Distinct(waiters')
           /\ ToSet(waiters') = ToSet(waiters) \ woken
           /\ in_use' \in Nat
           /\ in_use' = in_use - Burst[j] + Total(BurstsOf(woken), NumJobs)
           /\ in_use' <= headroom
           /\ \A k \in ToSet(waiters') : ~Fits(in_use', k)
<1> DEFINE after == Scan(AfterReturn(j), waiters)[Len(waiters)]
           woken == ToSet(waiters) \ ToSet(after.remaining)
<1>1. /\ PoolTypeOK /\ at[j] = "holding" /\ Burst[j] \in Nat
      /\ headroom \in Nat /\ in_use \in Nat /\ waiters \in Seq(Jobs)
      /\ in_use = Total(Claim, NumJobs) /\ in_use <= headroom /\ Distinct(waiters)
  BY ClaimType DEF PoolIInv, Release, PoolTypeOK, ClaimsWithinHeadroom
<1>2. Burst[j] <= in_use
  <2>1. Claim[j] = Burst[j]
    BY <1>1 DEF Claim
  <2>2. Claim[j] <= Total(Claim, NumJobs)
    <3>1. NumJobs \in Nat /\ j \in 1..NumJobs /\ Claim \in [1..NumJobs -> Nat]
      BY <1>1, ClaimType DEF Jobs
    <3>. QED  BY <3>1, TotalAtLeast
  <2>. QED  BY <1>1, <2>1, <2>2
<1>3. AfterReturn(j) = in_use - Burst[j] /\ AfterReturn(j) \in Nat /\ AfterReturn(j) <= headroom
  BY <1>1, <1>2 DEF AfterReturn
<1>4. /\ after.used \in Nat
      /\ after.remaining \in Seq(Jobs)
      /\ after.used <= headroom
      /\ after.used = AfterReturn(j) + Total(BurstsOf(woken), NumJobs)
      /\ ToSet(after.remaining) \subseteq ToSet(waiters)
      /\ Distinct(after.remaining)
      /\ \A k \in ToSet(after.remaining) : ~Fits(after.used, k)
  BY <1>1, <1>3, ScanSafe
<1>5. /\ in_use' = after.used
      /\ waiters' = after.remaining
      /\ at' = [k \in Jobs |-> IF k = j THEN "returned"
                               ELSE IF k \in woken THEN "woken" ELSE at[k]]
  BY DEF Release
<1> HIDE DEF after
<1>6. ToSet(after.remaining) = ToSet(waiters) \ woken
  BY <1>4
<1>7. woken \in SUBSET ToSet(waiters)
  OBVIOUS
<1> HIDE DEF woken
<1>. QED  BY <1>3, <1>4, <1>5, <1>6, <1>7

(* A release keeps the counter equal to the claims and forgets no waiter.  *)
LEMMA ReleaseSafe ==
  ASSUME PoolIInv, NEW j \in Jobs, Release(j)
  PROVE  PoolIInv'
<1>0. /\ PoolTypeOK /\ at[j] = "holding" /\ Burst[j] \in Nat
      /\ headroom \in Nat /\ in_use \in Nat /\ waiters \in Seq(Jobs)
      /\ UNCHANGED <<fixed, headroom>>
      /\ in_use = Total(Claim, NumJobs)
      /\ ToSet(waiters) = {k \in Jobs : at[k] = "waiting"}
  BY ClaimType DEF PoolIInv, Release, PoolTypeOK, ClaimsWithinHeadroom
<1>1. PICK woken \in SUBSET ToSet(waiters) :
           /\ at' = [k \in Jobs |-> IF k = j THEN "returned"
                                    ELSE IF k \in woken THEN "woken" ELSE at[k]]
           /\ waiters' \in Seq(Jobs)
           /\ Distinct(waiters')
           /\ ToSet(waiters') = ToSet(waiters) \ woken
           /\ in_use' \in Nat
           /\ in_use' = in_use - Burst[j] + Total(BurstsOf(woken), NumJobs)
           /\ in_use' <= headroom
           /\ \A k \in ToSet(waiters') : ~Fits(in_use', k)
  BY ReleaseEffect
<1>2. woken \subseteq Jobs /\ \A k \in woken : at[k] = "waiting"
  BY <1>0
<1>3. PoolTypeOK'
  BY <1>0, <1>1 DEF PoolTypeOK, Stages
<1>4. in_use' = Total(Claim', NumJobs)
  <2> DEFINE c == [k \in 1..NumJobs |-> IF k = j THEN 0 ELSE Claim[k]]
             a == BurstsOf(woken)
             d == [k \in 1..NumJobs |->
                     IF at'[k] \in {"woken", "holding"} THEN Burst[k] ELSE 0]
  <2>1. /\ NumJobs \in Nat /\ j \in 1..NumJobs
        /\ Claim \in [1..NumJobs -> Int] /\ Claim[j] = Burst[j]
    BY <1>0, ClaimType DEF Jobs, Claim
  <2>2. c \in [1..NumJobs -> Int] /\ a \in [1..NumJobs -> Int] /\ d \in [1..NumJobs -> Int]
    BY <2>1, PoolAssumption DEF BurstsOf, Jobs
  <2>3. Claim' = d
    BY DEF Claim, Jobs
  <2>4. \A k \in 1..NumJobs : d[k] = c[k] + a[k]
    <3> SUFFICES ASSUME NEW k \in 1..NumJobs PROVE d[k] = c[k] + a[k]
      OBVIOUS
    <3>1. k \in Jobs /\ Burst[k] \in Nat
      BY PoolAssumption DEF Jobs
    <3>2. at'[k] = IF k = j THEN "returned" ELSE IF k \in woken THEN "woken" ELSE at[k]
      BY <1>1, <3>1
    <3>3. Claim[k] = IF at[k] \in {"woken", "holding"} THEN Burst[k] ELSE 0
      BY <3>1 DEF Claim
    <3>4. a[k] = IF k \in woken THEN Burst[k] ELSE 0
      BY <3>1 DEF BurstsOf
    <3>5. c[k] = IF k = j THEN 0 ELSE Claim[k]
      OBVIOUS
    <3>6. d[k] = IF at'[k] \in {"woken", "holding"} THEN Burst[k] ELSE 0
      OBVIOUS
    <3> HIDE DEF a, c, d
    <3>7. CASE k = j
      BY <1>0, <1>2, <3>1, <3>2, <3>4, <3>5, <3>6, <3>7
    <3>8. CASE k # j /\ k \in woken
      BY <1>0, <1>2, <3>1, <3>2, <3>3, <3>4, <3>5, <3>6, <3>8
    <3>9. CASE k # j /\ k \notin woken
      BY <1>0, <1>2, <3>1, <3>2, <3>3, <3>4, <3>5, <3>6, <3>9
    <3>. QED  BY <3>7, <3>8, <3>9
  <2>5. \A k \in 1..NumJobs : k # j => c[k] = Claim[k]
    OBVIOUS
  <2>6. c[j] = 0
    BY <2>1
  <2> HIDE DEF a, c, d
  <2>7. Total(d, NumJobs) = Total(c, NumJobs) + Total(a, NumJobs)
    BY <2>1, <2>2, <2>4, TotalAdd
  <2>8. Total(c, NumJobs) = Total(Claim, NumJobs) + (c[j] - Claim[j])
    BY <2>1, <2>2, <2>5, TotalChange
  <2>9. Total(a, NumJobs) \in Int
    BY <2>1, <2>2, TotalType
  <2>10. in_use' = in_use - Burst[j] + Total(a, NumJobs)
    BY <1>1 DEF a
  <2>. QED  BY <1>0, <2>1, <2>3, <2>6, <2>7, <2>8, <2>9, <2>10
<1>5. ClaimsWithinHeadroom'
  BY <1>0, <1>1, <1>4 DEF ClaimsWithinHeadroom
<1>6. ToSet(waiters') = {k \in Jobs : at'[k] = "waiting"}
  BY <1>0, <1>1, <1>2
<1>7. fixed => \A k \in ToSet(waiters') : ~Fits(in_use, k)'
  BY <1>0, <1>1 DEF Fits
<1>8. ToSet(waiters)' = ToSet(waiters') /\ (Distinct(waiters)' <=> Distinct(waiters'))
  BY DEF ToSet, Distinct
<1>. QED  BY <1>0, <1>1, <1>3, <1>5, <1>6, <1>7, <1>8 DEF PoolIInv

(* Every operation of the pool keeps its inductive invariant.              *)
LEMMA PoolStepSafe ==
  PoolIInv /\ [PoolNext]_poolVars => PoolIInv'
<1> SUFFICES ASSUME PoolIInv, [PoolNext]_poolVars PROVE PoolIInv'
  OBVIOUS
<1>1. ASSUME NEW j \in Jobs, UpdateMaxPeak(j) \/ Acquire(j) \/ Resume(j) \/ Release(j)
      PROVE  PoolIInv'
  BY <1>1, UpdateMaxPeakSafe, AcquireSafe, ResumeSafe, ReleaseSafe
<1>2. CASE UNCHANGED poolVars
  <2>1. Claim' = Claim
    BY <1>2 DEF Claim, poolVars
  <2>. QED  BY <1>2, <2>1 DEF poolVars, PoolIInv, PoolTypeOK, ClaimsWithinHeadroom,
                              ToSet, Distinct, Fits
<1>. QED  BY <1>1, <1>2 DEF PoolNext

-----------------------------------------------------------------------------
(* The loop of release takes each waiter when it comes to it, or leaves it *)
(* for good; and it only ever claims.                                      *)
LEMMA ScanTakes ==
  ASSUME PoolTypeOK, NEW used \in Nat, NEW ws \in Seq(Jobs), Distinct(ws)
  PROVE  LET P == Scan(used, ws)
         IN  /\ \A k \in 1..Len(ws) :
                  ws[k] \in ToSet(P[Len(ws)].remaining) <=> ~Fits(P[k-1].used, ws[k])
             /\ \A i \in 0..Len(ws) : \A k \in 0..i : P[k].used <= P[i].used
             /\ \A i \in 0..Len(ws) : P[i].used \in Nat
<1> DEFINE n == Len(ws)
           P == Scan(used, ws)
           Seen(i) == {ws[k] : k \in 1..i}
           Good(i) == /\ ToSet(P[i].remaining) \subseteq Seen(i)
                      /\ \A k \in 1..i :
                           ws[k] \in ToSet(P[i].remaining) <=> ~Fits(P[k-1].used, ws[k])
                      /\ \A k \in 0..i : P[k].used <= P[i].used
           G == {i \in Nat : i <= n => Good(i)}
<1>1. /\ P \in [0..n -> ScanStates]
      /\ P[0] = [used |-> used, remaining |-> <<>>]
      /\ \A i \in 1..n :
           P[i] = LET s == P[i-1]
                  IN  IF Fits(s.used, ws[i])
                      THEN [used |-> s.used + Burst[ws[i]], remaining |-> s.remaining]
                      ELSE [used |-> s.used, remaining |-> Append(s.remaining, ws[i])]
  BY ScanDef
<1>2. n \in Nat /\ \A i \in 1..n : ws[i] \in Jobs
  OBVIOUS
<1>3. \A i \in 0..n : P[i].used \in Nat /\ P[i].remaining \in Seq(Jobs)
  BY <1>1 DEF ScanStates
<1> HIDE DEF P
<1>4. 0 \in G
  <2>1. P[0].remaining = <<>> /\ ToSet(<<>>) = {} /\ P[0].used \in Nat
    BY <1>1, <1>2, <1>3 DEF ToSet
  <2>. QED  BY <2>1
<1>5. ASSUME NEW i \in Nat, i \in G
      PROVE  i+1 \in G
  <2> SUFFICES ASSUME i+1 <= n PROVE Good(i+1)
    OBVIOUS
  <2> DEFINE w == ws[i+1]
             s == P[i]
             t == P[i+1]
  <2>1. /\ i+1 \in 1..n /\ (i+1)-1 = i /\ i \in 0..n /\ i+1 \in 0..n
        /\ w \in Jobs /\ Burst[w] \in Nat
    BY <1>2, PoolAssumption DEF Jobs
  <2>2. Good(i)
    BY <1>5, <2>1
  <2>3. /\ s.used \in Nat /\ s.remaining \in Seq(Jobs) /\ t.used \in Nat
    BY <2>1, <1>3
  <2>4. t = IF Fits(s.used, w)
            THEN [used |-> s.used + Burst[w], remaining |-> s.remaining]
            ELSE [used |-> s.used, remaining |-> Append(s.remaining, w)]
    BY <2>1, <1>1
  <2>5. \A k \in 1..i : k \in 1..n /\ ws[k] # w
    BY <2>1 DEF Distinct
  <2>6. 1..(i+1) = (1..i) \cup {i+1} /\ 0..(i+1) = (0..i) \cup {i+1}
    OBVIOUS
  <2>7. /\ s.used <= t.used
        /\ ToSet(t.remaining) = IF Fits(s.used, w) THEN ToSet(s.remaining)
                                ELSE ToSet(s.remaining) \cup {w}
    <3> HIDE DEF w, s, t
    <3>1. CASE Fits(s.used, w)
      <4>1. t.used = s.used + Burst[w] /\ t.remaining = s.remaining
        BY <2>4, <3>1
      <4>. QED  BY <4>1, <3>1, <2>1, <2>3 DEF w
    <3>2. CASE ~Fits(s.used, w)
      <4>1. t.used = s.used /\ t.remaining = Append(s.remaining, w)
        BY <2>4, <3>2
      <4>2. ToSet(Append(s.remaining, w)) = ToSet(s.remaining) \cup {w}
        BY <2>1, <2>3, AppendToSet DEF w
      <4>. QED  BY <4>1, <4>2, <3>2, <2>3
    <3>. QED  BY <3>1, <3>2
  <2>8. w \notin ToSet(s.remaining)
    BY <2>2, <2>5
  <2>9. ToSet(t.remaining) \subseteq Seen(i+1)
    <3>1. Seen(i+1) = Seen(i) \cup {w}
      BY <2>6
    <3>. QED  BY <2>2, <2>7, <3>1
  <2>10. ASSUME NEW k \in 1..(i+1)
         PROVE  ws[k] \in ToSet(t.remaining) <=> ~Fits(P[k-1].used, ws[k])
    <3>1. CASE k \in 1..i
      BY <3>1, <2>2, <2>5, <2>7
    <3>2. CASE k = i+1
      BY <3>2, <2>1, <2>7, <2>8
    <3>. QED  BY <3>1, <3>2, <2>6
  <2>11. ASSUME NEW k \in 0..(i+1)
         PROVE  P[k].used <= t.used
    <3>1. CASE k \in 0..i
      <4>1. P[k].used <= s.used /\ P[k].used \in Nat
        BY <3>1, <2>1, <2>2, <1>3
      <4>. QED  BY <4>1, <2>3, <2>7
    <3>2. CASE k = i+1
      BY <3>2, <2>3
    <3>. QED  BY <3>1, <3>2, <2>6
  <2>. QED  BY <2>9, <2>10, <2>11
<1>6. \A i \in 0..n : Good(i)
  <2>1. Nat \subseteq G
    <3> HIDE DEF G
    <3>. QED  BY <1>4, <1>5, NatSetInduction
  <2> HIDE DEF Good, n
  <2>. QED  BY <2>1, <1>2
<1>7. Good(n)
  BY <1>6, <1>2
<1>. QED  BY <1>3, <1>6, <1>7 DEF P

(* A release that wakes a waiter wakes everyone who came before it and     *)
(* asks for no more.                                                       *)
LEMMA ReleaseIsFair ==
  ASSUME PoolIInv, NEW j \in Jobs, Release(j),
         NEW a \in 1..Len(waiters), NEW b \in 1..Len(waiters), a < b,
         Burst[waiters[a]] <= Burst[waiters[b]], at'[waiters[b]] = "woken"
  PROVE  at'[waiters[a]] = "woken"
<1> DEFINE n == Len(waiters)
           P == Scan(AfterReturn(j), waiters)
           v == waiters[a]
           w == waiters[b]
<1>1. /\ PoolTypeOK /\ Distinct(waiters) /\ waiters \in Seq(Jobs) /\ at[j] = "holding"
      /\ headroom \in Nat /\ in_use \in Nat /\ Burst[j] \in Nat
      /\ ToSet(waiters) = {k \in Jobs : at[k] = "waiting"}
  BY ClaimType DEF PoolIInv, PoolTypeOK, Release
<1>2. /\ v \in Jobs /\ w \in Jobs /\ Burst[v] \in Nat /\ Burst[w] \in Nat
      /\ at[v] = "waiting" /\ at[w] = "waiting"
      /\ v \in ToSet(waiters) /\ w \in ToSet(waiters)
  BY <1>1, ClaimType DEF ToSet
<1>3. AfterReturn(j) \in Nat
  BY <1>1 DEF AfterReturn
<1>4. /\ \A k \in 1..n : waiters[k] \in ToSet(P[n].remaining) <=> ~Fits(P[k-1].used, waiters[k])
      /\ \A i \in 0..n : \A k \in 0..i : P[k].used <= P[i].used
      /\ \A i \in 0..n : P[i].used \in Nat
  BY <1>1, <1>3, ScanTakes
<1>5. \A k \in Jobs : at'[k] = IF k = j THEN "returned"
                               ELSE IF k \in ToSet(waiters) \ ToSet(P[n].remaining)
                                    THEN "woken" ELSE at[k]
  BY DEF Release
<1> HIDE DEF P
<1>6. w \notin ToSet(P[n].remaining)
  BY <1>1, <1>2, <1>5
<1>7. Fits(P[b-1].used, w)
  BY <1>4, <1>6
<1>8. P[a-1].used <= P[b-1].used /\ P[a-1].used \in Nat /\ P[b-1].used \in Nat
  <2>1. n \in Nat /\ b-1 \in 0..n /\ a-1 \in 0..n /\ a-1 \in 0..(b-1)
    BY <1>1
  <2> HIDE DEF n
  <2>. QED  BY <1>4, <2>1
<1>9. Fits(P[a-1].used, v)
  BY <1>1, <1>2, <1>7, <1>8 DEF Fits
<1>10. v \notin ToSet(P[n].remaining)
  BY <1>4, <1>9
<1>. QED  BY <1>1, <1>2, <1>5, <1>10

(* No step of the pool overtakes a waiter unfairly.                        *)
LEMMA PoolStepIsFair ==
  ASSUME PoolIInv, [PoolNext]_poolVars,
         NEW a \in 1..Len(waiters), NEW b \in 1..Len(waiters), a < b,
         Burst[waiters[a]] <= Burst[waiters[b]], at'[waiters[b]] = "woken"
  PROVE  at'[waiters[a]] = "woken"
<1>1. waiters[b] \in Jobs /\ at[waiters[b]] = "waiting"
  <2>1. waiters[b] \in ToSet(waiters) /\ ToSet(waiters) = {k \in Jobs : at[k] = "waiting"}
    BY DEF PoolIInv, ToSet
  <2>. QED  BY <2>1
<1>2. at \in [Jobs -> Stages]
  BY DEF PoolIInv, PoolTypeOK
<1>3. ASSUME NEW j \in Jobs, UpdateMaxPeak(j) \/ Acquire(j) \/ Resume(j)
      PROVE  FALSE
  BY <1>1, <1>2, <1>3 DEF UpdateMaxPeak, Acquire, Resume
<1>4. CASE UNCHANGED poolVars
  BY <1>1, <1>4 DEF poolVars
<1>5. PICK j \in Jobs : Release(j)
  BY <1>3, <1>4, <1>1 DEF PoolNext, poolVars
<1>. QED  BY <1>5, ReleaseIsFair

(* Whatever the jobs do with the pool (burst_pool.py), its inductive       *)
(* invariant holds.                                                        *)
THEOREM PoolInvariant == PoolSpec => []PoolIInv
BY PoolInitSafe, PoolStepSafe, PTL DEF PoolSpec

(* The pool's variables keep their types: in particular _in_use never      *)
(* turns negative.                                                         *)
THEOREM PoolTypes == PoolSpec => []PoolTypeOK
<1>1. PoolIInv => PoolTypeOK
  BY DEF PoolIInv
<1>. QED  BY <1>1, PoolInvariant, PTL

(* For any jobs, bursts and reservation: the counter is the sum of the     *)
(* claims held and never passes the headroom.                              *)
THEOREM PoolClaims == PoolSpec => []ClaimsWithinHeadroom
<1>1. PoolIInv => ClaimsWithinHeadroom
  BY DEF PoolIInv
<1>. QED  BY <1>1, PoolInvariant, PTL

(* For any jobs, bursts and reservation: no waiter is forgotten, and in a  *)
(* fixed pool none waits for room that is there.                           *)
THEOREM PoolWakeups == PoolSpec => []NoLostWakeup
<1>1. PoolIInv => NoLostWakeup
  BY DEF PoolIInv, NoLostWakeup
<1>. QED  BY <1>1, PoolInvariant, PTL

(* For any jobs and bursts, in whatever order they come and go: a waiter   *)
(* is only passed by one that asks for less (burst_pool.py:101-109).       *)
THEOREM PoolOvertaking == PoolSpec => NoUnfairOvertaking
<1>1. PoolIInv /\ [PoolNext]_poolVars =>
        [\A a, b \in 1..Len(waiters) :
           /\ a < b
           /\ Burst[waiters[a]] <= Burst[waiters[b]]
           /\ at'[waiters[b]] = "woken"
           => at'[waiters[a]] = "woken"]_poolVars
  BY PoolStepIsFair
<1>. QED  BY <1>1, PoolInvariant, PTL DEF PoolSpec, NoUnfairOvertaking
=============================================================================
