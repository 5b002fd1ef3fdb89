------------------------------ MODULE Packing ------------------------------
(***************************************************************************)
(* The greedy passes that the schedulers and their provisioners run over   *)
(* the queue, in the order the jobs arrived: each job goes to a node that  *)
(* has room for it beside the jobs that went before.                       *)
(***************************************************************************)
EXTENDS Totals, FiniteSets

(* What the jobs of S ask for, of jobs 1..n.                               *)
Asked(S, Amount, n) == Total([j \in 1..n |-> IF j \in S THEN Amount[j] ELSE 0], n)

(* Mutant: the newest job of the queue is placed first.                    *)
UntilNewest(j, queue, h, placed) ==
  [k \in DOMAIN h |-> IF k \in queue THEN IF k > j THEN placed[k] ELSE 0 ELSE h[k]]

(* h, the host of every job (0: none), once the jobs of queue before j     *)
(* have gone where placed says.                                            *)
Until(j, queue, h, placed) ==
  [k \in DOMAIN h |-> IF k \in queue THEN IF k < j THEN placed[k] ELSE 0 ELSE h[k]]

(* placed is what the pass over queue yields, each job going to Pick.      *)
GreedyPass(queue, h, placed, Pick(_, _)) ==
  \A j \in queue : placed[j] = Pick(Until(j, queue, h, placed), j)

(* The jobs of queue that one empty node of this size takes.               *)
OneNode(queue, ram, vcpu, Soft, Vcpu, n) ==
  CHOOSE S \in SUBSET queue : \A j \in queue :
    LET before == {k \in S : k < j}
    IN  j \in S <=> /\ Asked(before, Soft, n) + Soft[j] <= ram
                    /\ Asked(before, Vcpu, n) + Vcpu[j] <= vcpu
=============================================================================
