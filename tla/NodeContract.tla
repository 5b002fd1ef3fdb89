---------------------------- MODULE NodeContract ----------------------------
(***************************************************************************)
(* What a K8S+ node promises, seen from outside (docs E20, BSIM-122): each *)
(* resident job may use the memory it requested (Soft), and a job that     *)
(* boosts may use its burst on top of that.  Requests never exceed the     *)
(* schedulable part of the node, boosts never exceed the spike             *)
(* reservation: a boost never borrows room that requests are placed in.    *)
(***************************************************************************)
EXTENDS Totals

CONSTANTS
  NumJobs,
  Soft,         \* Soft[j]: the memory job j requests
  Burst,        \* Burst[j]: what it needs on top while it preprocesses
  Schedulable,  \* the room for requests
  Spike         \* the reservation for bursts

VARIABLE life   \* life[j]: where job j is in its stay on the node

Lives == {"away", "resident", "boosting", "steady", "gone"}

(* Sum over the jobs j whose life is one of L of Amount[j].                *)
Held(L, Amount, l) ==
  Total([j \in 1..NumJobs |-> IF l[j] \in L THEN Amount[j] ELSE 0], NumJobs)

WithinBudget(l) ==
  /\ Held({"resident", "boosting", "steady"}, Soft, l) <= Schedulable
  /\ Held({"boosting"}, Burst, l) <= Spike

(* A stay has one boost: no job comes back, or boosts twice.               *)
Next1 == {<<"away", "resident">>, <<"resident", "boosting">>,
          <<"boosting", "steady">>, <<"steady", "gone">>}

Init == life = [j \in 1..NumJobs |-> "away"]

(* A step moves jobs one stage on.  At most one job gives something up in  *)
(* it; several may be let in, or start to boost, with what it gave up.     *)
Next ==
  /\ life' \in [1..NumJobs -> Lives]
  /\ \A j \in 1..NumJobs : life'[j] = life[j] \/ <<life[j], life'[j]>> \in Next1
  /\ \A j, k \in 1..NumJobs :
       /\ life[j] \in {"boosting", "steady"} /\ life'[j] # life[j]
       /\ life[k] \in {"boosting", "steady"} /\ life'[k] # life[k]
       => j = k
  /\ WithinBudget(life')

Spec == Init /\ [][Next]_life
=============================================================================
