-------------------------- MODULE ClusterContract --------------------------
(***************************************************************************)
(* What every scheduler of the repository that kills nothing promises the  *)
(* jobs it is given, whichever way it launches, prefers, drains and lets   *)
(* go of nodes:                                                            *)
(*                                                                         *)
(*   - a job waits, runs once, on one node, and ends; or it is rejected    *)
(*     when it arrives;                                                    *)
(*   - a node has one life, and is let go only when no job is on it;       *)
(*   - the jobs on a node are together within its room, and on a kind of   *)
(*     node that each may run on;                                          *)
(*   - nothing waits beside room it could have, and no job is given room   *)
(*     that one which has waited longer could have had.                    *)
(***************************************************************************)
EXTENDS Integers

CONSTANTS
  NumJobs,    \* jobs 1..NumJobs, in the order they arrive in
  MaxNodes,   \* nodes 1..MaxNodes, in the order they are launched in
  Fits        \* Fits[k]: the sets of jobs that a node of kind k has room for

VARIABLES
  status,     \* status[j]: "absent", "queued", "running", "done", "rejected"
  host,       \* host[j]: the node job j runs on, or 0
  node,       \* node[n]: where node n is in its life
  kind,       \* kind[n]: what node n is, from its launch to its end
  may         \* may[j]: the kinds of node job j may run on, while it stays

Jobs == 1..NumJobs
Nodes == 1..MaxNodes
vars == <<status, host, node, kind, may>>

Init ==
  /\ status = [j \in Jobs |-> "absent"] /\ host = [j \in Jobs |-> 0]
  /\ node = [n \in Nodes |-> "none"]

-----------------------------------------------------------------------------
JobMoves ==
  {<<"absent", "queued">>, <<"absent", "running">>, <<"absent", "rejected">>,
   <<"queued", "running">>, <<"running", "done">>}

(* A node that has emptied is never READY again.                           *)
NodeMoves ==
  {<<"none", "LAUNCHING">>, <<"LAUNCHING", "READY">>,
   <<"READY", "IDLE">>, <<"READY", "DRAINING">>, <<"IDLE", "DRAINING">>,
   <<"READY", "TERMINATED">>, <<"IDLE", "TERMINATED">>, <<"DRAINING", "TERMINATED">>}

Moves(j) == status'[j] # status[j]
Starts(j) == status[j] # "running" /\ status'[j] = "running"
OnAfter(n) == {j \in Jobs : host'[j] = n}

(* One thing happens at a time: a job arrives or one ends or a node is     *)
(* ready; jobs that have waited may start along with it.                   *)
OneEvent ==
  LET comes == {j \in Jobs : Moves(j) /\ status[j] \in {"absent", "running"}}
      ready == {n \in Nodes : node[n] = "LAUNCHING" /\ node'[n] = "READY"}
  IN  /\ \A j, k \in comes : j = k
      /\ \A n, m \in ready : n = m
      /\ comes = {} \/ ready = {}

(* A job that stays keeps its node, and one that starts gets one that is   *)
(* READY.                                                                  *)
JobStep(j) ==
  /\ Moves(j) => <<status[j], status'[j]>> \in JobMoves
  /\ Moves(j) /\ status[j] = "absent" => \A k \in 1..(j-1) : status[k] # "absent"
  /\ host'[j] = IF status'[j] # "running" THEN 0
                ELSE IF Starts(j) THEN host'[j] ELSE host[j]
  /\ Starts(j) => host'[j] \in Nodes /\ node'[host'[j]] = "READY"
  /\ status'[j] \in {"queued", "running"} /\ status[j] # "absent" => may'[j] = may[j]

(* Nodes are launched and get ready in their order.  One becomes IDLE when *)
(* its last job ends, and leaves with no job on it.                        *)
NodeStep(n) ==
  /\ node'[n] # node[n] => <<node[n], node'[n]>> \in NodeMoves
  /\ node[n] = "none" /\ node'[n] # "none" => \A m \in 1..(n-1) : node'[m] # "none"
  /\ node[n] = "LAUNCHING" /\ node'[n] = "READY" =>
       \A m \in 1..(n-1) : node[m] # "LAUNCHING"
  /\ node'[n] = "IDLE" /\ node[n] # "IDLE" =>
       \E j \in Jobs : host[j] = n /\ status'[j] = "done"
  /\ node'[n] \in {"IDLE", "TERMINATED"} => OnAfter(n) = {}
  /\ node[n] # "none" /\ node'[n] # "TERMINATED" => kind'[n] = kind[n]

(* The jobs of a node are within its room, and may be there.               *)
WithinRoom(n) ==
  OnAfter(n) # {} =>
    /\ OnAfter(n) \in Fits[kind'[n]]
    /\ \A j \in OnAfter(n) : kind'[n] \in may'[j]

(* The jobs that j, which waits, finds on n: those that stay there, and    *)
(* those that start there now and came before j.                           *)
Ahead(j, n) == {k \in OnAfter(n) : Starts(k) => k < j}

FirstComeFirstServed(j, n) ==
  /\ status'[j] = "queued" /\ node'[n] = "READY" /\ kind'[n] \in may'[j]
  => Ahead(j, n) \cup {j} \notin Fits[kind'[n]]

Next ==
  /\ OneEvent
  /\ \A j \in Jobs : JobStep(j)
  /\ \A n \in Nodes : NodeStep(n) /\ WithinRoom(n)
  /\ \A j \in Jobs, n \in Nodes : FirstComeFirstServed(j, n)

Spec == Init /\ [][Next]_vars
=============================================================================
