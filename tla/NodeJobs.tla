------------------------------ MODULE NodeJobs ------------------------------
(***************************************************************************)
(* The jobs that come to a node.                                           *)
(***************************************************************************)
EXTENDS Totals, FiniteSets

CONSTANT NumJobs   \* jobs 1..NumJobs

Jobs == 1..NumJobs

ASSUME NumJobsAssumption == NumJobs \in Nat
=============================================================================
