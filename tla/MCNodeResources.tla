-------------------------- MODULE MCNodeResources --------------------------
(* Four jobs on a node of four vCPUs, which fit by three, and two volumes. *)
(* One job waits for I/O a quarter of the time and has a single-threaded   *)
(* stage after a parallel one, one can burst over the whole node, two are  *)
(* bound to fewer threads.  One workspace is larger than the trigger of a  *)
(* volume.                                                                 *)
EXTENDS NodeResources

MCWorkspace == <<4, 3, 9, 5>>
MCSoft == <<2, 1, 1, 1>>
MCHard == <<3, 4, 1, 2>>
MCDeclared == <<3, 4, 1, 2>>
MCEfficiency == <<3, 4, 2, 3>>
MCStageCaps == << <<135, 60>>, <<240>>, <<30>>, <<90>> >>
=============================================================================
