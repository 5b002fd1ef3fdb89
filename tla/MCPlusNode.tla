----------------------------- MODULE MCPlusNode -----------------------------
(***************************************************************************)
(* Six jobs on a node of 12 with 2 for the system and a reservation of 4:  *)
(* requests of 9 in all compete for the remaining 6, bursts of 2, 3, 1, 4  *)
(* and 1 for the reservation, and job 5's burst of 5 fits no tier.  Three  *)
(* peaks at once would overload the node.                                  *)
(***************************************************************************)
EXTENDS PlusNode

MCSoft == <<2, 1, 3, 2, 2, 1>>
MCBurst == <<2, 3, 1, 4, 5, 1>>
MCPeak == <<4, 4, 4, 6, 7, 2>>
MCDownloadRam == <<1, 1, 1, 1, 1, 1>>
MCWorkhorseRam == <<2, 1, 3, 1, 2, 1>>
MCUploadRam == <<1, 1, 1, 2, 1, 1>>
MCVcpu == <<1, 1, 2, 1, 1, 1>>

ASSUME MCWithinRequests == WithinRequests
=============================================================================
