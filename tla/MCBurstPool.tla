---------------------------- MODULE MCBurstPool ----------------------------
(***************************************************************************)
(* Five jobs with bursts of 2, 1, 3, 2 and 5 on a pool of 4: pairs that    *)
(* fit together and pairs that do not, small ones that overtake a large    *)
(* one, and a job that fits a legacy pool only.                            *)
(***************************************************************************)
EXTENDS BurstPool

MCBurst == <<2, 1, 3, 2, 5>>
=============================================================================
