---------------------------- MODULE MCK8sCluster ----------------------------
(* A node takes three jobs by request, of which one may preprocess at a    *)
(* time; the burst of the third is too large for the tier.                 *)
EXTENDS K8sCluster

MCSoft == <<2, 2, 2>>
MCVcpu == <<1, 1, 1>>
Use(soft, peak) ==
  [download |-> 1, preprocess |-> peak, workhorse |-> soft, upload |-> 1]
MCRam == <<Use(2, 5), Use(2, 5), Use(2, 6)>>
=============================================================================
