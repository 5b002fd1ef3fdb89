--------------------------- MODULE MCPlusCluster ---------------------------
(* Four jobs, a small and a large instance type.  Three small jobs share   *)
(* small nodes by two, the third job fits a large node only, with one of   *)
(* them.                                                                   *)
EXTENDS PlusCluster

MCSoft == <<1, 1, 3, 1>>
MCVcpu == <<1, 1, 2, 1>>
MCPeak == <<2, 2, 4, 2>>
MCInstances == <<[ram |-> 5, vcpu |-> 2, price |-> 2], [ram |-> 8, vcpu |-> 4, price |-> 3]>>
=============================================================================
