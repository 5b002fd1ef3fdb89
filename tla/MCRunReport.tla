---------------------------- MODULE MCRunReport ----------------------------
(* Three jobs on nodes of two sizes.  The small node takes two small jobs, *)
(* for which its two volumes have room; the large job needs a large node.  *)
EXTENDS RunReport

MCPeak == <<3, 2, 3>>
MCVcpu == <<1, 1, 1>>
Phases4(peak) == [download |-> 1, preprocess |-> peak, workhorse |-> 2, upload |-> 1]
MCUse == [j \in Jobs |-> Phases4(MCPeak[j])]
MCConfigs ==
  [storage : StorageModels, until : {0}, events : {Jobs}] \cup
  {[storage |-> "pool", until |-> 2, events |-> Jobs],
   [storage |-> "pool", until |-> 3, events |-> 1..2]}
MCInstances == <<[ram |-> 6, vcpu |-> 2], [ram |-> 10, vcpu |-> 4]>>

ASSUME MCWithinPeaks == WithinPeaks
=============================================================================
