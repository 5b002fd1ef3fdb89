--------------------------- MODULE MCTierCluster ---------------------------
(* Two tiers on the same instance type, the second with more room for      *)
(* bursts, and a day of four ticks: the first tier is dormant in the       *)
(* second half.  The third job's burst fits the second tier only.          *)
EXTENDS TierCluster

MCSoft == <<2, 2, 2>>
MCVcpu == <<1, 2, 1>>
MCBurst == <<1, 1, 3>>
MCTierDefs == <<[spike |-> 1, ram |-> 6, vcpu |-> 4], [spike |-> 3, ram |-> 6, vcpu |-> 4]>>

Rule(vcpu, ticks) == [idle_vcpu |-> vcpu, duration |-> ticks]
Policy(max, gap, rules) == [max_nodes |-> max, gap |-> gap, rules |-> rules]
Both == {Rule(2, 2), Rule(4, 1)}
MCWindows ==
  <<[start |-> 0, end |-> 2, queues |-> <<Policy(1, 1, {Rule(2, 2)}), Policy(2, 2, Both)>>],
    [start |-> 2, end |-> 4, queues |-> [t \in {2} |-> Policy(1, 1, Both)]]>>
MCPolicies == {<<>>, MCWindows}

None == [j \in Jobs |-> <<>>]
Override1(by_bin, names) == <<[start |-> 2, end |-> 4, by_bin |-> by_bin, tiers |-> names]>>
Load(declared, default, overrides) ==
  [declared |-> declared, default |-> default, overrides |-> overrides,
   limited |-> [j \in Jobs |-> TRUE]]
NamesTier1 == Load(<<<<1>>, <<>>, <<1>>>>, [j \in Jobs |-> <<2>>], None)
MCWorkloads ==
  {Load(None, None, None),
   Load(<<<<1, 2>>, <<2, 1>>, <<1, 2>>>>, None,
        <<Override1(FALSE, <<>>), Override1(TRUE, <<>>), Override1(FALSE, <<1>>)>>),
   NamesTier1,
   [NamesTier1 EXCEPT !.limited[3] = FALSE],
   Load(<<<<1>>, <<3>>, <<2>>>>, None, None)}
=============================================================================
