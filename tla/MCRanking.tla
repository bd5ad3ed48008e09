------------------------------ MODULE MCRanking ------------------------------
(* Two sockets, a PCI root, a bridge and an accelerator, with every subset of *)
(* links: parallel links of different speed, detours through the root that    *)
(* cost more per hop, a link to the null id, a link whose latency is infinite. *)
(* The default policy in units of 1/2000; one under which everything is free;  *)
(* one that counts hops, with a negative weight that leaves no edge a negative *)
(* cost and a reference bandwidth of 0; and the policy of                      *)
(* test_adversarial.cpp, whose NaN weight makes all edges cost the same, with  *)
(* a NUMA penalty that is not a number either.                                 *)
EXTENDS Ranking

Default ==
  [hop_penalty |-> 2000, numa_penalty |-> 40000, pci_bridge_penalty |-> 10000,
   root_crossing_penalty |-> 80000, latency_ns_weight |-> 1, bandwidth_scale |-> 500,
   bandwidth_ref_bps |-> 64, uncertainty_penalty |-> 8000, policy_penalty |-> 0,
   node_transition_penalty |-> 16000]

Free == [n \in WeightNames |-> IF n = "bandwidth_ref_bps" THEN 1 ELSE 0]

CountsHops == [Free EXCEPT !.hop_penalty = -1, !.policy_penalty = 2,
                           !.root_crossing_penalty = 2, !.bandwidth_ref_bps = 0]

Adversarial == [Default EXCEPT !.hop_penalty = -10000, !.latency_ns_weight = NaN,
                               !.numa_penalty = NaN]

MCWeights == {Default, Free, CountsHops, Adversarial}

\* Every edge brings the same gain.
Negative == [Free EXCEPT !.hop_penalty = -1]

NegativeWeights == {Negative}

Node(type, numa) == [type |-> type, numa |-> numa, package |-> 0, core |-> 0]

Nodes == <<Node("CPU_PACKAGE", 1), Node("PCI_ROOT", 0), Node("PCI_BRIDGE", 0),
           Node("CPU_PACKAGE", 2), Node("ACCELERATOR", 2)>>

Edge(source, target, type, latency, bandwidth, conf) ==
  [source |-> source, target |-> target, type |-> type, direction |-> "UNDIRECTED",
   latency |-> latency, bandwidth |-> bandwidth, conf |-> conf]

AllEdges ==
  <<Edge(1, 2, "CONTAINS", Unknown, Unknown, "HIGH"),
    Edge(2, 3, "CONTAINS", Unknown, Unknown, "HIGH"),
    Edge(5, 3, "ATTACHED_TO", Unknown, 2, "LOW"),
    Edge(3, 5, "CONNECTED_TO", 10, 0, "HIGH"),
    Edge(1, 4, "CONNECTED_TO", NaN, 32, "MEDIUM"),
    Edge(4, 3, "CONNECTED_TO", Unknown, Unknown, "HIGH"),
    Edge(4, 5, "LOCAL_TO", 0, 1, "UNKNOWN"),
    Edge(1, 5, "SHARES_NUMA", 1, 64, "HIGH"),
    Edge(3, kNullNodeId, "CONTAINS", Unknown, Unknown, "HIGH")>>

Request(call, source, type, max, candidates) ==
  {[call |-> call, graph |-> [nodes |-> Nodes, edges |-> [i \in I |-> AllEdges[i]]],
    source |-> source, type |-> type, max_candidates |-> max, candidates |-> candidates] :
     I \in SUBSET DOMAIN AllEdges}

\* 6 is not a node.
MCRequests ==
  Request("type", 5, "CPU_PACKAGE", 1, << >>) \cup Request("list", 1, "UNKNOWN", 0, <<5, 6, 3, 1, 5>>)
  \cup UNION {Request("explain", ends[1], "UNKNOWN", 0, <<ends[2]>>) : ends \in {<<2, 4>>, <<3, 3>>, <<1, 6>>}}

\* The ends of a line of four nodes.
LineRequests ==
  {[call |-> "list",
    graph |-> [nodes |-> [n \in 1..4 |-> Node("CPU_PACKAGE", 0)],
               edges |-> <<Edge(3, 4, "CONTAINS", Unknown, Unknown, "HIGH"),
                           Edge(4, 1, "CONTAINS", Unknown, Unknown, "HIGH"),
                           Edge(1, 2, "CONTAINS", Unknown, Unknown, "HIGH")>>],
    source |-> 3, type |-> "UNKNOWN", max_candidates |-> 0, candidates |-> <<2>>]}
=============================================================================
