--------------------------- MODULE MCShortestPath ----------------------------
(* Every subgraph of ten edges over five nodes: containment with a second      *)
(* parent, a cycle and a self edge, collocation shortcuts, a peer link; the    *)
(* nodes as a PCI hierarchy, as two root complexes and as a processor; and     *)
(* edges that lead to the null id, as a merge beyond max_nodes leaves them.    *)
EXTENDS Distance

Edge(source, target, type) ==
  [source |-> source, target |-> target, type |-> type, direction |-> "DIRECTED",
   conf |-> IF type = "PEER_TO" THEN "LOW" ELSE "HIGH"]

AllEdges ==
  <<Edge(4, 3, "CONTAINS"), Edge(1, 2, "CONTAINS"), Edge(2, 3, "CONTAINS"),
    Edge(3, 3, "CONTAINS"), Edge(3, 4, "CONTAINS"), Edge(3, 5, "CONTAINS"),
    Edge(1, 5, "CONTAINS"), Edge(5, 1, "SHARES_NUMA"), Edge(3, 1, "SHARES_PARENT"),
    Edge(5, 4, "PEER_TO")>>

Node(type, numa, package, core) ==
  [type |-> type, numa |-> numa, package |-> package, core |-> core]

Bus == <<Node("MACHINE", 0, 0, 0), Node("PCI_ROOT", 0, 0, 0), Node("PCI_BRIDGE", 0, 0, 0),
         Node("PCI_DEVICE", 0, 0, 0), Node("ACCELERATOR", 1, 0, 0)>>
Roots == [Bus EXCEPT ![2] = Node("NETWORK_INTERFACE", 2, 0, 0), ![3] = Node("PCI_ROOT", 1, 0, 0),
                     ![4] = Node("PCI_DEVICE", 2, 0, 0), ![5] = Node("PCI_ROOT", 1, 0, 0)]
Processor == <<Node("MACHINE", 0, 0, 0), Node("CPU_PACKAGE", 0, 1, 0), Node("CPU_CORE", 1, 1, 1),
               Node("CPU_THREAD", 1, 1, 1), Node("CPU_THREAD", 2, 1, 1)>>

Graph(nodes, I) == [nodes |-> nodes, edges |-> [i \in I |-> AllEdges[i]]]

\* Positions need not be consecutive (see TopologyGraph). 6 is not a node.
MCQueries ==
  {[graph |-> Graph(c[1], I), from |-> c[2], to |-> c[3]] :
     c \in {<<Bus, 1, 5>>, <<Bus, 4, 1>>, <<Bus, 5, 4>>, <<Roots, 3, 1>>, <<Roots, 4, 5>>, <<Processor, 4, 5>>},
     I \in SUBSET DOMAIN AllEdges}
  \cup {[graph |-> Graph(Bus, {2}), from |-> 1, to |-> b] : b \in {1, 6}}
  \cup {[graph |-> [nodes |-> Bus, edges |-> es], from |-> 4, to |-> 5] :
          es \in {<<Edge(4, kNullNodeId, "CONTAINS"), Edge(kNullNodeId, 5, "CONTAINS")>>,
                  <<Edge(kNullNodeId, 4, "CONTAINS"), Edge(kNullNodeId, 5, "CONTAINS"), Edge(4, 5, "PEER_TO")>>}}
=============================================================================
