---------------------------- MODULE TopologyGraph ----------------------------
(***************************************************************************)
(* The vocabulary every other module shares: nodes, edges, edge keys, the   *)
(* graph a snapshot carries, and SnapshotBuilder::validate.                 *)
(*                                                                         *)
(* A graph is a record with                                                *)
(*   nodes  a function from node ids to node records;                      *)
(*   edges  the edge vector: a function from positions to edge records.    *)
(* Only the relative order of positions matters, so a vector that lost     *)
(* elements is the same function on fewer positions, never renumbered.     *)
(* Node ids are positive naturals (128-bit values compared with < and =    *)
(* in the code); kNullNodeId is 0.                                         *)
(***************************************************************************)
EXTENDS Naturals, FiniteSets

kNullNodeId == 0

NodeType == {"MACHINE", "CPU_PACKAGE", "CPU_CORE", "CPU_THREAD", "NUMA_NODE",
             "HOST_MEMORY_DOMAIN", "ACCELERATOR", "ACCELERATOR_MEMORY_DOMAIN",
             "PCI_ROOT", "PCI_BRIDGE", "PCI_DEVICE", "STORAGE_DEVICE",
             "NETWORK_INTERFACE", "SHARED_MEMORY_DOMAIN", "UNKNOWN", "EXTENSION"}

EdgeType == {"CONTAINS", "ATTACHED_TO", "CONNECTED_TO", "LOCAL_TO", "PEER_TO",
             "SHARES_PARENT", "SHARES_NUMA", "ROUTES_THROUGH",
             "ACCESSIBLE_FROM", "AFFINE_TO"}

EdgeDirection == {"DIRECTED", "UNDIRECTED"}

Confidence == {"AUTHORITATIVE", "HIGH", "MEDIUM", "LOW", "UNKNOWN"}

\* ConfidenceRanking::rank.
Rank(c) ==
  [AUTHORITATIVE |-> 5, HIGH |-> 4, MEDIUM |-> 3, LOW |-> 2, UNKNOWN |-> 1][c]

-----------------------------------------------------------------------------
(* Edge identity.                                                          *)

\* TopologyEdge::key(): an undirected edge is keyed by its ordered endpoints;
\* the direction itself is not part of the key.
EdgeKey(e) ==
  IF e.direction = "UNDIRECTED" /\ e.target < e.source
  THEN [source |-> e.target, target |-> e.source, type |-> e.type]
  ELSE [source |-> e.source, target |-> e.target, type |-> e.type]

\* The positions of an edge vector.
Positions(edges) == DOMAIN edges \cap Nat

EdgeKeys(edges) == {EdgeKey(edges[i]) : i \in Positions(edges)}

\* Whether i is the first position holding its key: what a scan that stops at
\* the first match, or an insertion into a set of seen keys, finds.
IsFirst(edges, i) ==
  \A j \in Positions(edges) : j < i => EdgeKey(edges[j]) # EdgeKey(edges[i])

EdgeSet(edges) == {edges[i] : i \in Positions(edges)}

\* The n least of a set of positions, or of keys: what a loop in ascending order
\* reaches that stops after n.
Leading(I, n) == {i \in I : Cardinality({j \in I : j < i}) < n}

\* A set of positions, or of ids, ascending.
InOrder(I) ==
  [k \in 1..Cardinality(I) |-> CHOOSE i \in I : Cardinality({j \in I : j < i}) = k - 1]

\* Nodes in the order of the edges that led to them, found[v] being v's.
ByEdge(found) ==
  LET at == InOrder({found[v] : v \in DOMAIN found})
  IN  [k \in DOMAIN at |-> CHOOSE v \in DOMAIN found : found[v] = at[k]]

-----------------------------------------------------------------------------
(* SnapshotBuilder::validate. Only errors make a snapshot invalid; the three *)
(* warning checks (asymmetric PEER_TO, accelerator PCI binding, untyped     *)
(* node) change no state and are left out.                                  *)

ContainsEdges(edges) == {i \in Positions(edges) : edges[i].type = "CONTAINS"}

\* The containment relation restricted to S has no source: every member of S
\* has a parent in S. A set of nodes like this exists exactly when the
\* topological sort of lines 71-88 cannot consume every node.
Rootless(edges, S) ==
  \A x \in S : \E i \in ContainsEdges(edges) :
    edges[i].target = x /\ edges[i].source \in S

HasCycle(edges) ==
  LET ends == UNION {{edges[i].source, edges[i].target} : i \in ContainsEdges(edges)}
  IN  \E S \in (SUBSET ends) \ {{}} : Rootless(edges, S)

\* One error per endpoint that is not a node.
DanglingEnds(g) ==
  {end \in Positions(g.edges) \X {"source", "target"} :
     g.edges[end[1]][end[2]] \notin DOMAIN g.nodes}

\* One error per node whose non-empty canonical key an earlier node holds.
DuplicateIdentities(g) ==
  LET keyed == {n \in DOMAIN g.nodes : g.nodes[n].key # 0}
  IN  Cardinality(keyed) - Cardinality({g.nodes[n].key : n \in keyed})

SelfContained(edges) ==
  {i \in ContainsEdges(edges) : edges[i].source = edges[i].target}

\* The number of errors in the ValidationResult; ok is ErrorCount = 0.
ErrorCount(g) ==
    Cardinality(DanglingEnds(g))
  + DuplicateIdentities(g)
  + Cardinality(SelfContained(g.edges))
  + (IF HasCycle(g.edges) THEN 1 ELSE 0)
=============================================================================
