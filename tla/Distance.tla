------------------------------ MODULE Distance -------------------------------
(***************************************************************************)
(* distance_between, which reads the path shortest_path found without      *)
(* collocation edges, and the reasons a ranking gives, built from the      *)
(* distance and the two classifications of the endpoints. Also the         *)
(* properties of Locality, stated on the graph and endpoints of a query.   *)
(***************************************************************************)
EXTENDS ShortestPath

Count(s, Test(_)) == Cardinality({i \in DOMAIN s : Test(s[i])})

\* The bridges and roots a path enters.
pci_depth ==
  Count(segments, LAMBDA s : graph.nodes[s.to].type \in {"PCI_BRIDGE", "PCI_ROOT"})

\* Mutant of root_crossings: an endpoint under no root counts as another root.
root_crossingsUnknown ==
  LET ra == root_ancestor(graph, from, "PCI_ROOT")
      rb == root_ancestor(graph, to, "PCI_ROOT")
  IN  IF ra # rb THEN 1 ELSE 0

root_crossings ==
  LET ra == root_ancestor(graph, from, "PCI_ROOT")
      rb == root_ancestor(graph, to, "PCI_ROOT")
  IN  IF kNullNodeId \notin {ra, rb} /\ ra # rb THEN 1 ELSE 0

device_class_transitions ==
  Count(segments, LAMBDA s : hardware_class(graph.nodes[s.from].type) #
                             hardware_class(graph.nodes[s.to].type))

uncertain_edges == Count(segments, LAMBDA s : graph.edges[s.edge].conf \in {"LOW", "UNKNOWN"})

\* The breakdown once shortest_path has returned; graph_hops is -1 in the code
\* when there is no path, here there is no such field.
distance_between ==
  IF from = to \/ pc # "found"
  THEN [found |-> from = to, pci_depth |-> 0, root_crossings |-> 0, transitions |-> 0,
        uncertainty |-> IF from = to THEN 0 ELSE 1]
  ELSE [found |-> TRUE, pci_depth |-> pci_depth, root_crossings |-> root_crossings,
        transitions |-> device_class_transitions, uncertainty |-> uncertain_edges]

\* The reasons as a set; the code sorts them.
build_reasons ==
  LET loc == locality_between(graph, from, to)
      class == classify_path(graph, from, to)
      d == distance_between
      table == {<<loc = "SAME_NUMA", "same_numa">>, <<loc = "SAME_PACKAGE", "same_package">>,
                <<loc = "SAME_CORE", "same_core">>, <<loc = "SAME_ROOT_COMPLEX", "same_root_complex">>,
                <<loc = "REMOTE", "remote">>, <<loc = "UNKNOWN", "locality_unknown">>,
                <<class = "HOST_TO_ACCELERATOR", "host_to_accelerator">>,
                <<class = "ACCELERATOR_TO_ACCELERATOR", "accelerator_to_accelerator">>,
                <<class = "CROSS_NUMA", "cross_numa">>, <<d.root_crossings > 0, "crosses_pci_root">>,
                <<d.pci_depth = 0 /\ loc # "UNKNOWN", "direct_connectivity">>,
                <<d.uncertainty > 0, "uncertain_path">>,
                <<class = "SAME_PCI_BRIDGE", "same_pci_bridge">>,
                <<class = "SAME_PCI_DEVICE", "same_pci_device">>}
  IN  {row[2] : row \in {r \in table : r[1]}}

-----------------------------------------------------------------------------
(* References.                                                             *)

\* The ids that contain one of S.
Over(g, S) ==
  {e.source : e \in {f \in EdgeSet(g.edges) : f.type = "CONTAINS" /\ f.target \in S}}

\* Containers(g, n): the ids from which a chain of CONTAINS edges leads to n.
Containers(g, n) ==
  LET up[k \in 0..Cardinality(Ids(g))] ==
        IF k = 0 THEN Over(g, {n}) ELSE LET S == up[k - 1] IN S \cup Over(g, S)
  IN  up[Cardinality(Ids(g))]

\* No node has two containers, and nothing dangles or has the null id. Cycles
\* are not excluded.
SingleParents(g) ==
  /\ DanglingEnds(g) = {}
  /\ kNullNodeId \notin DOMAIN g.nodes
  /\ \A n \in Ids(g) : Len(parents(g, n, "CONTAINS")) <= 1

-----------------------------------------------------------------------------
\* The breadth-first loops find exactly the transitive containers and contents,
\* each once, whatever cycles, self edges and repeated edges there are, and a
\* sibling is a sibling both ways.
TraversalExact ==
  pc = "start" =>
    LET above == [n \in Ids(graph) |-> Containers(graph, n)]
    IN  \A n \in Ids(graph) :
          LET up == ancestors(graph, n, "CONTAINS")
              down == descendants(graph, n, "CONTAINS")
          IN  /\ ToSet(up) = above[n] /\ IsInjective(up)
              /\ ToSet(down) = {b \in Ids(graph) : n \in above[b]} /\ IsInjective(down)
              /\ \A s \in ToSet(siblings(graph, n, "CONTAINS")) :
                   Contains(siblings(graph, s, "CONTAINS"), n)

\* root_ancestor ends on every graph, cyclic ones included, and answers with the
\* node itself or a container of the type; where nodes have one container each
\* it answers whenever there is one, and with the nearest.
RootAncestorExact ==
  pc = "start" =>
    LET above == [n \in DOMAIN graph.nodes |-> Containers(graph, n)]
    IN  \A n \in DOMAIN graph.nodes, t \in {"MACHINE", "PCI_ROOT"} :
          LET r == root_ancestor(graph, n, t)
              fits == {m \in DOMAIN graph.nodes :
                         graph.nodes[m].type = t /\ m \in above[n] \cup {n}}
          IN  /\ r \in fits \cup {kNullNodeId}
              /\ SingleParents(graph) => /\ r = kNullNodeId <=> fits = {}
                                         /\ \A m \in fits \ {r} : m \in above[r]

\* What the classifications say of two nodes does not depend on which is asked
\* from, agrees where both speak of NUMA nodes or of a shared bridge, and a
\* shared root complex or host is never claimed of nodes no path connects.
LocalityAgrees ==
  LET loc == locality_between(graph, from, to)
      class == classify_path(graph, from, to)
  IN  Searchable =>
        /\ pc = "start" =>
             /\ loc = locality_between(graph, to, from)
             /\ DanglingEnds(graph) = {} => class = classify_path(graph, to, from)
             /\ class = "SAME_NUMA" => loc = "SAME_NUMA"
             /\ class = "CROSS_NUMA" => loc \notin {"SAME_NUMA", "SAME_CORE"}
             /\ (class = "SAME_PCI_BRIDGE" /\ SingleParents(graph)) => loc # "REMOTE"
        /\ pc = "no_route" => loc \notin {"SAME_ROOT_COMPLEX", "SAME_HOST"}

\* The reasons given for one candidate do not contradict each other: a shared
\* root complex or bridge excludes crossing roots, one NUMA node excludes two,
\* and a path along containment alone that crosses roots is not direct (unless
\* it starts at a root that lies under another one).
ReasonsCompatible ==
  (pc = "found" /\ ~in_collocation) =>
    LET reasons == build_reasons
        both(S) == S \subseteq reasons
        is_root(n) == n \in DOMAIN graph.nodes /\ graph.nodes[n].type = "PCI_ROOT"
        nested == is_root(from) /\ \E n \in Containers(graph, from) : is_root(n)
    IN  /\ ~both({"same_numa", "cross_numa"})
        /\ ~both({"same_root_complex", "crosses_pci_root"})
        /\ SingleParents(graph) => ~both({"same_pci_bridge", "crosses_pci_root"})
        /\ (/\ SingleParents(graph) /\ ~nested
            /\ \A e \in EdgeSet(graph.edges) : e.type = "CONTAINS")
             => ~both({"direct_connectivity", "crosses_pci_root"})
=============================================================================
