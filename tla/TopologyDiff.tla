---------------------------- MODULE TopologyDiff -----------------------------
(***************************************************************************)
(* compare_snapshots and is_material_event: which differences between two   *)
(* graphs are reported, and which of them make the topology a new           *)
(* generation. Both arguments are records with at least the fields nodes    *)
(* and edges (a snapshot or a graph).                                       *)
(***************************************************************************)
EXTENDS TopologyGraph

NodeAdded(a, b)   == DOMAIN b.nodes \ DOMAIN a.nodes
NodeRemoved(a, b) == DOMAIN a.nodes \ DOMAIN b.nodes
CommonNodes(a, b) == DOMAIN a.nodes \cap DOMAIN b.nodes

CapabilityChanged(a, b) ==
  {n \in CommonNodes(a, b) : a.nodes[n].caps # b.nodes[n].caps}

\* Mutant of LocalityChanged: an unknown locality is not compared.
LocalityChangedIfKnown(a, b) ==
  {n \in CommonNodes(a, b) :
     a.nodes[n].numa # b.nodes[n].numa /\ a.nodes[n].numa # 0 /\ b.nodes[n].numa # 0}

\* numa_node, cpu_package and core_id are one locality value here.
LocalityChanged(a, b) ==
  {n \in CommonNodes(a, b) : a.nodes[n].numa # b.nodes[n].numa}

ProviderChanged(a, b) ==
  {n \in CommonNodes(a, b) : a.nodes[n].provider # b.nodes[n].provider}

\* A property that is only in a is not looked at.
NodePropertyChanged(a, b) ==
  {n \in CommonNodes(a, b) : \E p \in DOMAIN b.nodes[n].props :
     \/ p \notin DOMAIN a.nodes[n].props
     \/ a.nodes[n].props[p] # b.nodes[n].props[p]}

EdgeAdded(a, b)   == EdgeKeys(b.edges) \ EdgeKeys(a.edges)
EdgeRemoved(a, b) == EdgeKeys(a.edges) \ EdgeKeys(b.edges)

\* Mutant of EdgePropertyChanged: edges are matched by their stored endpoints,
\* not by their keys.
EdgePropertyChangedRaw(a, b) ==
  {j \in Positions(b.edges) : \E i \in Positions(a.edges) :
     /\ a.edges[i].source = b.edges[j].source /\ a.edges[i].target = b.edges[j].target
     /\ a.edges[i].type = b.edges[j].type
     /\ a.edges[i].link # b.edges[j].link}

\* The edges of b whose link facts differ from those of the first edge of a
\* with the same key.
EdgePropertyChanged(a, b) ==
  {j \in Positions(b.edges) : \E i \in Positions(a.edges) :
     /\ EdgeKey(a.edges[i]) = EdgeKey(b.edges[j])
     /\ IsFirst(a.edges, i)
     /\ a.edges[i].link # b.edges[j].link}

\* is_material_event over the events: everything except node properties.
MaterialChange(a, b) ==
  \/ NodeAdded(a, b) # {}
  \/ NodeRemoved(a, b) # {}
  \/ CapabilityChanged(a, b) # {}
  \/ LocalityChanged(a, b) # {}
  \/ ProviderChanged(a, b) # {}
  \/ EdgeAdded(a, b) # {}
  \/ EdgeRemoved(a, b) # {}
  \/ EdgePropertyChanged(a, b) # {}

\* The events vector is empty.
NoEvents(a, b) == ~MaterialChange(a, b) /\ NodePropertyChanged(a, b) = {}

-----------------------------------------------------------------------------
(* The reference: what a generation number stands for.                     *)

\* No two edges carry the same key.
UniqueKeys(g) == \A i \in Positions(g.edges) : IsFirst(g.edges, i)

\* The material content of a graph with unique keys.
MaterialView(g) ==
  [nodes |-> [n \in DOMAIN g.nodes |->
                <<g.nodes[n].caps, g.nodes[n].numa, g.nodes[n].provider>>],
   links |-> {<<EdgeKey(g.edges[i]), g.edges[i].link>> : i \in Positions(g.edges)}]
=============================================================================
