------------------------- MODULE MCSnapshotSequence --------------------------
(* Graphs over two nodes: every combination of material and immaterial node  *)
(* facts on one node, and every vector of up to two parallel, reversed or    *)
(* undirected edges between the two.                                         *)
EXTENDS SnapshotSequence, Sequences

Facts == [caps : {{}, {"peer"}}, numa : 0..2, provider : {"stub", "gpu"},
          props : {<< >>, [load |-> 1]}]

Plain == [caps |-> {}, numa |-> 0, provider |-> "gpu", props |-> << >>]

Edge(source, target, direction, link) ==
  [source |-> source, target |-> target, type |-> "PEER_TO",
   direction |-> direction, link |-> link]

Edges == {Edge(1, 2, "DIRECTED", 1), Edge(1, 2, "DIRECTED", 2),
          Edge(2, 1, "DIRECTED", 1), Edge(2, 1, "UNDIRECTED", 2)}

MCGraphs ==
  {[nodes |-> [n \in {1} |-> f], edges |-> << >>] : f \in Facts}
  \cup {[nodes |-> [n \in {1, 2} |-> Plain], edges |-> es] :
          es \in UNION {[1..n -> Edges] : n \in 0..2}}
=============================================================================
