----------------------------- MODULE PathSearch ------------------------------
(***************************************************************************)
(* What shortest_path and lowest_cost_path share: the adjacency of a       *)
(* snapshot, the tree of parents a search grows, and the walk back from    *)
(* the destination that turns the tree into path segments. A query runs on *)
(* an immutable snapshot, alone; one step is one iteration of a loop.      *)
(*                                                                         *)
(* Nodes have the fields Locality needs, edges latency, bandwidth and conf *)
(* besides the fields of TopologyGraph.                                    *)
(***************************************************************************)
EXTENDS Locality

VARIABLES
  query,       \* the arguments: a record [graph, from, to]
  pc,          \* where the query is, or how it ended
  parent,      \* parent[v]: the node v was reached from ...
  came_edge,   \* ... and the position of the edge
  cur,         \* the node the walk back has come to
  segments     \* the path segments, in order

searchVars == <<parent, came_edge>>
walkVars == <<cur, segments>>

graph == query.graph
from  == query.from
to    == query.to

Returned == {"absent", "found", "no_route", "NOT_FOUND"}
PC == {"start", "search", "rebuild"} \cup Returned

-----------------------------------------------------------------------------
(* Adjacency. take() enters both ends of every edge, so the direction of an *)
(* edge is not looked at.                                                   *)

collocation_edge(e) == e.type \in {"SHARES_PARENT", "SHARES_NUMA"}

traverse_edge(e, in_collocation) == collocation_edge(e) => in_collocation

\* Mutant of Adjacency: only the source of an edge gets an entry.
AdjacencyDirected(u, in_collocation) ==
  {i \in Positions(graph.edges) :
     u = graph.edges[i].source /\ traverse_edge(graph.edges[i], in_collocation)}

\* The positions of the edges a search may take from u.
Adjacency(u, in_collocation) ==
  {i \in Positions(graph.edges) :
     /\ u \in {graph.edges[i].source, graph.edges[i].target}
     /\ traverse_edge(graph.edges[i], in_collocation)}

Neighbor(i, u) ==
  IF graph.edges[i].source = u THEN graph.edges[i].target ELSE graph.edges[i].source

\* The first of a set of edge positions.
Earliest(I) == CHOOSE i \in I : \A j \in I : i <= j

-----------------------------------------------------------------------------
SearchInit ==
  /\ pc = "start"
  /\ parent = << >>
  /\ came_edge = << >>
  /\ cur = kNullNodeId
  /\ segments = << >>

\* The early returns: an endpoint that is not a node, or nothing to search for.
Answered ==
  /\ pc = "start"
  /\ \/ /\ {from, to} \subseteq DOMAIN graph.nodes
        /\ from = to
        /\ pc' = "found"
     \/ /\ ~({from, to} \subseteq DOMAIN graph.nodes)
        /\ pc' = "absent"
  /\ UNCHANGED <<query, searchVars, walkVars>>

Searchable == {from, to} \subseteq DOMAIN graph.nodes /\ from # to

\* One iteration of the walk back from the destination.
Rebuild ==
  /\ pc = "rebuild"
  /\ cur # from
  /\ segments' = <<[from |-> parent[cur], to |-> cur, edge |-> came_edge[cur]]>> \o segments
  /\ cur' = parent[cur]
  /\ UNCHANGED <<query, pc, searchVars>>

\* fill_path looks up every node of the path, then classifies the endpoints;
\* both throw NOT_FOUND at an id that is not in the snapshot.
fill_path ==
  /\ pc = "rebuild"
  /\ cur = from
  /\ pc' = IF /\ \A i \in DOMAIN segments :
                    {segments[i].from, segments[i].to} \subseteq DOMAIN graph.nodes
              /\ ~ClassifyThrows(graph, from, to)
           THEN "found" ELSE "NOT_FOUND"
  /\ UNCHANGED <<query, searchVars, walkVars>>

-----------------------------------------------------------------------------
(* References the two searches are compared with.                          *)

\* The edges that join u and v, whichever way they point.
Links(u, v, in_collocation) ==
  {i \in Positions(graph.edges) :
     /\ {graph.edges[i].source, graph.edges[i].target} = {u, v}
     /\ in_collocation \/ graph.edges[i].type \notin {"SHARES_PARENT", "SHARES_NUMA"}}

\* The segments lead from one endpoint to the other, each along an edge the
\* search may take.
IsRoute(in_collocation) ==
  /\ segments[1].from = from
  /\ segments[Len(segments)].to = to
  /\ \A i \in DOMAIN segments :
       /\ segments[i].edge \in Links(segments[i].from, segments[i].to, in_collocation)
       /\ i > 1 => segments[i].from = segments[i - 1].to

\* Within(c)[k]: the nodes at most k edges away from from.
Within(in_collocation) ==
  LET near[k \in 0..Cardinality(DOMAIN graph.nodes)] ==
        IF k = 0 THEN {from}
        ELSE LET nearer == near[k - 1]
             IN  nearer \cup {v \in DOMAIN graph.nodes :
                               \E u \in nearer : Links(u, v, in_collocation) # {}}
  IN  near

Reachable(in_collocation) ==
  to \in Within(in_collocation)[Cardinality(DOMAIN graph.nodes)]
=============================================================================
