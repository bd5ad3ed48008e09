---------------------------- MODULE ShortestPath -----------------------------
(***************************************************************************)
(* shortest_path: breadth-first search for a path with the fewest edges.   *)
(***************************************************************************)
EXTENDS PathSearch

CONSTANT Queries    \* the calls: records [graph, from, to]

\* The nodes and the edges of a snapshot are finitely many.
ASSUME QueriesAssumption ==
  \A c \in Queries : IsFiniteSet(DOMAIN c.graph.nodes) /\ IsFiniteSet(DOMAIN c.graph.edges)

VARIABLES
  in_collocation,   \* whether collocation edges may be taken
  q,                \* the queue
  visited           \* the nodes ever queued

vars == <<query, pc, parent, came_edge, cur, segments, in_collocation, q, visited>>

Init ==
  /\ query \in Queries
  /\ SearchInit
  /\ in_collocation \in BOOLEAN
  /\ q = << >>
  /\ visited = {}

Return == Answered /\ UNCHANGED <<in_collocation, q, visited>>

Start ==
  /\ pc = "start"
  /\ Searchable
  /\ pc' = "search"
  /\ q' = <<from>>
  /\ visited' = {from}
  /\ UNCHANGED <<query, searchVars, walkVars, in_collocation>>

\* The edge each unvisited neighbour of u is reached by: the first in the list.
Discovered(u) ==
  LET steps == Adjacency(u, in_collocation)
      new == {Neighbor(i, u) : i \in steps} \ visited
  IN  [v \in new |-> Earliest({i \in steps : Neighbor(i, u) = v})]

\* Mutant of Queued: new nodes go to the front of the queue.
QueuedFirst(rest, found) == ByEdge(found) \o rest

Queued(rest, found) == rest \o ByEdge(found)

\* Take the next node from the queue and visit its neighbours.
Visit ==
  /\ pc = "search"
  /\ q # << >>
  /\ Head(q) # to
  /\ LET u == Head(q)
         found == Discovered(u)
         new == DOMAIN found
     IN  /\ q' = Queued(Tail(q), found)
         /\ visited' = visited \cup new
         /\ parent' = [v \in DOMAIN parent \cup new |-> IF v \in new THEN u ELSE parent[v]]
         /\ came_edge' = [v \in DOMAIN came_edge \cup new |->
                            IF v \in new THEN found[v] ELSE came_edge[v]]
  /\ UNCHANGED <<query, pc, walkVars, in_collocation>>

\* The next node is the destination.
Arrive ==
  /\ pc = "search"
  /\ q # << >>
  /\ Head(q) = to
  /\ q' = Tail(q)
  /\ cur' = to
  /\ pc' = "rebuild"
  /\ UNCHANGED <<query, searchVars, segments, in_collocation, visited>>

GiveUp ==
  /\ pc = "search"
  /\ q = << >>
  /\ pc' = "no_route"
  /\ UNCHANGED <<query, searchVars, walkVars, in_collocation, q, visited>>

WalkBack == (Rebuild \/ fill_path) /\ UNCHANGED <<in_collocation, q, visited>>

Next == Return \/ Start \/ Visit \/ Arrive \/ GiveUp \/ WalkBack

Spec == Init /\ [][Next]_vars

-----------------------------------------------------------------------------
\* A path that is reported is a route along edges the caller allowed, and no
\* route has fewer edges; two endpoints that are one node are zero hops apart.
FewestHops ==
  pc = "found" =>
    /\ from # to => IsRoute(in_collocation)
    /\ to \in Within(in_collocation)[Len(segments)]
    /\ \A k \in 0..(Len(segments) - 1) : to \notin Within(in_collocation)[k]

\* "no connected topology path between endpoints" is said exactly when there is
\* none, except that a route over a dangling edge ends in an exception:
\* reachability is symmetric in the two ends of an edge, and a node is not lost
\* because it was queued before.
NoRouteMissed ==
  /\ pc = "no_route" => ~Reachable(in_collocation)
  /\ (pc = "rebuild" /\ DanglingEnds(graph) = {}) => Reachable(in_collocation)
  /\ pc = "NOT_FOUND" => DanglingEnds(graph) # {}
=============================================================================
