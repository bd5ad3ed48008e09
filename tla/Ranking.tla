------------------------------- MODULE Ranking -------------------------------
(***************************************************************************)
(* rank_candidates, by node type and by list, and explain: each candidate  *)
(* is searched for with lowest_cost_path, measured with shortest_path      *)
(* (distance_between calls it), and entered; then the entries are sorted   *)
(* and cut. The two searches are composed step by step: an exception in    *)
(* either ends the call.                                                   *)
(***************************************************************************)
EXTENDS LowestCostPath

\* The calls: records [call, graph, source, type, max_candidates, candidates].
\* explain has its destination as the one candidate.
CONSTANT Requests

\* A snapshot is finite, ids are ordered, what is measured is a double, and the
\* arguments are a count and a list: only the form by type has a cap, and explain
\* has one destination.
ASSUME RequestsAssumption ==
  \A r \in Requests :
    /\ IsFiniteSet(DOMAIN r.graph.nodes) /\ DOMAIN r.graph.nodes \subseteq Nat
    /\ IsFiniteSet(DOMAIN r.graph.edges)
    /\ \A i \in Positions(r.graph.edges) :
         {r.graph.edges[i].latency, r.graph.edges[i].bandwidth} \subseteq Double \cup {Unknown}
    /\ r.max_candidates \in Nat /\ r.candidates \in Seq(Nat)
    /\ r.call # "type" => r.max_candidates = 0
    /\ r.call = "explain" => Len(r.candidates) = 1

VARIABLES
  request,                      \* the call
  stage,                        \* where it is
  left,                         \* the candidates to come
  entry,                        \* the entry being made
  ranked, found,                \* the result
  in_collocation, q, visited    \* of shortest_path

Hops == INSTANCE Distance WITH Queries <- {}

hopVars  == <<in_collocation, q, visited>>
rankVars == <<request, stage, left, entry, ranked, found>>
vars     == <<costVars, hopVars, rankVars>>

OfType == {n \in DOMAIN request.graph.nodes : request.graph.nodes[n].type = request.type}

\* The ids the loop comes to, in any order it may: the nodes of a type are
\* iterated in hash order, a list is walked as it is.
Candidates == IF request.call = "type" THEN SetToSeqs(OfType) ELSE {request.candidates}

Init ==
  /\ request \in Requests
  /\ query = [graph |-> request.graph, from |-> request.source, to |-> kNullNodeId]
  /\ CostInit
  /\ in_collocation = FALSE /\ q = << >> /\ visited = {}
  /\ stage = "call" /\ left = << >> /\ entry = << >> /\ ranked = << >> /\ found = FALSE

\* An endpoint that is not in the snapshot makes an empty result.
Call ==
  /\ stage = "call"
  /\ IF /\ request.source \in DOMAIN graph.nodes
        /\ request.call = "explain" => Head(request.candidates) \in DOMAIN graph.nodes
     THEN stage' = "pick" /\ left' \in Candidates
     ELSE stage' = "done" /\ UNCHANGED left
  /\ UNCHANGED <<costVars, hopVars, request, entry, ranked, found>>

\* A search starts with fresh local variables.
NewSearch ==
  /\ pc' = "start"
  /\ parent' = << >> /\ came_edge' = << >>
  /\ cur' = kNullNodeId /\ segments' = << >>

\* A ranking passes over the source and over ids that are no node.
Skipped(n) == request.call # "explain" /\ n \notin DOMAIN graph.nodes \ {request.source}

Skip ==
  /\ stage = "pick"
  /\ left # << >>
  /\ Skipped(Head(left))
  /\ left' = Tail(left)
  /\ UNCHANGED <<costVars, hopVars, request, stage, entry, ranked, found>>

\* Any other candidate goes to lowest_cost_path.
Pick ==
  /\ stage = "pick"
  /\ left # << >>
  /\ ~Skipped(Head(left))
  /\ query' = [query EXCEPT !.to = Head(left)]
  /\ NewSearch
  /\ pq' = {} /\ dist' = << >> /\ total_cost' = 0
  /\ left' = Tail(left)
  /\ stage' = "cost"
  /\ UNCHANGED <<w, hopVars, request, entry, ranked, found>>

SearchCost == stage = "cost" /\ CostNext /\ UNCHANGED <<hopVars, rankVars>>

\* A candidate without a route is left out of a ranking.
LeaveOut ==
  /\ stage = "cost"
  /\ pc = "no_route"
  /\ request.call # "explain"
  /\ stage' = "pick"
  /\ UNCHANGED <<costVars, hopVars, request, left, entry, ranked, found>>

\* The path becomes an entry, and distance_between starts its own search.
Measure ==
  /\ stage = "cost"
  /\ pc = "found" \/ (pc = "no_route" /\ request.call = "explain")
  /\ entry' = [id |-> to, cost |-> total_cost, total |-> cost_breakdown,
               hop_count |-> Len(segments)]
  /\ NewSearch
  /\ q' = << >> /\ visited' = {}
  /\ stage' = "distance"
  /\ UNCHANGED <<query, w, pq, dist, total_cost, in_collocation, request, left, ranked, found>>

SearchHops ==
  /\ stage = "distance"
  /\ Hops!Next
  /\ UNCHANGED <<w, pq, dist, total_cost, rankVars>>

\* The entry is complete. Its reasons (build_reasons of Distance) and classes are
\* functions of the graph and need no place in the state.
Enter ==
  /\ stage = "distance"
  /\ pc \in {"found", "no_route"}
  /\ ranked' = Append(ranked, [id |-> entry.id, cost |-> entry.cost, total |-> entry.total,
                               hop_count |-> entry.hop_count, hops |-> Len(segments)])
  /\ stage' = "pick"
  /\ UNCHANGED <<costVars, hopVars, request, left, entry, found>>

\* An exception of either search leaves the call.
Throw ==
  /\ stage \in {"cost", "distance"}
  /\ pc = "NOT_FOUND"
  /\ stage' = "NOT_FOUND"
  /\ UNCHANGED <<costVars, hopVars, request, left, entry, ranked, found>>

\* Ascending by cost; equal costs by id.
Cheaper(a, b) == a.cost < b.cost \/ (a.cost = b.cost /\ a.id < b.id)

\* What std::sort may make of s: entries that compare equal stay in any order. A
\* NaN compares with nothing, so with one among them any order may result.
Sorted(s) ==
  {[k \in DOMAIN s |-> s[o[k]]] :
     o \in {p \in SetToSeqs(DOMAIN s) :
              (\E k \in DOMAIN s : s[k].cost = NaN)
                \/ \A i, j \in DOMAIN p : i < j => ~Cheaper(s[p[j]], s[p[i]])}}

\* resize, if there are more (0: no limit).
Cut(s) ==
  IF 0 < request.max_candidates /\ request.max_candidates < Len(s)
  THEN SubSeq(s, 1, request.max_candidates) ELSE s

\* Mutant of Deliver: the cap is applied to the entries as they were found.
DeliverCutFirst ==
  /\ stage = "pick"
  /\ left = << >>
  /\ ranked' \in Sorted(Cut(ranked))
  /\ found' = (ranked # << >>)
  /\ stage' = "done"
  /\ UNCHANGED <<costVars, hopVars, request, left, entry>>

\* Sort, note whether there is an entry, cut.
Deliver ==
  /\ stage = "pick"
  /\ left = << >>
  /\ \E sorted \in Sorted(ranked) : ranked' = Cut(sorted)
  /\ found' = (ranked # << >>)
  /\ stage' = "done"
  /\ UNCHANGED <<costVars, hopVars, request, left, entry>>

Next == \/ Call \/ Skip \/ Pick \/ SearchCost \/ LeaveOut \/ Measure
        \/ SearchHops \/ Enter \/ Throw \/ Deliver

\* A call is one thread's loop: it takes its next step while there is one.
Spec == Init /\ [][Next]_vars /\ WF_vars(Next)

-----------------------------------------------------------------------------
\* Where no edge has a negative cost, the path lowest_cost_path reports is a route,
\* the sum of its edges' costs is the least of all routes, and the search gives up
\* only when there is no route. The NUMA penalty is not part of an edge's cost: the
\* code adds it once, for the endpoints.
CostMinimal ==
  (stage = "cost" /\ pc \in Returned /\ NoNegativeEdge) =>
    /\ (pc = "found" /\ from # to) =>
         IsRoute(FALSE) /\ total_cost = Cheapest[to] ++ NumaPenalty(from, to)
    /\ pc = "no_route" => to \notin DOMAIN Cheapest

\* The breakdown a caller is shown is computed by other code, term by term, and
\* without the guard of the search: it is NaN if an edge of the path had to be
\* guarded, and otherwise adds up to the cost the path was chosen by.
BreakdownAddsUp ==
  (stage = "cost" /\ pc = "found") =>
    cost_breakdown =
      IF \E k \in DOMAIN segments :
           LET s == segments[k]
           IN  UnguardedCost(graph.nodes[s.from], graph.nodes[s.to], graph.edges[s.edge]) = NaN
      THEN NaN ELSE total_cost

\* Where no edge has a negative cost and the NUMA penalty is finite, a ranking
\* holds the candidates with a route, each as often as it was named, at the price
\* of the cheapest route and the endpoints' NUMA penalty, cheapest first whatever
\* order they were searched in; a cap keeps the cheapest; and the distance of an
\* entry never counts more hops than its path. Only a dangling edge makes a call
\* throw.
RankingExact ==
  /\ (/\ stage = "done" /\ request.call # "explain" /\ request.source \in DOMAIN graph.nodes
      /\ w.numa_penalty # NaN /\ NoNegativeEdge) =>
       LET cheapest == Cheapest
           price(n) == cheapest[n] + NumaPenalty(from, n)
           asked == IF request.call = "type" THEN [n \in OfType |-> n] ELSE request.candidates
           routed == {i \in DOMAIN asked : asked[i] \in DOMAIN cheapest \ {from}}
           wanted(n) == Cardinality({i \in routed : asked[i] = n})
           times(n) == Cardinality({k \in DOMAIN ranked : ranked[k].id = n})
           before(m, n) == price(m) < price(n) \/ (price(m) = price(n) /\ m <= n)
           all == Cardinality(routed)
       IN  /\ found <=> routed # {}
           /\ Len(ranked) = IF request.max_candidates \in 1..all THEN request.max_candidates ELSE all
           /\ \A k \in DOMAIN ranked :
                /\ times(ranked[k].id) <= wanted(ranked[k].id)
                /\ ranked[k].cost = price(ranked[k].id)
                /\ ranked[k].hops <= ranked[k].hop_count
                /\ k > 1 => before(ranked[k - 1].id, ranked[k].id)
           /\ \A i \in routed : times(asked[i]) < wanted(asked[i]) =>
                \A k \in DOMAIN ranked : before(ranked[k].id, asked[i])
  /\ stage = "NOT_FOUND" => DanglingEnds(graph) # {}

\* SECURITY.md: negative and NaN cost weights must not make a path query loop. The
\* walk back follows the parents the search has left, so a node it comes to again
\* it comes to for ever.
WalkBackEnds ==
  (stage = "cost" /\ pc = "rebuild") => \A k \in DOMAIN segments : segments[k].to # cur

\* Where no edge has a negative cost, every call returns or throws, free edges,
\* costs that had to be guarded and a NaN penalty included.
CallReturns == (IF stage = "call" THEN NoNegativeEdge ELSE FALSE) => <>(stage \in {"done", "NOT_FOUND"})
=============================================================================
