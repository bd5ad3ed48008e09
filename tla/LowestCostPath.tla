--------------------------- MODULE LowestCostPath ----------------------------
(***************************************************************************)
(* lowest_cost_path: Dijkstra's search under a cost policy, and the        *)
(* cost_breakdown that explains the cost of the path it reports. A double  *)
(* of the code is an integer here, or NaN if it is not a finite number.    *)
(* Ranking makes the calls.                                                *)
(***************************************************************************)
EXTENDS PathSearch, Integers

CONSTANTS
  Weights,          \* the policies a caller may pass
  NaN,              \* any double that is not a finite number
  Unknown,          \* a latency or bandwidth that is not set
  DegenerateCost    \* the cost of an edge that would not be a finite number

WeightNames == {"hop_penalty", "numa_penalty", "pci_bridge_penalty",
                "root_crossing_penalty", "latency_ns_weight", "bandwidth_scale",
                "bandwidth_ref_bps", "uncertainty_penalty", "policy_penalty",
                "node_transition_penalty"}

ASSUME NumbersAssumption ==
  NaN \notin Int /\ Unknown \notin Int \cup {NaN} /\ DegenerateCost \in Nat

\* What a double may be.
Double == Int \cup {NaN}

ASSUME WeightsAssumption == Weights \subseteq [WeightNames -> Double]

\* Sums and products of doubles: what is not finite stays so.
Plus  == [p \in Double \X Double |-> IF NaN \in {p[1], p[2]} THEN NaN ELSE p[1] + p[2]]
Times == [p \in Double \X Double |-> IF NaN \in {p[1], p[2]} THEN NaN ELSE p[1] * p[2]]
a ++ b == Plus[<<a, b>>]
a ** b == Times[<<a, b>>]

VARIABLES
  w,            \* weights
  pq,           \* the priority queue: pairs <<cost, node>>
  dist,         \* dist[v]: the least cost known for v
  total_cost    \* the cost reported

costVars == <<query, pc, parent, came_edge, cur, segments, w, pq, dist, total_cost>>

-----------------------------------------------------------------------------
(* The cost of taking edge e from u to v: records of the snapshot.         *)

default_latency_ns(v) ==
  CASE v.type = "ACCELERATOR" -> 300
    [] v.type = "CPU_THREAD" -> 60
    [] v.type = "PCI_BRIDGE" -> 120
    [] v.type = "PCI_ROOT" -> 250
    [] v.type = "STORAGE_DEVICE" -> 80
    [] v.type = "NETWORK_INTERFACE" -> 500
    [] OTHER -> 100

\* In units of 10^9 bytes per second.
default_bandwidth_bps(v) ==
  CASE v.type \in {"ACCELERATOR", "CPU_THREAD"} -> 32
    [] v.type \in {"PCI_BRIDGE", "PCI_ROOT"} -> 16
    [] v.type = "STORAGE_DEVICE" -> 3
    [] v.type = "NETWORK_INTERFACE" -> 10
    [] OTHER -> 8

LatencyTerm(v, e) ==
  w.latency_ns_weight ** (IF e.latency = Unknown THEN default_latency_ns(v) ELSE e.latency)

\* A bandwidth that is not positive counts as the reference bandwidth, and that
\* divided by itself is 1, or NaN if it is 0. An infinite bandwidth, whose term
\* would be 0, is left out.
InverseBandwidthTerm(v, e) ==
  LET bw == IF e.bandwidth = Unknown THEN default_bandwidth_bps(v) ELSE e.bandwidth
  IN  IF NaN \in {bw, w.bandwidth_ref_bps, w.bandwidth_scale} THEN NaN
      ELSE IF bw > 0 THEN (w.bandwidth_scale * w.bandwidth_ref_bps) \div bw
      ELSE IF w.bandwidth_ref_bps = 0 THEN NaN ELSE w.bandwidth_scale

When(condition, penalty) == IF condition THEN penalty ELSE 0

\* The sum before the guard.
UnguardedCost(u, v, e) ==
     w.hop_penalty
  ++ LatencyTerm(v, e)
  ++ InverseBandwidthTerm(v, e)
  ++ When(v.type = "PCI_BRIDGE", w.pci_bridge_penalty)
  ++ When(v.type = "PCI_ROOT", w.root_crossing_penalty)
  ++ When(hardware_class(u.type) # hardware_class(v.type), w.node_transition_penalty)
  ++ When(e.conf \in {"LOW", "UNKNOWN"}, w.uncertainty_penalty)
  ++ w.policy_penalty

edge_traversal_cost(u, v, e) ==
  LET cost == UnguardedCost(u, v, e) IN IF cost = NaN THEN DegenerateCost ELSE cost

\* The cost of edge i taken from node u.
Cost(i, u) ==
  edge_traversal_cost(graph.nodes[u], graph.nodes[Neighbor(i, u)], graph.edges[i])

\* A penalty of the endpoints, whatever the path (0: no NUMA node known).
NumaPenalty(u, v) ==
  LET a == graph.nodes[u].numa
      b == graph.nodes[v].numa
  IN  When(a # 0 /\ b # 0 /\ a # b, w.numa_penalty)

-----------------------------------------------------------------------------
CostInit ==
  /\ SearchInit
  /\ w \in Weights
  /\ pq = {}
  /\ dist = << >>
  /\ total_cost = 0

Return == Answered /\ UNCHANGED <<w, pq, dist, total_cost>>

Start ==
  /\ pc = "start"
  /\ Searchable
  /\ pc' = "search"
  /\ pq' = {<<0, from>>}
  /\ dist' = [v \in {from} |-> 0]
  /\ UNCHANGED <<query, searchVars, walkVars, w, total_cost>>

Top == CHOOSE t \in pq : \A o \in pq : t[1] < o[1] \/ (t[1] = o[1] /\ t[2] <= o[2])

\* A way to v of cost d is better than what is known.
Better(d, v) == v \notin DOMAIN dist \/ d < dist[v]

\* The edges of u, which costs d, that improve a neighbour at the moment the
\* loop over the adjacency list comes to them.
Improving(d, u) ==
  LET steps == Adjacency(u, FALSE)
  IN  {i \in steps :
         /\ Better(d + Cost(i, u), Neighbor(i, u))
         /\ \A j \in steps : (j < i /\ Neighbor(j, u) = Neighbor(i, u)) => Cost(i, u) < Cost(j, u)}

\* Mutant of Relaxed: the first improvement in the list stays.
RelaxedFirst(better, u) ==
  [v \in {Neighbor(i, u) : i \in better} |-> Earliest({i \in better : Neighbor(i, u) = v})]

\* The edge each improved neighbour ends up with: the last improvement.
Relaxed(better, u) ==
  LET last(I) == CHOOSE i \in I : \A j \in I : j <= i
  IN  [v \in {Neighbor(i, u) : i \in better} |-> last({i \in better : Neighbor(i, u) = v})]

\* Take the cheapest node and relax its edges. A neighbour that is not a node
\* of the snapshot makes snap.node(v) throw.
Settle ==
  /\ pc = "search"
  /\ pq # {}
  /\ Top[2] # to
  /\ Top[1] <= dist[Top[2]]
  /\ LET d == Top[1]
         u == Top[2]
     IN  \/ /\ {Neighbor(i, u) : i \in Adjacency(u, FALSE)} \subseteq DOMAIN graph.nodes
            /\ \E better \in {Improving(d, u)}, via \in {Relaxed(Improving(d, u), u)} :
                 /\ dist' = [v \in DOMAIN dist \cup DOMAIN via |->
                               IF v \in DOMAIN via THEN d + Cost(via[v], u) ELSE dist[v]]
                 /\ parent' = [v \in DOMAIN parent \cup DOMAIN via |->
                                 IF v \in DOMAIN via THEN u ELSE parent[v]]
                 /\ came_edge' = [v \in DOMAIN came_edge \cup DOMAIN via |->
                                    IF v \in DOMAIN via THEN via[v] ELSE came_edge[v]]
                 /\ pq' = (pq \ {Top}) \cup {<<d + Cost(i, u), Neighbor(i, u)>> : i \in better}
            /\ UNCHANGED pc
         \/ /\ ~({Neighbor(i, u) : i \in Adjacency(u, FALSE)} \subseteq DOMAIN graph.nodes)
            /\ pc' = "NOT_FOUND"
            /\ UNCHANGED <<pq, dist, searchVars>>
  /\ UNCHANGED <<query, walkVars, w, total_cost>>

\* Mutant of SkipStale: the entry is popped only after the test that skips it.
SkipStaleUnpopped ==
  /\ pc = "search"
  /\ pq # {}
  /\ Top[2] # to
  /\ Top[1] > dist[Top[2]]
  /\ UNCHANGED costVars

\* An entry whose node has become cheaper since is dropped.
SkipStale ==
  /\ pc = "search"
  /\ pq # {}
  /\ Top[2] # to
  /\ Top[1] > dist[Top[2]]
  /\ pq' = pq \ {Top}
  /\ UNCHANGED <<query, pc, searchVars, walkVars, w, dist, total_cost>>

Arrive ==
  /\ pc = "search"
  /\ pq # {}
  /\ Top[2] = to
  /\ pq' = pq \ {Top}
  /\ cur' = to
  /\ pc' = "rebuild"
  /\ UNCHANGED <<query, searchVars, segments, w, dist, total_cost>>

GiveUp ==
  /\ pc = "search"
  /\ pq = {}
  /\ pc' = "no_route"
  /\ UNCHANGED <<query, searchVars, walkVars, w, pq, dist, total_cost>>

\* One step of the walk back adds its edge's cost.
AddUp ==
  /\ Rebuild
  /\ total_cost' = total_cost + Cost(came_edge[cur], parent[cur])
  /\ UNCHANGED <<w, pq, dist>>

\* The path-level penalty, which no guard looks at, then fill_path.
Finish ==
  /\ fill_path
  /\ total_cost' = total_cost ++ NumaPenalty(from, to)
  /\ UNCHANGED <<w, pq, dist>>

CostNext == Return \/ Start \/ Settle \/ SkipStale \/ Arrive \/ GiveUp \/ AddUp \/ Finish
-----------------------------------------------------------------------------
(* cost_breakdown, and the cheapest route by definition.                   *)

\* Mutant of accumulate: device class transitions are forgotten.
accumulateWithoutTransitions(u, v, e) ==
  [hop |-> w.hop_penalty, latency |-> LatencyTerm(v, e),
   bandwidth |-> InverseBandwidthTerm(v, e),
   bridge |-> When(v.type = "PCI_BRIDGE", w.pci_bridge_penalty),
   root |-> When(v.type = "PCI_ROOT", w.root_crossing_penalty),
   transition |-> 0,
   uncertainty |-> When(e.conf \in {"LOW", "UNKNOWN"}, w.uncertainty_penalty),
   policy |-> w.policy_penalty]

\* What one segment adds to each term of the breakdown.
accumulate(u, v, e) ==
  [hop |-> w.hop_penalty, latency |-> LatencyTerm(v, e),
   bandwidth |-> InverseBandwidthTerm(v, e),
   bridge |-> When(v.type = "PCI_BRIDGE", w.pci_bridge_penalty),
   root |-> When(v.type = "PCI_ROOT", w.root_crossing_penalty),
   transition |-> When(hardware_class(u.type) # hardware_class(v.type), w.node_transition_penalty),
   uncertainty |-> When(e.conf \in {"LOW", "UNKNOWN"}, w.uncertainty_penalty),
   policy |-> w.policy_penalty]

Terms == {"hop", "latency", "bandwidth", "bridge", "root", "transition", "uncertainty", "policy"}

\* The total of the breakdown: each term is summed over the segments, in a loop
\* from 0, and the terms are added up at the end.
cost_breakdown ==
  LET cb[k \in 0..Len(segments)] ==
        IF k = 0 THEN [t \in Terms |-> 0]
        ELSE LET s == segments[k]
                 more == accumulate(graph.nodes[s.from], graph.nodes[s.to], graph.edges[s.edge])
             IN  [t \in Terms |-> cb[k - 1][t] ++ more[t]]
      sum == cb[Len(segments)]
  IN     sum["hop"] ++ NumaPenalty(from, to) ++ sum["bridge"] ++ sum["root"] ++ sum["latency"]
      ++ sum["bandwidth"] ++ sum["uncertainty"] ++ sum["policy"] ++ sum["transition"]

\* No edge of the snapshot has a negative cost: what Dijkstra's search needs. The
\* snapshot and the policy stay as they are during a call.
NoNegativeEdge ==
  \A u \in DOMAIN graph.nodes : \A i \in Adjacency(u, FALSE) :
    Neighbor(i, u) \in DOMAIN graph.nodes => Cost(i, u) \in Nat

\* The least cost of a route of at most Cardinality(nodes) edges to each node
\* that has one.
Cheapest ==
  LET N == DOMAIN graph.nodes
      leastCost(S) == CHOOSE c \in S : \A d \in S : c <= d
      best[k \in 0..Cardinality(N)] ==
        IF k = 0 THEN [v \in {from} |-> 0]
        ELSE LET b == best[k - 1]
                 ways == [v \in N |->
                   {b[u] : u \in DOMAIN b \cap {v}} \cup
                   UNION {{b[u] + Cost(i, u) : i \in Links(u, v, FALSE)} : u \in DOMAIN b}]
             IN  [v \in {n \in N : ways[n] # {}} |-> leastCost(ways[v])]
  IN  best[Cardinality(N)]

=============================================================================
