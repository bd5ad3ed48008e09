------------------------- MODULE ShortestPathProofs --------------------------
(***************************************************************************)
(* The breadth-first search and the structural queries are right on every  *)
(* snapshot. It may have cycles, repeated edges, self edges and edges to   *)
(* ids that are no node; all that is assumed is that it is finite.         *)
(*                                                                         *)
(* The search: the path reported is a route with the fewest edges, and     *)
(* none is reported exactly when there is none. The argument gives every   *)
(* visited node a depth d, one more than that of its parent. The code      *)
(* keeps no such number: the invariant says that one exists, that the      *)
(* queue is sorted by it and spans two consecutive depths, and that        *)
(* whatever left the queue has had all its neighbours queued.              *)
(*                                                                         *)
(* The queries: a traversal finds the least closed set, and root_ancestor  *)
(* the only node of the type in the least set the walk up stays in; what   *)
(* the classifications and the reasons say follows from these two facts.   *)
(***************************************************************************)
EXTENDS Distance, GraphLemmas

-----------------------------------------------------------------------------
(* The inductive invariant, on explicit arguments: the graph g, whether     *)
(* collocation edges count (c), the endpoints s and t, the visited nodes V, *)
(* the tree of parents P along edges E, the queue Q.                        *)

\* All neighbours of v are visited, at most one level deeper.
Expanded(g, c, V, d, v) ==
  \A i, w : Joins(g, c, i, v, w) => w \in V /\ d[w] <= d[v] + 1

Frontier(g, c, t, V, Q, d) ==
  /\ Q \in Seq(V)
  /\ \A i, j \in 1..Len(Q) : i <= j => d[Q[i]] <= d[Q[j]] /\ d[Q[j]] <= d[Q[i]] + 1
  /\ \A v \in V :
       \/ \E i \in 1..Len(Q) : Q[i] = v
       \/ /\ v # t
          /\ Expanded(g, c, V, d, v)
          /\ \A i \in 1..Len(Q) : d[v] <= d[Q[i]]

\* There are depths that fit the tree and the queue.
Searching(g, c, s, t, V, P, E, Q) ==
  \E d : Tree(g, c, s, V, P, E, d) /\ Frontier(g, c, t, V, Q, d)

\* D is what is new at the head of the queue: the tree grows by it, and new
\* lists it.
Opens(g, c, V, Q, D, P, P1, E, E1, new) ==
  /\ D \cap V = {}
  /\ DOMAIN P1 = DOMAIN P \cup D
  /\ DOMAIN E1 = DOMAIN E \cup D
  /\ \A v \in DOMAIN P \ D : P1[v] = P[v]
  /\ \A v \in DOMAIN E \ D : E1[v] = E[v]
  /\ \A v \in D : P1[v] = Q[1] /\ Joins(g, c, E1[v], Q[1], v)
  /\ \A i, w : Joins(g, c, i, Q[1], w) => w \in V \cup D
  /\ new \in Seq(D)
  /\ \A v \in D : \E k \in 1..Len(new) : new[k] = v

\* Everything less deep than t has been expanded.
Layered(g, c, t, V, d) ==
  /\ t \in V
  /\ \A v \in V : d[v] < d[t] => Expanded(g, c, V, d, v)

\* There are depths that fit the tree and the segments found so far.
Retracing(g, c, s, t, V, P, E, x, segs) ==
  \E d : Tree(g, c, s, V, P, E, d) /\ Layered(g, c, t, V, d) /\ Trace(g, c, t, V, d, x, segs)

SearchInv ==
  /\ query \in Queries
  /\ in_collocation \in BOOLEAN
  /\ pc \in PC
  /\ pc = "start" => parent = << >> /\ came_edge = << >> /\ segments = << >>
  /\ pc \in {"search", "no_route"} =>
       /\ Searchable
       /\ segments = << >>
       /\ Searching(graph, in_collocation, from, to, visited, parent, came_edge, q)
  /\ pc = "no_route" => q = << >>
  /\ (pc = "rebuild" \/ (pc = "found" /\ from # to)) =>
       /\ Searchable
       /\ Retracing(graph, in_collocation, from, to, visited, parent, came_edge, cur, segments)
  /\ pc = "found" =>
       IF from = to THEN segments = << >>
       ELSE /\ cur = from
            /\ \A i \in DOMAIN segments : segments[i].to \in DOMAIN graph.nodes
  /\ pc = "NOT_FOUND" => DanglingEnds(graph) # {}

-----------------------------------------------------------------------------
(* Operators of the model.                                                 *)

\* What the model says with Adjacency and Neighbor, or with Links.
LEMMA JoinsIsAdjacency ==
  ASSUME in_collocation \in BOOLEAN, NEW u, NEW v, NEW i
  PROVE  /\ Joins(graph, in_collocation, i, u, v)
              <=> i \in Adjacency(u, in_collocation) /\ Neighbor(i, u) = v
         /\ Joins(graph, in_collocation, i, u, v) <=> i \in Links(u, v, in_collocation)
<1> DEFINE e == graph.edges[i]
<1>1. {e.source, e.target} = {u, v}
        <=> /\ u \in {e.source, e.target}
            /\ v = IF e.source = u THEN e.target ELSE e.source
  OBVIOUS
<1>2. (collocation_edge(e) => in_collocation)
        <=> (in_collocation \/ e.type \notin {"SHARES_PARENT", "SHARES_NUMA"})
  BY DEF collocation_edge
<1> QED
  BY <1>1, <1>2, Zenon DEF Joins, Adjacency, Neighbor, Links, traverse_edge

\* What Within is, level by level.
LEMMA WithinLevels ==
  ASSUME IsFiniteSet(DOMAIN graph.nodes), NEW c
  PROVE  LET N == Cardinality(DOMAIN graph.nodes)
             W == Within(c)
         IN  /\ N \in Nat
             /\ W[0] = {from}
             /\ \A k \in 1..N :
                  W[k] = W[k - 1] \cup {v \in DOMAIN graph.nodes :
                                          \E u \in W[k - 1] : Links(u, v, c) # {}}
<1> DEFINE N == Cardinality(DOMAIN graph.nodes)
           nodes == DOMAIN graph.nodes
           U == SUBSET (nodes \cup {from})
           next(S) == S \cup {v \in nodes : \E u \in S : Links(u, v, c) # {}}
           G == [S \in U |-> next(S)]
           Is(f) == f = [k \in 0..N |-> IF k = 0 THEN {from} ELSE next(f[k - 1])]
<1>1. N \in Nat
  BY FS_CardinalityType
<1>2. G \in [U -> U] /\ {from} \in U
  OBVIOUS
<1>3. PICK f \in [0..N -> U] : Iterates(f, G, {from}, N)
  <2> DEFINE x0 == {from}
  <2> HIDE DEF G, U, N, x0
  <2>1. x0 \in U
    BY <1>2 DEF x0
  <2>2. \E f \in [0..N -> U] : Iterates(f, G, x0, N)
    BY <1>1, <1>2, <2>1, IterExists
  <2> QED
    BY <2>2 DEF x0
<1>4. \A k \in 1..N : f[k] = next(f[k - 1])
  <2> SUFFICES ASSUME NEW k \in 1..N PROVE f[k] = next(f[k - 1])
    OBVIOUS
  <2>1. k - 1 \in 0..N
    BY <1>1
  <2>2. f[k - 1] \in U
    BY <1>3, <2>1
  <2> HIDE DEF next, U
  <2> QED
    BY <1>3, <2>2 DEF Iterates
<1>5. Is(f)
  <2> HIDE DEF next, U
  <2> QED
    BY <1>1, <1>3, <1>4 DEF Iterates
<1>6. Is(Within(c))
  <2>1. Within(c) = CHOOSE g : Is(g)
    BY DEF Within
  <2> HIDE DEF Is
  <2> QED
    BY <1>5, <2>1
<1> HIDE DEF next
<1>7. /\ Within(c)[0] = {from}
      /\ \A k \in 1..N : Within(c)[k] = next(Within(c)[k - 1])
  <2> DEFINE W == Within(c)
  <2>1. W = [k \in 0..N |-> IF k = 0 THEN {from} ELSE next(W[k - 1])]
    BY <1>6
  <2> HIDE DEF W, N
  <2>2. \A k \in 0..N : W[k] = IF k = 0 THEN {from} ELSE next(W[k - 1])
    BY <2>1, Zenon
  <2>3. 0 \in 0..N /\ \A k \in 1..N : k \in 0..N /\ k # 0
    BY <1>1
  <2> QED
    BY <2>2, <2>3 DEF W
<1> QED
  BY <1>1, <1>7 DEF next

-----------------------------------------------------------------------------
(* The search.                                                             *)

\* The queue once its head is taken and the new nodes are appended.
LEMMA Requeued ==
  ASSUME NEW V, NEW D, NEW Q \in Seq(V), Q # << >>, NEW new \in Seq(D)
  PROVE  LET R == Tail(Q) \o new
             n == Len(Q)
         IN  /\ R \in Seq(V \cup D)
             /\ n \in Nat /\ n >= 1 /\ Len(new) \in Nat
             /\ Len(R) = (n - 1) + Len(new)
             /\ \A i \in 1..(n - 1) : R[i] = Q[i + 1]
             /\ \A i \in 1..Len(new) : R[(n - 1) + i] = new[i]
<1>1. Len(Q) \in Nat /\ Len(Q) >= 1 /\ Len(new) \in Nat
  OBVIOUS
<1>2. Tail(Q) \in Seq(V) /\ Len(Tail(Q)) = Len(Q) - 1
  OBVIOUS
<1>3. Tail(Q) \in Seq(V \cup D) /\ new \in Seq(V \cup D)
  BY <1>2
<1>4. Tail(Q) \o new \in Seq(V \cup D) /\ Len(Tail(Q) \o new) = (Len(Q) - 1) + Len(new)
  BY <1>2, <1>3
<1>5. \A i \in 1..(Len(Q) - 1) : (Tail(Q) \o new)[i] = Q[i + 1]
  BY <1>1, <1>2
<1>6. \A i \in 1..Len(new) : (Tail(Q) \o new)[(Len(Q) - 1) + i] = new[i]
  BY <1>1, <1>2
<1> QED
  BY <1>1, <1>4, <1>5, <1>6

\* Visiting the head of the queue keeps the tree and the frontier: the new nodes
\* are one level below the head.
LEMMA VisitKeeps ==
  ASSUME NEW g, NEW c, NEW s, NEW t, NEW V, NEW P, NEW E, NEW Q,
         Searching(g, c, s, t, V, P, E, Q), Q # << >>, Q[1] # t,
         NEW D, NEW P1, NEW E1, NEW new, Opens(g, c, V, Q, D, P, P1, E, E1, new)
  PROVE  Searching(g, c, s, t, V \cup D, P1, E1, Tail(Q) \o new)
<1> PICK d : Tree(g, c, s, V, P, E, d) /\ Frontier(g, c, t, V, Q, d)
  BY DEF Searching
<1> D \cap V = {} /\ new \in Seq(D)
  BY DEF Opens
<1> DEFINE W == V \cup D
           u == Q[1]
           e == [v \in W |-> IF v \in D THEN d[u] + 1 ELSE d[v]]
           R == Tail(Q) \o new
           n == Len(Q)
<1>1. /\ R \in Seq(W) /\ n \in Nat /\ n >= 1 /\ Len(new) \in Nat
      /\ Len(R) = (n - 1) + Len(new)
      /\ \A i \in 1..(n - 1) : R[i] = Q[i + 1]
      /\ \A i \in 1..Len(new) : R[(n - 1) + i] = new[i]
  <2>1. Q \in Seq(V)
    BY DEF Frontier
  <2> QED
    BY <2>1, Requeued
<1>2. u \in V /\ d[u] \in Nat /\ \A v \in V : d[v] \in Nat
  BY <1>1 DEF Frontier, Tree
<1>3. /\ \A v \in V : e[v] = d[v] /\ v \in W
      /\ \A v \in D : e[v] = d[u] + 1 /\ v \in W
      /\ e \in [W -> Nat]
  <2>1. \A v \in V : v \notin D
    OBVIOUS
  <2>2. d[u] + 1 \in Nat
    BY <1>2
  <2>3. \A v \in W : e[v] = IF v \in D THEN d[u] + 1 ELSE d[v]
    OBVIOUS
  <2>4. e \in [W -> Nat]
    BY <1>2, <2>2
  <2> HIDE DEF e
  <2> QED
    BY <2>1, <2>3, <2>4
<1> HIDE DEF R, e
<1>4. Tree(g, c, s, W, P1, E1, e)
  <2>1. s \in V /\ s \in W /\ e[s] = 0 /\ s \notin D
    BY <1>3 DEF Tree
  <2>2. DOMAIN P1 = W \ {s} /\ DOMAIN E1 = W \ {s}
    BY <2>1 DEF Tree, Opens
  <2>3. ASSUME NEW v \in W \ {s}
        PROVE  P1[v] \in W /\ Joins(g, c, E1[v], P1[v], v) /\ e[v] = e[P1[v]] + 1
    <3>1. CASE v \in D
      <4>1. P1[v] = u /\ Joins(g, c, E1[v], u, v)
        BY <3>1 DEF Opens
      <4> QED
        BY <1>2, <1>3, <3>1, <4>1
    <3>2. CASE v \notin D
      <4>1. v \in V \ {s} /\ P1[v] = P[v] /\ E1[v] = E[v]
        BY <3>2 DEF Tree, Opens
      <4>2. P[v] \in V /\ Joins(g, c, E[v], P[v], v) /\ d[v] = d[P[v]] + 1
        BY <4>1 DEF Tree
      <4> QED
        BY <1>3, <4>1, <4>2
    <3> QED
      BY <3>1, <3>2
  <2> QED
    BY <1>3, <2>1, <2>2, <2>3 DEF Tree
<1>5. ASSUME NEW v \in V PROVE d[v] <= d[u] + 1
  <2>1. CASE \E i \in 1..Len(Q) : Q[i] = v
    BY <1>1, <2>1 DEF Frontier
  <2>2. CASE \A i \in 1..Len(Q) : d[v] <= d[Q[i]]
    <3>1. d[v] <= d[u]
      BY <1>1, <2>2
    <3> QED
      BY <1>2, <3>1
  <2> QED
    BY <2>1, <2>2 DEF Frontier
<1>6. ASSUME NEW i \in 1..Len(R)
      PROVE  \/ /\ i \in 1..(n - 1)
                /\ R[i] = Q[i + 1] /\ i + 1 \in 1..n /\ R[i] \in V /\ e[R[i]] = d[Q[i + 1]]
             \/ i > n - 1 /\ R[i] \in D /\ e[R[i]] = d[u] + 1
  <2>1. CASE i \in 1..(n - 1)
    <3>1. R[i] = Q[i + 1] /\ i + 1 \in 1..n
      BY <1>1, <2>1
    <3>2. Q[i + 1] \in V
      BY <3>1 DEF Frontier
    <3> QED
      BY <1>3, <2>1, <3>1, <3>2
  <2>2. CASE i \notin 1..(n - 1)
    <3>1. i - (n - 1) \in 1..Len(new) /\ i = (n - 1) + (i - (n - 1)) /\ i > n - 1
      BY <1>1, <2>2
    <3>2. R[i] = new[i - (n - 1)]
      BY <1>1, <3>1
    <3>3. R[i] \in D
      BY <3>1, <3>2
    <3> QED
      BY <1>3, <3>1, <3>3
  <2> QED
    BY <2>1, <2>2
<1>7. ASSUME NEW i \in 1..Len(R)
      PROVE  d[u] <= e[R[i]] /\ e[R[i]] <= d[u] + 1 /\ e[R[i]] \in Nat
  <2>1. \A k \in 1..n : d[u] <= d[Q[k]] /\ d[Q[k]] <= d[u] + 1
    <3>1. 1 \in 1..n /\ \A k \in 1..n : 1 <= k
      BY <1>1
    <3> QED
      BY <3>1 DEF Frontier
  <2>2. e[R[i]] \in Nat
    <3>1. R[i] \in W
      BY <1>6
    <3> QED
      BY <1>3, <3>1
  <2>3. CASE e[R[i]] = d[u] + 1
    BY <1>2, <2>2, <2>3
  <2>4. CASE i + 1 \in 1..n /\ e[R[i]] = d[Q[i + 1]]
    BY <2>1, <2>2, <2>4
  <2> QED
    BY <1>6, <2>3, <2>4
<1>8. ASSUME NEW i \in 1..Len(R), NEW j \in 1..Len(R), i <= j
      PROVE  e[R[i]] <= e[R[j]] /\ e[R[j]] <= e[R[i]] + 1
  <2>1. e[R[i]] \in Nat /\ e[R[j]] \in Nat
    BY <1>7
  <2>2. e[R[j]] <= e[R[i]] + 1
    <3>1. d[u] <= e[R[i]] /\ e[R[j]] <= d[u] + 1
      BY <1>7
    <3> QED
      BY <1>2, <2>1, <3>1
  <2>3. e[R[i]] <= e[R[j]]
    <3>1. CASE j \in 1..(n - 1)
      <4>1. i \in 1..(n - 1) /\ i + 1 \in 1..n /\ j + 1 \in 1..n /\ i + 1 <= j + 1
        BY <1>1, <1>8, <3>1
      <4>2. d[Q[i + 1]] <= d[Q[j + 1]]
        BY <4>1 DEF Frontier
      <4>3. ~ (i > n - 1) /\ ~ (j > n - 1)
        BY <1>1, <3>1, <4>1
      <4>4. e[R[i]] = d[Q[i + 1]] /\ e[R[j]] = d[Q[j + 1]]
        BY <1>6, <4>3
      <4> QED
        BY <4>2, <4>4
    <3>2. CASE j \notin 1..(n - 1)
      <4>1. e[R[j]] = d[u] + 1
        BY <1>6, <3>2
      <4>2. e[R[i]] <= d[u] + 1
        BY <1>7
      <4> QED
        BY <4>1, <4>2
    <3> QED
      BY <3>1, <3>2
  <2> QED
    BY <2>2, <2>3
<1>9. ASSUME NEW v \in W
      PROVE  \/ \E i \in 1..Len(R) : R[i] = v
             \/ /\ v # t
                /\ Expanded(g, c, W, e, v)
                /\ \A i \in 1..Len(R) : e[v] <= e[R[i]]
  <2>1. CASE v \in D
    <3>1. PICK k \in 1..Len(new) : new[k] = v
      BY <2>1 DEF Opens
    <3>2. (n - 1) + k \in 1..Len(R)
      <4> HIDE DEF n
      <4> QED
        BY <1>1, <3>1
    <3>3. R[(n - 1) + k] = v
      BY <1>1, <3>1
    <3> QED
      BY <3>2, <3>3
  <2>2. CASE v \in V /\ \E i \in 1..n : Q[i] = v /\ i # 1
    <3>1. PICK i \in 1..n : Q[i] = v /\ i # 1
      BY <2>2
    <3>2. i - 1 \in 1..(n - 1) /\ i - 1 \in 1..Len(R) /\ (i - 1) + 1 = i
      BY <1>1, <3>1
    <3>3. R[i - 1] = v
      BY <1>1, <3>1, <3>2
    <3> QED
      BY <3>2, <3>3
  <2>3. CASE v = u
    <3>1. Expanded(g, c, W, e, u)
      <4> SUFFICES ASSUME NEW i, NEW w, Joins(g, c, i, u, w)
                   PROVE  w \in W /\ e[w] <= e[u] + 1
        BY DEF Expanded
      <4>1. w \in W
        BY DEF Opens
      <4>2. CASE w \in D
        <5>1. e[w] = d[u] + 1 /\ e[u] = d[u]
          BY <1>2, <1>3, <4>2
        <5> QED
          BY <1>2, <4>1, <5>1
      <4>3. CASE w \in V
        <5>1. e[w] = d[w] /\ e[u] = d[u] /\ d[w] <= d[u] + 1
          BY <1>2, <1>3, <1>5, <4>3
        <5> QED
          BY <4>1, <5>1
      <4> QED
        BY <4>1, <4>2, <4>3
    <3>2. e[u] = d[u]
      BY <1>2, <1>3
    <3> QED
      BY <1>7, <2>3, <3>1, <3>2
  <2>4. CASE /\ v \in V
             /\ v # t
             /\ Expanded(g, c, V, d, v)
             /\ \A i \in 1..Len(Q) : d[v] <= d[Q[i]]
    <3>1. Expanded(g, c, W, e, v)
      <4> SUFFICES ASSUME NEW i, NEW w, Joins(g, c, i, v, w)
                   PROVE  w \in W /\ e[w] <= e[v] + 1
        BY DEF Expanded
      <4>1. w \in V /\ d[w] <= d[v] + 1
        BY <2>4 DEF Expanded
      <4> QED
        BY <1>3, <2>4, <4>1
    <3>2. e[v] = d[v] /\ d[v] <= d[u] /\ d[v] \in Nat
      BY <1>1, <1>2, <1>3, <2>4
    <3>3. ASSUME NEW i \in 1..Len(R) PROVE e[v] <= e[R[i]]
      <4>1. d[u] <= e[R[i]] /\ e[R[i]] \in Nat
        BY <1>7
      <4> QED
        BY <1>2, <3>2, <4>1
    <3> QED
      BY <2>4, <3>1, <3>3
  <2> QED
    BY <1>1, <2>1, <2>2, <2>3, <2>4 DEF Frontier
<1>10. Frontier(g, c, t, W, R, e)
  BY <1>1, <1>8, <1>9 DEF Frontier
<1> QED
  BY <1>4, <1>10 DEF R, Searching

\* When the head of the queue is the destination, everything nearer has been
\* expanded.
LEMMA ArriveLayered ==
  ASSUME NEW g, NEW c, NEW s, NEW t, NEW V, NEW P, NEW E, NEW Q, NEW d,
         Tree(g, c, s, V, P, E, d), Frontier(g, c, t, V, Q, d),
         Q # << >>, Q[1] = t
  PROVE  Layered(g, c, t, V, d) /\ Trace(g, c, t, V, d, t, << >>)
<1>1. Len(Q) \in Nat /\ 1 \in 1..Len(Q) /\ t \in V
  BY DEF Frontier
<1>2. \A v \in V : d[v] \in Nat
  BY DEF Tree
<1>3. ASSUME NEW v \in V, d[v] < d[t] PROVE Expanded(g, c, V, d, v)
  <2>1. ASSUME NEW i \in 1..Len(Q), Q[i] = v PROVE FALSE
    <3>1. 1 <= i
      BY <1>1
    <3>2. d[t] <= d[v]
      BY <1>1, <2>1, <3>1 DEF Frontier
    <3> QED
      BY <1>1, <1>2, <1>3, <3>2
  <2> QED
    BY <2>1 DEF Frontier
<1>4. Layered(g, c, t, V, d)
  BY <1>1, <1>3 DEF Layered
<1>5. << >> \in Seq([from : V, to : V, edge : Nat]) /\ Len(<< >>) = 0
  OBVIOUS
<1>6. Trace(g, c, t, V, d, t, << >>)
  BY <1>1, <1>2, <1>5 DEF Trace
<1> QED
  BY <1>4, <1>6

\* What Discovered gives: an edge of its own for every neighbour not visited.
LEMMA DiscoveredIs ==
  ASSUME in_collocation \in BOOLEAN, IsFiniteSet(DOMAIN graph.edges), NEW u
  PROVE  LET found == Discovered(u)
             D == DOMAIN found
         IN  /\ found \in [D -> Nat]
             /\ D \cap visited = {}
             /\ \A v \in D : Joins(graph, in_collocation, found[v], u, v)
             /\ \A i, w : Joins(graph, in_collocation, i, u, w) => w \in visited \cup D
             /\ \A v, w \in D : found[v] = found[w] => v = w
             /\ IsFiniteSet({found[v] : v \in D})
<1> DEFINE steps == Adjacency(u, in_collocation)
           D == {Neighbor(i, u) : i \in steps} \ visited
           by(v) == {i \in steps : Neighbor(i, u) = v}
           found == [v \in D |-> Earliest(by(v))]
<1>1. Discovered(u) = found
  BY DEF Discovered
<1>2. steps \subseteq Nat /\ steps \subseteq DOMAIN graph.edges
  BY DEF Adjacency, Positions
<1>3. ASSUME NEW v \in D PROVE found[v] \in by(v)
  <2>1. by(v) # {} /\ by(v) \subseteq Nat
    BY <1>2
  <2>2. \E i \in by(v) : \A j \in by(v) : i <= j
    <3> HIDE DEF by
    <3>1. \A S : S \subseteq Nat /\ S # {} => \E x \in S : \A y \in S : x <= y
      BY LeastExists
    <3> QED
      BY <2>1, <3>1
  <2>3. found[v] = Earliest(by(v))
    BY <1>3
  <2> HIDE DEF by, found
  <2> QED
    BY <2>2, <2>3 DEF Earliest
<1>4. \A v \in D : found[v] \in steps /\ Neighbor(found[v], u) = v
  BY <1>3
<1>5. \A v \in D : Joins(graph, in_collocation, found[v], u, v)
  <2> HIDE DEF found
  <2> QED
    BY <1>4, JoinsIsAdjacency
<1>6. \A i, w : Joins(graph, in_collocation, i, u, w) => w \in visited \cup D
  BY JoinsIsAdjacency
<1>7. DOMAIN found = D
  OBVIOUS
<1>8. found \in [D -> Nat] /\ \A v, w \in D : found[v] = found[w] => v = w
  <2>1. \A v \in D : found[v] \in Nat
    BY <1>2, <1>4
  <2> QED
    BY <1>4, <2>1
<1>9. IsFiniteSet({found[v] : v \in D})
  <2>1. {found[v] : v \in D} \in SUBSET DOMAIN graph.edges
    BY <1>2, <1>4
  <2> QED
    BY <2>1, FS_Subset
<1> HIDE DEF found
<1> QED
  BY <1>1, <1>5, <1>6, <1>7, <1>8, <1>9

-----------------------------------------------------------------------------
(* The invariant is kept.                                                  *)

LEMMA SearchInvInit == Init => SearchInv
BY DEF Init, SearchInit, SearchInv, PC, Returned

\* The early returns keep the invariant.
LEMMA ReturnKeeps == SearchInv /\ Return => SearchInv'
<1> SUFFICES ASSUME SearchInv, Return PROVE SearchInv'
  OBVIOUS
<1> USE DEF Return, Answered, searchVars, walkVars, graph, from, to
<1>1. /\ query' = query /\ in_collocation' = in_collocation /\ segments' = << >>
      /\ pc' \in {"found", "absent"} /\ (pc' = "found" => from = to)
  BY DEF SearchInv
<1>2. query' \in Queries /\ in_collocation' \in BOOLEAN /\ pc' \in PC
  BY <1>1 DEF SearchInv, PC, Returned
<1> QED
  BY <1>1, <1>2 DEF SearchInv

\* The search starts with a tree of one node.
LEMMA StartKeeps == SearchInv /\ Start => SearchInv'
<1> SUFFICES ASSUME SearchInv, Start PROVE SearchInv'
  OBVIOUS
<1> DEFINE d == [v \in {from} |-> 0]
<1>1. /\ query' = query /\ in_collocation' = in_collocation /\ segments' = << >>
      /\ parent' = << >> /\ came_edge' = << >>
      /\ pc' = "search" /\ q' = <<from>> /\ visited' = {from} /\ Searchable
  BY DEF SearchInv, Start, searchVars, walkVars
<1>2. graph' = graph /\ from' = from /\ to' = to /\ Searchable'
  BY <1>1 DEF graph, from, to, Searchable
<1>3. Tree(graph, in_collocation, from, {from}, << >>, << >>, d)
  <2> HIDE DEF graph
  <2> QED
    BY DEF Tree
<1>4. Frontier(graph, in_collocation, to, {from}, <<from>>, d)
  <2>1. <<from>> \in Seq({from}) /\ Len(<<from>>) = 1 /\ <<from>>[1] = from
    OBVIOUS
  <2>2. \A i, j \in 1..1 : i = 1 /\ j = 1
    OBVIOUS
  <2> QED
    BY <2>1, <2>2 DEF Frontier
<1> HIDE DEF d
<1>5. Searching(graph, in_collocation, from, to, visited, parent, came_edge, q)'
  BY <1>1, <1>2, <1>3, <1>4 DEF Searching
<1>6. query' \in Queries /\ in_collocation' \in BOOLEAN /\ pc' \in PC
  BY <1>1 DEF SearchInv, PC
<1> QED
  BY <1>1, <1>2, <1>5, <1>6 DEF SearchInv

\* A visited node keeps the invariant.
LEMMA VisitInv == SearchInv /\ Visit => SearchInv'
<1> SUFFICES ASSUME SearchInv, Visit PROVE SearchInv'
  OBVIOUS
<1> DEFINE u == Head(q)
           found == Discovered(u)
           D == DOMAIN found
<1>1. /\ query' = query /\ in_collocation' = in_collocation /\ segments' = << >>
      /\ pc = "search" /\ pc' = "search" /\ Searchable /\ q # << >> /\ u # to
  BY DEF SearchInv, Visit, walkVars
<1>2. graph' = graph /\ from' = from /\ to' = to /\ Searchable'
  BY <1>1 DEF graph, from, to, Searchable
<1>3. /\ q' = Tail(q) \o ByEdge(found)
      /\ visited' = visited \cup D
      /\ parent' = [v \in DOMAIN parent \cup D |-> IF v \in D THEN u ELSE parent[v]]
      /\ came_edge' = [v \in DOMAIN came_edge \cup D |->
                          IF v \in D THEN found[v] ELSE came_edge[v]]
  BY DEF Visit, Queued
<1>4. Searching(graph, in_collocation, from, to, visited, parent, came_edge, q)
  BY <1>1 DEF SearchInv
<1>5. query \in Queries /\ in_collocation \in BOOLEAN
  BY DEF SearchInv
<1>6. IsFiniteSet(DOMAIN graph.edges)
  BY <1>5, QueriesAssumption DEF graph
<1>7. /\ found \in [D -> Nat]
      /\ D \cap visited = {}
      /\ \A v \in D : Joins(graph, in_collocation, found[v], u, v)
      /\ \A i, w : Joins(graph, in_collocation, i, u, w) => w \in visited \cup D
      /\ \A v, w \in D : found[v] = found[w] => v = w
      /\ IsFiniteSet({found[v] : v \in D})
  BY <1>5, <1>6, DiscoveredIs
<1> HIDE DEF found, D
<1>8. /\ ByEdge(found) \in Seq(D)
      /\ \A v \in D : \E k \in 1..Len(ByEdge(found)) : ByEdge(found)[k] = v
      /\ \A k, l \in 1..Len(ByEdge(found)) : ByEdge(found)[k] = ByEdge(found)[l] => k = l
  BY <1>7, ByEdgeLists
<1>9. u = q[1]
  BY <1>1, <1>4 DEF Searching, Frontier
<1> HIDE DEF u
<1>10. Searching(graph, in_collocation, from, to, visited, parent, came_edge, q)'
  <2>1. q # << >> /\ q[1] # to
    BY <1>1, <1>9
  <2>2. Opens(graph, in_collocation, visited, q, D, parent, parent', came_edge, came_edge',
              ByEdge(found))
    <3>1. /\ DOMAIN parent' = DOMAIN parent \cup D
          /\ DOMAIN came_edge' = DOMAIN came_edge \cup D
          /\ \A v \in DOMAIN parent \ D : parent'[v] = parent[v]
          /\ \A v \in DOMAIN came_edge \ D : came_edge'[v] = came_edge[v]
          /\ \A v \in D : parent'[v] = q[1] /\ came_edge'[v] = found[v]
      BY <1>3, <1>9
    <3> QED
      BY <1>7, <1>8, <1>9, <3>1 DEF Opens
  <2>3. Searching(graph, in_collocation, from, to, visited \cup D, parent', came_edge',
                  Tail(q) \o ByEdge(found))
    BY <1>4, <2>1, <2>2, VisitKeeps
  <2> QED
    BY <1>1, <1>2, <1>3, <2>3
<1>11. query' \in Queries /\ in_collocation' \in BOOLEAN /\ pc' \in PC
  BY <1>1, <1>5 DEF PC
<1> QED
  BY <1>1, <1>2, <1>10, <1>11 DEF SearchInv

\* Arriving at the destination, or giving up, keeps the invariant.
LEMMA SearchEnds == SearchInv /\ (Arrive \/ GiveUp) => SearchInv'
<1> SUFFICES ASSUME SearchInv, Arrive \/ GiveUp PROVE SearchInv'
  OBVIOUS
<1>1. /\ query' = query /\ in_collocation' = in_collocation /\ visited' = visited
      /\ parent' = parent /\ came_edge' = came_edge /\ segments' = segments /\ pc = "search"
  BY DEF Arrive, GiveUp, searchVars, walkVars
<1>2. graph' = graph /\ from' = from /\ to' = to /\ Searchable' = Searchable
  BY <1>1 DEF graph, from, to, Searchable
<1>3. /\ Searchable /\ segments = << >> /\ query \in Queries /\ in_collocation \in BOOLEAN
      /\ Searching(graph, in_collocation, from, to, visited, parent, came_edge, q)
  BY <1>1 DEF SearchInv
<1>4. CASE Arrive
  <2>1. q # << >> /\ Head(q) = to /\ cur' = to /\ pc' = "rebuild"
    BY <1>4 DEF Arrive
  <2>2. PICK d : /\ Tree(graph, in_collocation, from, visited, parent, came_edge, d)
                 /\ Frontier(graph, in_collocation, to, visited, q, d)
    BY <1>3 DEF Searching
  <2>3. q[1] = to
    BY <2>1, <2>2 DEF Frontier
  <2>4. /\ Layered(graph, in_collocation, to, visited, d)
        /\ Trace(graph, in_collocation, to, visited, d, to, << >>)
    BY <2>1, <2>2, <2>3, ArriveLayered
  <2>5. Retracing(graph, in_collocation, from, to, visited, parent, came_edge, to, segments)
    BY <1>3, <2>2, <2>4 DEF Retracing
  <2>6. Retracing(graph, in_collocation, from, to, visited, parent, came_edge, cur, segments)'
    BY <1>1, <1>2, <2>1, <2>5
  <2> QED
    BY <1>1, <1>2, <1>3, <2>1, <2>6 DEF SearchInv, PC
<1>5. CASE GiveUp
  <2>1. q = << >> /\ q' = q /\ pc' = "no_route"
    BY <1>5 DEF GiveUp
  <2>2. Searching(graph, in_collocation, from, to, visited, parent, came_edge, q)'
    BY <1>1, <1>2, <1>3, <2>1
  <2> QED
    BY <1>1, <1>2, <1>3, <2>1, <2>2 DEF SearchInv, PC, Returned
<1> QED
  BY <1>4, <1>5

\* The walk back, and what fill_path makes of it, keep the invariant.
LEMMA WalkBackKeeps == SearchInv /\ WalkBack => SearchInv'
<1> SUFFICES ASSUME SearchInv, WalkBack PROVE SearchInv'
  OBVIOUS
<1>1. /\ query' = query /\ in_collocation' = in_collocation /\ visited' = visited
      /\ parent' = parent /\ came_edge' = came_edge /\ pc = "rebuild"
  BY DEF WalkBack, Rebuild, fill_path, searchVars
<1>2. graph' = graph /\ from' = from /\ to' = to /\ Searchable' = Searchable
  BY <1>1 DEF graph, from, to, Searchable
<1>3. /\ Searchable /\ query \in Queries /\ in_collocation \in BOOLEAN
      /\ Retracing(graph, in_collocation, from, to, visited, parent, came_edge, cur, segments)
  BY <1>1 DEF SearchInv
<1>4. PICK d : /\ Tree(graph, in_collocation, from, visited, parent, came_edge, d)
               /\ Layered(graph, in_collocation, to, visited, d)
               /\ Trace(graph, in_collocation, to, visited, d, cur, segments)
  BY <1>3 DEF Retracing
<1>5. CASE Rebuild
  <2>1. /\ cur # from /\ pc' = "rebuild" /\ cur' = parent[cur]
        /\ segments' = <<[from |-> parent[cur], to |-> cur, edge |-> came_edge[cur]]>> \o segments
    BY <1>1, <1>5 DEF Rebuild
  <2>2. Trace(graph, in_collocation, to, visited, d, parent[cur],
              <<[from |-> parent[cur], to |-> cur, edge |-> came_edge[cur]]>> \o segments)
    <3>1. to \in visited
      BY <1>4 DEF Layered
    <3> QED
      BY <1>4, <2>1, <3>1, RebuildKeeps
  <2>3. Trace(graph, in_collocation, to, visited, d, cur', segments')
    BY <2>1, <2>2
  <2>4. Retracing(graph, in_collocation, from, to, visited, parent, came_edge, cur', segments')
    BY <1>4, <2>3 DEF Retracing
  <2>5. Retracing(graph, in_collocation, from, to, visited, parent, came_edge, cur, segments)'
    BY <1>1, <1>2, <2>4
  <2> QED
    BY <1>1, <1>2, <1>3, <2>1, <2>5 DEF SearchInv, PC
<1>6. CASE fill_path
  <2>1. cur = from /\ cur' = cur /\ segments' = segments /\ pc' \in {"found", "NOT_FOUND"}
    BY <1>6 DEF fill_path, walkVars
  <2>2. Retracing(graph, in_collocation, from, to, visited, parent, came_edge, cur, segments)'
    BY <1>1, <1>2, <1>3, <2>1
  <2>3. from # to
    BY <1>3 DEF Searchable
  <2>4. ASSUME pc' = "found"
        PROVE  \A i \in DOMAIN segments : segments[i].to \in DOMAIN graph.nodes
    BY <1>6, <2>4 DEF fill_path
  <2>5. ASSUME pc' = "NOT_FOUND" PROVE DanglingEnds(graph) # {}
    <3>1. \/ \E i \in DOMAIN segments :
                 ~({segments[i].from, segments[i].to} \subseteq DOMAIN graph.nodes)
          \/ ClassifyThrows(graph, from, to)
      BY <1>6, <2>5 DEF fill_path
    <3>2. CASE \E i \in DOMAIN segments :
                 ~({segments[i].from, segments[i].to} \subseteq DOMAIN graph.nodes)
      <4>1. PICK i \in DOMAIN segments :
              ~({segments[i].from, segments[i].to} \subseteq DOMAIN graph.nodes)
        BY <3>2
      <4>2. i \in 1..Len(segments)
        BY <1>4, <4>1 DEF Trace
      <4>3. Joins(graph, in_collocation, segments[i].edge, segments[i].from, segments[i].to)
        BY <1>4, <4>2 DEF Trace
      <4> QED
        BY <4>1, <4>3, JoinsDangling
    <3>3. CASE ClassifyThrows(graph, from, to)
      <4>1. PICK i \in ContainsEdges(graph.edges) : graph.edges[i].source \notin DOMAIN graph.nodes
        BY <3>3 DEF ClassifyThrows, DecidingEdges
      <4>2. <<i, "source">> \in DanglingEnds(graph)
        BY <4>1 DEF DanglingEnds, ContainsEdges
      <4> QED
        BY <4>2
    <3> QED
      BY <3>1, <3>2, <3>3
  <2>6. DanglingEnds(graph)' = DanglingEnds(graph)
    BY <1>2 DEF DanglingEnds
  <2>7. query' \in Queries /\ in_collocation' \in BOOLEAN /\ pc' \in PC
    BY <1>1, <1>3, <2>1 DEF PC, Returned
  <2> QED
    BY <1>2, <1>3, <2>1, <2>2, <2>3, <2>4, <2>5, <2>6, <2>7 DEF SearchInv
<1> QED
  BY <1>5, <1>6 DEF WalkBack

\* A step that changes none of the variables keeps the invariant.
LEMMA SearchStutters ==
  ASSUME SearchInv, UNCHANGED vars
  PROVE  SearchInv'
<1>1. /\ query' = query /\ pc' = pc /\ parent' = parent /\ came_edge' = came_edge
      /\ cur' = cur /\ segments' = segments /\ in_collocation' = in_collocation
      /\ q' = q /\ visited' = visited
  BY DEF vars
<1>2. graph' = graph /\ from' = from /\ to' = to /\ Searchable' = Searchable
  BY <1>1 DEF graph, from, to, Searchable
<1>3. DanglingEnds(graph)' = DanglingEnds(graph)
  BY <1>2 DEF DanglingEnds
<1> QED
  BY <1>1, <1>2, <1>3 DEF SearchInv

\* The invariant of the search, for every query on a finite snapshot.
LEMMA SearchInvariant == Spec => []SearchInv
<1>1. ASSUME SearchInv, [Next]_vars PROVE SearchInv'
  BY <1>1, SearchStutters, ReturnKeeps, StartKeeps, VisitInv, SearchEnds, WalkBackKeeps DEF Next
<1> QED
  BY <1>1, SearchInvInit, PTL DEF Spec

-----------------------------------------------------------------------------
(* Depths and distances. W[k] are the nodes at most k edges away from s, up *)
(* to the number N of nodes.                                                *)

Levels(g, c, s, N, W) ==
  /\ W[0] = {s}
  /\ \A k \in 1..N :
       W[k] = W[k - 1] \cup {v \in DOMAIN g.nodes : \E u \in W[k - 1], i \in Nat : Joins(g, c, i, u, v)}

\* Within is the reference of the properties.
LEMMA WithinIsLevels ==
  ASSUME in_collocation \in BOOLEAN, IsFiniteSet(DOMAIN graph.nodes)
  PROVE  /\ Cardinality(DOMAIN graph.nodes) \in Nat
         /\ Levels(graph, in_collocation, from, Cardinality(DOMAIN graph.nodes),
                   Within(in_collocation))
<1>1. \A u, v : (\E i \in Nat : Joins(graph, in_collocation, i, u, v))
                  <=> Links(u, v, in_collocation) # {}
  <2>1. \A u, v : Links(u, v, in_collocation) \subseteq Nat
    BY DEF Links, Positions
  <2> QED
    BY <2>1, JoinsIsAdjacency
<1> DEFINE N == Cardinality(DOMAIN graph.nodes)
           W == Within(in_collocation)
<1>2. /\ N \in Nat
      /\ W[0] = {from}
      /\ \A k \in 1..N :
           W[k] = W[k - 1] \cup {v \in DOMAIN graph.nodes :
                                   \E u \in W[k - 1] : Links(u, v, in_collocation) # {}}
  BY WithinLevels
<1> HIDE DEF N, W
<1>3. ASSUME NEW k \in 1..N
      PROVE  W[k] = W[k - 1] \cup {v \in DOMAIN graph.nodes :
                       \E u \in W[k - 1], i \in Nat : Joins(graph, in_collocation, i, u, v)}
  <2>1. W[k] = W[k - 1] \cup {v \in DOMAIN graph.nodes :
                                \E u \in W[k - 1] : Links(u, v, in_collocation) # {}}
    BY <1>2
  <2> QED
    BY <1>1, <2>1
<1>4. Levels(graph, in_collocation, from, N, W)
  BY <1>2, <1>3 DEF Levels
<1> QED
  BY <1>2, <1>4 DEF N, W

\* What a closed set of visited nodes holds is all that can be reached.
LEMMA ClosedReach ==
  ASSUME NEW g, NEW c, NEW s, NEW V, NEW N \in Nat, NEW W, Levels(g, c, s, N, W),
         s \in V, \A v \in V : \A i, w : Joins(g, c, i, v, w) => w \in V
  PROVE  \A k \in 0..N : W[k] \subseteq V
<1> DEFINE S == {k \in 0..N : ~(W[k] \subseteq V)}
<1> SUFFICES ASSUME S # {} PROVE FALSE
  OBVIOUS
<1>1. PICK k \in S : \A j \in S : k <= j
  <2>1. S \subseteq Nat
    OBVIOUS
  <2> HIDE DEF S
  <2> QED
    BY <2>1, LeastExists
<1>2. k # 0
  BY <1>1 DEF Levels
<1>3. k \in 1..N /\ k - 1 \in 0..N /\ ~(k <= k - 1)
  BY <1>1, <1>2
<1>4. W[k - 1] \subseteq V
  BY <1>1, <1>3
<1>5. W[k] \subseteq V
  BY <1>3, <1>4 DEF Levels
<1> QED
  BY <1>1, <1>5

\* The destination is no nearer than its depth.
LEMMA NoShorter ==
  ASSUME NEW g, NEW c, NEW s, NEW t, NEW V, NEW P, NEW E, NEW d, NEW N \in Nat, NEW W,
         Levels(g, c, s, N, W), Tree(g, c, s, V, P, E, d), Layered(g, c, t, V, d)
  PROVE  \A k \in 0..N : k < d[t] => t \notin W[k]
<1> DEFINE Near(k) == W[k] \subseteq V /\ \A v \in W[k] : d[v] <= k
           S == {k \in 0..N : k < d[t] /\ ~Near(k)}
<1>1. d[t] \in Nat /\ \A v \in V : d[v] \in Nat
  BY DEF Tree, Layered
<1>2. S = {}
  <2> SUFFICES ASSUME S # {} PROVE FALSE
    OBVIOUS
  <2>1. PICK k \in S : \A j \in S : k <= j
    <3>1. S \subseteq Nat
      OBVIOUS
    <3> HIDE DEF S
    <3> QED
      BY <3>1, LeastExists
  <2>2. k # 0
    <3>1. W[0] = {s} /\ s \in V /\ d[s] = 0
      BY DEF Levels, Tree
    <3> QED
      BY <2>1, <3>1
  <2>3. k \in 1..N /\ k - 1 \in 0..N /\ ~(k <= k - 1) /\ k - 1 < d[t] /\ k \in Nat
    BY <1>1, <2>1, <2>2
  <2>4. Near(k - 1)
    BY <2>1, <2>3
  <2>5. ASSUME NEW v \in W[k] PROVE v \in V /\ d[v] <= k
    <3>1. CASE v \in W[k - 1]
      BY <1>1, <2>3, <2>4, <3>1
    <3>2. CASE \E u \in W[k - 1], i \in Nat : Joins(g, c, i, u, v)
      <4>1. PICK u \in W[k - 1], i \in Nat : Joins(g, c, i, u, v)
        BY <3>2
      <4>2. u \in V /\ d[u] <= k - 1 /\ d[u] \in Nat
        BY <1>1, <2>4, <4>1
      <4>3. d[u] < d[t]
        BY <1>1, <2>3, <4>2
      <4>4. v \in V /\ d[v] <= d[u] + 1
        BY <4>1, <4>2, <4>3 DEF Layered, Expanded
      <4> QED
        BY <1>1, <2>3, <4>2, <4>4
    <3> QED
      BY <2>3, <3>1, <3>2 DEF Levels
  <2>6. Near(k)
    BY <2>5
  <2> QED
    BY <2>1, <2>6
<1>3. ASSUME NEW k \in 0..N, k < d[t], t \in W[k] PROVE FALSE
  <2>1. Near(k)
    BY <1>2, <1>3
  <2>2. d[t] <= k
    BY <1>3, <2>1
  <2> QED
    BY <1>1, <1>3, <2>2
<1> QED
  BY <1>3

\* A node of the tree is at most its depth away, when every node of the tree is
\* a node of the snapshot.
LEMMA TreeReach ==
  ASSUME NEW g, NEW c, NEW s, NEW V, NEW P, NEW E, NEW d, NEW N \in Nat, NEW W,
         Levels(g, c, s, N, W), Tree(g, c, s, V, P, E, d), V \subseteq DOMAIN g.nodes
  PROVE  \A k \in 0..N : \A v \in V : d[v] <= k => v \in W[k]
<1> DEFINE S == {k \in 0..N : ~ \A v \in V : d[v] <= k => v \in W[k]}
<1> SUFFICES ASSUME S # {} PROVE FALSE
  OBVIOUS
<1>1. PICK k \in S : \A j \in S : k <= j
  <2>1. S \subseteq Nat
    OBVIOUS
  <2> HIDE DEF S
  <2> QED
    BY <2>1, LeastExists
<1>2. PICK v \in V : d[v] <= k /\ v \notin W[k]
  BY <1>1
<1>3. \A x \in V : d[x] \in Nat
  BY DEF Tree
<1>4. CASE v = s
  <2>1. k # 0
    BY <1>2, <1>4 DEF Levels
  <2>2. k \in 1..N /\ k - 1 \in 0..N /\ ~(k <= k - 1) /\ 0 <= k - 1
    BY <1>1, <2>1
  <2>3. v \in W[k - 1]
    BY <1>1, <1>2, <1>4, <2>2 DEF Tree
  <2> QED
    BY <1>2, <2>2, <2>3 DEF Levels
<1>5. CASE v # s
  <2>1. P[v] \in V /\ Joins(g, c, E[v], P[v], v) /\ d[v] = d[P[v]] + 1
    BY <1>2, <1>5 DEF Tree
  <2>2. E[v] \in Nat
    BY <2>1 DEF Joins, Positions
  <2>3. k \in 1..N /\ k - 1 \in 0..N /\ ~(k <= k - 1) /\ d[P[v]] <= k - 1
    BY <1>1, <1>2, <1>3, <2>1
  <2>4. P[v] \in W[k - 1]
    BY <1>1, <2>1, <2>3
  <2> QED
    BY <1>2, <2>1, <2>2, <2>3, <2>4 DEF Levels
<1> QED
  BY <1>4, <1>5

\* The segments found lead through nodes, each one edge further away, and they
\* are no more than the nodes.
LEMMA PathReach ==
  ASSUME NEW g, NEW c, NEW s, NEW t, NEW V, NEW P, NEW E, NEW d, NEW segs, NEW W,
         IsFiniteSet(DOMAIN g.nodes), Levels(g, c, s, Cardinality(DOMAIN g.nodes), W),
         Tree(g, c, s, V, P, E, d), Trace(g, c, t, V, d, s, segs), segs # << >>,
         \A i \in 1..Len(segs) : segs[i].to \in DOMAIN g.nodes
  PROVE  /\ Len(segs) \in 1..Cardinality(DOMAIN g.nodes)
         /\ t \in W[Len(segs)]
<1> DEFINE n == Len(segs)
           X == DOMAIN g.nodes
           at == [i \in 1..n |-> segs[i].to]
<1>1. n \in Nat /\ n # 0 /\ Cardinality(X) \in Nat
  BY FS_CardinalityType DEF Trace
<1>2. \A i \in 1..n : d[segs[i].to] = i
  BY <1>1 DEF Trace, Tree
<1>3. n <= Cardinality(X)
  <2>1. at \in [1..n -> X]
    OBVIOUS
  <2>2. \A i, j \in 1..n : at[i] = at[j] => i = j
    <3>1. \A i \in 1..n : d[at[i]] = i
      BY <1>2
    <3> HIDE DEF at
    <3> QED
      BY <3>1
  <2> HIDE DEF at
  <2>3. at \in Injection(1..n, X)
    BY <2>1, <2>2 DEF Injection, IsInjective
  <2>4. Cardinality(1..n) = n
    <3> HIDE DEF n
    <3> QED
      BY <1>1, FS_Interval
  <2> QED
    BY <2>3, <2>4, FS_Injection
<1> DEFINE S == {i \in 1..n : segs[i].to \notin W[i]}
<1>4. S = {}
  <2> SUFFICES ASSUME S # {} PROVE FALSE
    OBVIOUS
  <2>1. PICK i \in S : \A j \in S : i <= j
    <3>1. S \subseteq Nat
      OBVIOUS
    <3> HIDE DEF S
    <3> QED
      BY <3>1, LeastExists
  <2>2. i \in 1..n /\ i \in 1..Cardinality(X)
    BY <1>1, <1>3, <2>1
  <2>3. Joins(g, c, segs[i].edge, segs[i].from, segs[i].to) /\ segs[i].edge \in Nat
    BY <2>2 DEF Trace, Joins, Positions
  <2>4. segs[i].from \in W[i - 1]
    <3>1. CASE i = 1
      BY <2>2, <3>1 DEF Trace, Levels
    <3>2. CASE i # 1
      <4>1. i - 1 \in 1..n /\ ~(i <= i - 1)
        BY <1>1, <2>2, <3>2
      <4> QED
        BY <2>1, <2>2, <3>2, <4>1 DEF Trace
    <3> QED
      BY <3>1, <3>2
  <2>5. segs[i].to \in W[i]
    BY <2>2, <2>3, <2>4 DEF Levels
  <2> QED
    BY <2>1, <2>5
<1>5. n \in 1..n /\ segs[n].to = t
  BY <1>1 DEF Trace
<1>6. t \in W[n]
  BY <1>4, <1>5
<1> QED
  BY <1>1, <1>3, <1>6

\* t is at most n edges away from s.
Near(g, c, s, t, n) ==
  \A W : Levels(g, c, s, Cardinality(DOMAIN g.nodes), W) => t \in W[n]

\* A path, whatever search has found it, shows how near its end is.
LEMMA PathShowsNear ==
  ASSUME NEW g, NEW c, NEW s, NEW t, NEW V, NEW P, NEW E, NEW d, NEW segs,
         IsFiniteSet(DOMAIN g.nodes), Tree(g, c, s, V, P, E, d), Trace(g, c, t, V, d, s, segs),
         segs # << >>, V \subseteq DOMAIN g.nodes
  PROVE  /\ Len(segs) \in 1..Cardinality(DOMAIN g.nodes)
         /\ Near(g, c, s, t, Len(segs))
<1> DEFINE n == Cardinality(DOMAIN g.nodes)
           A == [from : V, to : V, edge : Nat]
<1>1. segs \in Seq(A) /\ \A a \in A : a.to \in DOMAIN g.nodes
  BY DEF Trace
<1>2. \A i \in 1..Len(segs) : segs[i].to \in DOMAIN g.nodes
  <2> HIDE DEF A
  <2> QED
    BY <1>1
<1>3. ASSUME NEW W, Levels(g, c, s, n, W) PROVE Len(segs) \in 1..n /\ t \in W[Len(segs)]
  BY <1>2, <1>3, PathReach
<1>4. Near(g, c, s, t, Len(segs))
  BY <1>3 DEF Near
<1>5. Len(segs) \in 1..n
  <2>1. n \in Nat
    BY FS_CardinalityType
  <2>2. PICK W : Levels(g, c, s, n, W)
    <3> DEFINE U == SUBSET (DOMAIN g.nodes \cup {s})
               more(S) == {v \in DOMAIN g.nodes : \E u \in S, i \in Nat : Joins(g, c, i, u, v)}
               G == [S \in U |-> S \cup more(S)]
    <3>1. G \in [U -> U] /\ {s} \in U
      OBVIOUS
    <3>2. PICK W \in [0..n -> U] : Iterates(W, G, {s}, n)
      <4> HIDE DEF U, G, n
      <4> QED
        BY <2>1, <3>1, IterExists
    <3>3. W[0] = {s}
      BY <3>2 DEF Iterates
    <3>4. ASSUME NEW k \in 1..n PROVE W[k] = W[k - 1] \cup more(W[k - 1])
      <4>1. k - 1 \in 0..n
        BY <2>1
      <4>2. W[k - 1] \in U /\ W[k] = G[W[k - 1]]
        BY <3>2, <4>1 DEF Iterates
      <4> HIDE DEF U, more
      <4> QED
        BY <4>2
    <3>5. Levels(g, c, s, n, W)
      BY <3>3, <3>4 DEF Levels
    <3> QED
      BY <3>5
  <2> QED
    BY <1>3, <2>2
<1> QED
  BY <1>4, <1>5

\* A path shortest_path reports has no more edges than any other.
LEMMA FoundIsNearest ==
  ASSUME SearchInv, pc = "found", NEW n \in 0..Cardinality(DOMAIN graph.nodes),
         Near(graph, in_collocation, from, to, n)
  PROVE  Len(segments) <= n
<1> DEFINE N == Cardinality(DOMAIN graph.nodes)
           W == Within(in_collocation)
<1>1. in_collocation \in BOOLEAN /\ IsFiniteSet(DOMAIN graph.nodes)
  BY QueriesAssumption DEF SearchInv, graph
<1>2. N \in Nat /\ Levels(graph, in_collocation, from, N, W)
  BY <1>1, WithinIsLevels
<1> HIDE DEF W
<1>3. to \in W[n]
  BY <1>2 DEF Near
<1>4. CASE from = to
  <2>1. Len(segments) = 0
    BY <1>4 DEF SearchInv
  <2> QED
    BY <1>2, <2>1
<1>5. CASE from # to
  <2>1. PICK d : /\ Tree(graph, in_collocation, from, visited, parent, came_edge, d)
                 /\ Layered(graph, in_collocation, to, visited, d)
                 /\ Trace(graph, in_collocation, to, visited, d, from, segments)
    BY <1>5 DEF SearchInv, Retracing
  <2>2. d[to] = Len(segments) /\ Len(segments) \in Nat
    BY <2>1 DEF Trace, Tree, Layered
  <2>3. ~(n < d[to])
    BY <1>2, <1>3, <2>1, NoShorter
  <2> QED
    BY <1>2, <2>2, <2>3
<1> QED
  BY <1>4, <1>5

-----------------------------------------------------------------------------
(* The results.                                                            *)

\* A path shortest_path reports leads from one endpoint to the other along edges
\* the caller allowed, and no route has fewer edges.
THEOREM ShortestPathFewestHops == Spec => []FewestHops
<1>1. SearchInv => FewestHops
  <2> SUFFICES ASSUME SearchInv, pc = "found"
               PROVE  /\ from # to => IsRoute(in_collocation)
                      /\ to \in Within(in_collocation)[Len(segments)]
                      /\ \A k \in 0..(Len(segments) - 1) : to \notin Within(in_collocation)[k]
    BY DEF FewestHops
  <2> DEFINE N == Cardinality(DOMAIN graph.nodes)
             W == Within(in_collocation)
  <2>1. in_collocation \in BOOLEAN /\ IsFiniteSet(DOMAIN graph.nodes)
    BY QueriesAssumption DEF SearchInv, graph
  <2>2. N \in Nat /\ Levels(graph, in_collocation, from, N, W)
    BY <2>1, WithinIsLevels
  <2>3. CASE from = to
    <3>1. Len(segments) = 0
      BY <2>3 DEF SearchInv
    <3>2. W[0] = {from}
      BY <2>2 DEF Levels
    <3>3. 0..(Len(segments) - 1) = {}
      BY <3>1
    <3> QED
      BY <2>3, <3>1, <3>2, <3>3
  <2>4. CASE from # to
    <3>1. PICK d : /\ Tree(graph, in_collocation, from, visited, parent, came_edge, d)
                   /\ Layered(graph, in_collocation, to, visited, d)
                   /\ Trace(graph, in_collocation, to, visited, d, from, segments)
      BY <2>4 DEF SearchInv, Retracing
    <3>2. Len(segments) \in Nat /\ DOMAIN segments = 1..Len(segments)
      BY <3>1 DEF Trace
    <3>3. \A i \in 1..Len(segments) : segments[i].to \in DOMAIN graph.nodes
      BY <2>4, <3>2 DEF SearchInv
    <3>4. Len(segments) # 0 /\ segments # << >>
      BY <2>4, <3>1 DEF Trace
    <3> HIDE DEF W
    <3>5. Len(segments) \in 1..N /\ to \in W[Len(segments)]
      BY <2>1, <2>2, <3>1, <3>3, <3>4, PathReach
    <3>6. d[to] = Len(segments)
      BY <3>1, <3>2 DEF Trace, Tree, Layered
    <3>7. ASSUME NEW k \in 0..(Len(segments) - 1) PROVE to \notin W[k]
      <4>1. k \in 0..N /\ k < d[to]
        BY <2>2, <3>5, <3>6
      <4> QED
        BY <2>2, <3>1, <4>1, NoShorter
    <3>8. IsRoute(in_collocation)
      <4>1. segments[1].from = from /\ segments[Len(segments)].to = to
        BY <3>1, <3>2, <3>4 DEF Trace
      <4>2. ASSUME NEW i \in DOMAIN segments
            PROVE  /\ segments[i].edge \in Links(segments[i].from, segments[i].to, in_collocation)
                   /\ i > 1 => segments[i].from = segments[i - 1].to
        <5>1. i \in 1..Len(segments)
          BY <3>2
        <5>2. /\ Joins(graph, in_collocation, segments[i].edge, segments[i].from, segments[i].to)
              /\ segments[i].from = IF i = 1 THEN from ELSE segments[i - 1].to
          BY <3>1, <5>1 DEF Trace
        <5> QED
          BY <2>1, <5>1, <5>2, JoinsIsAdjacency
      <4> QED
        BY <4>1, <4>2 DEF IsRoute
    <3> QED
      BY <3>5, <3>7, <3>8 DEF W
  <2> QED
    BY <2>3, <2>4
<1> QED
  BY <1>1, SearchInvariant, PTL

\* shortest_path reports that there is no path exactly when there is none, and
\* throws only on a snapshot with a dangling edge.
THEOREM ShortestPathNoRouteMissed == Spec => []NoRouteMissed
<1>1. SearchInv => NoRouteMissed
  <2> SUFFICES ASSUME SearchInv PROVE NoRouteMissed
    OBVIOUS
  <2> DEFINE N == Cardinality(DOMAIN graph.nodes)
             W == Within(in_collocation)
  <2>1. in_collocation \in BOOLEAN /\ IsFiniteSet(DOMAIN graph.nodes)
    BY QueriesAssumption DEF SearchInv, graph
  <2>2. N \in Nat /\ Levels(graph, in_collocation, from, N, W)
    BY <2>1, WithinIsLevels
  <2>3. Reachable(in_collocation) <=> to \in W[N]
    BY DEF Reachable
  <2>4. N \in 0..N
    BY <2>2
  <2> HIDE DEF N, W
  <2>5. ASSUME pc = "no_route" PROVE to \notin W[N]
    <3>1. PICK d : /\ Tree(graph, in_collocation, from, visited, parent, came_edge, d)
                   /\ Frontier(graph, in_collocation, to, visited, << >>, d)
      BY <2>5 DEF SearchInv, Searching
    <3>2. \A v \in visited : v # to /\ Expanded(graph, in_collocation, visited, d, v)
      BY <3>1 DEF Frontier
    <3>3. /\ from \in visited
          /\ \A v \in visited : \A i, w : Joins(graph, in_collocation, i, v, w) => w \in visited
      BY <3>1, <3>2 DEF Tree, Expanded
    <3>4. W[N] \subseteq visited
      BY <2>2, <2>4, <3>3, ClosedReach
    <3> QED
      BY <3>2, <3>4
  <2>6. ASSUME pc = "rebuild", DanglingEnds(graph) = {} PROVE to \in W[N]
    <3>1. PICK d : /\ Tree(graph, in_collocation, from, visited, parent, came_edge, d)
                   /\ Layered(graph, in_collocation, to, visited, d)
      BY <2>6 DEF SearchInv, Retracing
    <3>2. from \in DOMAIN graph.nodes
      BY <2>6 DEF SearchInv, Searchable
    <3>3. visited \subseteq DOMAIN graph.nodes
      <4> SUFFICES ASSUME NEW v \in visited \ {from} PROVE v \in DOMAIN graph.nodes
        BY <3>2
      <4>1. Joins(graph, in_collocation, came_edge[v], parent[v], v)
        BY <3>1 DEF Tree
      <4> QED
        BY <2>6, <4>1, JoinsDangling
    <3>4. to \in visited
      BY <3>1 DEF Layered
    <3>5. d[to] <= N
      BY <2>1, <3>1, <3>3, <3>4, DepthBound DEF N
    <3> QED
      BY <2>2, <2>4, <3>1, <3>3, <3>4, <3>5, TreeReach
  <2>7. pc = "NOT_FOUND" => DanglingEnds(graph) # {}
    BY DEF SearchInv
  <2> QED
    BY <2>3, <2>5, <2>6, <2>7 DEF NoRouteMissed
<1> QED
  BY <1>1, SearchInvariant, PTL

-----------------------------------------------------------------------------
(* Containment.                                                            *)

\* x contains n directly.
Contains1(g, x, n) ==
  \E i \in Positions(g.edges) :
    g.edges[i].type = "CONTAINS" /\ g.edges[i].source = x /\ g.edges[i].target = n

LEMMA OverIs ==
  ASSUME NEW g, NEW S, NEW x
  PROVE  x \in Over(g, S) <=> \E n \in S : Contains1(g, x, n)
  BY DEF Over, EdgeSet, Contains1

\* parents lists the direct containers.
LEMMA ParentsList ==
  ASSUME NEW g, IsFiniteSet(DOMAIN g.edges), NEW n, NEW ps, ps = parents(g, n, "CONTAINS")
  PROVE  /\ Len(ps) \in Nat /\ DOMAIN ps = 1..Len(ps)
         /\ \A k \in 1..Len(ps) : Contains1(g, ps[k], n)
         /\ \A x : Contains1(g, x, n) => \E k \in 1..Len(ps) : ps[k] = x
         /\ ps = << >> <=> Len(ps) = 0
<1> DEFINE I == {i \in Positions(g.edges) : g.edges[i].type = "CONTAINS" /\ g.edges[i].target = n}
           at == InOrder(I)
           c == Cardinality(I)
<1>1. I \subseteq Nat /\ IsFiniteSet(I)
  <2>1. I \subseteq DOMAIN g.edges
    BY DEF Positions
  <2>2. IsFiniteSet(I)
    BY <2>1, FS_Subset
  <2> QED
    BY <2>2 DEF Positions
<1>2. ps = [k \in DOMAIN at |-> g.edges[at[k]].source]
  BY DEF parents
<1>3. /\ c \in Nat /\ at \in [1..c -> I]
      /\ \A i \in I : \E k \in 1..c : at[k] = i
  <2> HIDE DEF I
  <2> QED
    BY <1>1, InOrderLists
<1> HIDE DEF at, c
<1>4. ps = [k \in 1..c |-> g.edges[at[k]].source] /\ Len(ps) = c /\ DOMAIN ps = 1..c
  BY <1>2, <1>3
<1>5. ASSUME NEW k \in 1..c PROVE Contains1(g, ps[k], n)
  <2>1. at[k] \in I /\ ps[k] = g.edges[at[k]].source
    BY <1>3, <1>4
  <2> QED
    BY <2>1 DEF Contains1
<1>6. ASSUME NEW x, Contains1(g, x, n) PROVE \E k \in 1..c : ps[k] = x
  <2>1. PICK i \in I : g.edges[i].source = x
    BY <1>6 DEF Contains1
  <2>2. PICK k \in 1..c : at[k] = i
    BY <1>3, <2>1
  <2> QED
    BY <1>4, <2>1, <2>2
<1>7. ps = << >> <=> c = 0
  BY <1>3, <1>4
<1> QED
  BY <1>3, <1>4, <1>5, <1>6, <1>7

\* The first parent is a direct container, the only one where there is one.
LEMMA FirstParent ==
  ASSUME NEW g, IsFiniteSet(DOMAIN g.edges), NEW n, parents(g, n, "CONTAINS") # << >>
  PROVE  /\ Contains1(g, Head(parents(g, n, "CONTAINS")), n)
         /\ Len(parents(g, n, "CONTAINS")) <= 1 =>
              \A x : Contains1(g, x, n) => x = Head(parents(g, n, "CONTAINS"))
<1> DEFINE ps == parents(g, n, "CONTAINS")
<1> HIDE DEF ps
<1>1. /\ Len(ps) \in Nat /\ DOMAIN ps = 1..Len(ps)
      /\ \A k \in 1..Len(ps) : Contains1(g, ps[k], n)
      /\ \A x : Contains1(g, x, n) => \E k \in 1..Len(ps) : ps[k] = x
      /\ ps = << >> <=> Len(ps) = 0
  BY ParentsList DEF ps
<1>2. ps # << >>
  BY DEF ps
<1>3. 1 \in 1..Len(ps) /\ Head(ps) = ps[1]
  BY <1>1, <1>2
<1>4. Len(ps) <= 1 => 1..Len(ps) = {1}
  BY <1>1, <1>3
<1> QED
  BY <1>1, <1>3, <1>4 DEF ps

\* S has with a node what contains it.
ClosedUp(g, S) == \A n \in S : \A x : Contains1(g, x, n) => x \in S

\* Snapshots are finite.
Finite(g) == IsFiniteSet(DOMAIN g.nodes) /\ IsFiniteSet(DOMAIN g.edges)

LEMMA IdsFinite ==
  ASSUME NEW g, Finite(g)
  PROVE  IsFiniteSet(Ids(g))
<1> DEFINE D == DOMAIN g.edges
           A == {g.edges[i].source : i \in D}
           B == {g.edges[i].target : i \in D}
           a == [i \in D |-> g.edges[i].source]
           b == [i \in D |-> g.edges[i].target]
<1>1. IsFiniteSet(A) /\ IsFiniteSet(B)
  <2>1. a \in Surjection(D, A) /\ b \in Surjection(D, B)
    BY DEF Surjection
  <2> HIDE DEF A, B, a, b
  <2> QED
    BY <2>1, FS_Surjection DEF Finite
<1>2. IsFiniteSet(DOMAIN g.nodes \cup (A \cup B))
  BY <1>1, FS_Union DEF Finite
<1>3. Ids(g) \subseteq DOMAIN g.nodes \cup (A \cup B)
  BY DEF Ids, EdgeSet, Positions
<1> QED
  BY <1>2, <1>3, FS_Subset

\* Containers is the least set that holds the direct containers and is closed.
LEMMA ContainersIs ==
  ASSUME NEW g, Finite(g), NEW n
  PROVE  /\ Containers(g, n) \subseteq Ids(g)
         /\ \A x : Contains1(g, x, n) => x \in Containers(g, n)
         /\ ClosedUp(g, Containers(g, n))
         /\ \A S : ClosedUp(g, S) /\ Over(g, {n}) \subseteq S => Containers(g, n) \subseteq S
         /\ \A S : ClosedUp(g, S) /\ n \in S => Containers(g, n) \subseteq S
<1> DEFINE N == Cardinality(Ids(g))
           U == SUBSET Ids(g)
           x0 == Over(g, {n})
           next(S) == S \cup Over(g, S)
           Is(f) == f = [k \in 0..N |-> IF k = 0 THEN x0 ELSE next(f[k - 1])]
           G == [S \in U |-> next(S)]
<1>1. IsFiniteSet(Ids(g)) /\ N \in Nat
  BY IdsFinite, FS_CardinalityType
<1>2. \A S : Over(g, S) \in U
  BY DEF Over, Ids
<1>3. x0 \in U /\ G \in [U -> U]
  BY <1>2
<1>4. PICK f \in [0..N -> U] : Iterates(f, G, x0, N)
  <2> HIDE DEF G, U, N, x0
  <2> QED
    BY <1>1, <1>3, IterExists
<1>5. Is(f)
  <2>1. ASSUME NEW k \in 1..N PROVE f[k] = next(f[k - 1])
    <3>1. k - 1 \in 0..N
      BY <1>1
    <3>2. f[k - 1] \in U /\ f[k] = G[f[k - 1]]
      BY <1>4, <3>1 DEF Iterates
    <3> HIDE DEF U, next
    <3> QED
      BY <3>2
  <2> HIDE DEF next, U, x0
  <2>2. \A k \in 0..N : f[k] = IF k = 0 THEN x0 ELSE next(f[k - 1])
    BY <1>1, <1>4, <2>1 DEF Iterates
  <2> HIDE DEF N
  <2>3. f = [k \in 0..N |-> f[k]]
    BY <1>4
  <2> QED
    BY <2>2, <2>3
<1> DEFINE B == CHOOSE h : Is(h)
<1>6. Containers(g, n) = B[N]
  BY DEF Containers
<1>7. Is(B)
  <2> HIDE DEF Is
  <2> QED
    BY <1>5
<1> HIDE DEF B
<1>8. B[0] = x0 /\ \A k \in 1..N : B[k] = next(B[k - 1])
  <2> HIDE DEF next, x0, N
  <2>1. B = [k \in 0..N |-> IF k = 0 THEN x0 ELSE next(B[k - 1])]
    BY <1>7
  <2>2. \A k \in 0..N : B[k] = IF k = 0 THEN x0 ELSE next(B[k - 1])
    BY <2>1, Zenon
  <2>3. 0 \in 0..N /\ \A k \in 1..N : k \in 0..N /\ k # 0
    BY <1>1
  <2> QED
    BY <2>2, <2>3
<1>9. ASSUME NEW S, Over(g, S) \subseteq S PROVE ClosedUp(g, S)
  BY <1>9, OverIs DEF ClosedUp
<1>10. ASSUME NEW S, ClosedUp(g, S) PROVE Over(g, S) \subseteq S
  BY <1>10, OverIs DEF ClosedUp
<1> DEFINE Good(k) ==
      /\ B[k] \in U
      /\ x0 \subseteq B[k]
      /\ \A S : ClosedUp(g, S) /\ x0 \subseteq S => B[k] \subseteq S
      /\ Over(g, B[k]) \subseteq B[k] \/ Cardinality(B[k]) >= k + 1
<1>11. Good(0)
  <2>1. \A S : ClosedUp(g, S) /\ x0 \subseteq S => B[0] \subseteq S
    BY <1>8
  <2>2. Over(g, B[0]) \subseteq B[0] \/ Cardinality(B[0]) >= 0 + 1
    <3>1. IsFiniteSet(B[0])
      BY <1>1, <1>3, <1>8, FS_Subset
    <3>2. CASE B[0] = {}
      BY <3>2 DEF Over
    <3>3. CASE B[0] # {}
      <4>1. Cardinality(B[0]) \in Nat /\ Cardinality(B[0]) # 0
        BY <3>1, <3>3, FS_CardinalityType, FS_EmptySet
      <4> QED
        BY <4>1
    <3> QED
      BY <3>2, <3>3
  <2>3. B[0] \in U /\ x0 \subseteq B[0]
    BY <1>3, <1>8
  <2> QED
    BY <2>1, <2>2, <2>3
<1>12. ASSUME NEW k \in 1..N, Good(k - 1) PROVE Good(k)
  <2> DEFINE A == B[k - 1]
             C == B[k]
  <2>1. C = A \cup Over(g, A)
    BY <1>8
  <2>2. /\ A \in U /\ x0 \subseteq A
        /\ \A S : ClosedUp(g, S) /\ x0 \subseteq S => A \subseteq S
        /\ Over(g, A) \subseteq A \/ Cardinality(A) >= (k - 1) + 1
    BY <1>12
  <2> HIDE DEF A, C, x0
  <2>3. C \in U /\ x0 \subseteq C
    BY <1>2, <2>1, <2>2
  <2>4. ASSUME NEW S, ClosedUp(g, S), x0 \subseteq S PROVE C \subseteq S
    <3>1. A \subseteq S
      BY <2>2, <2>4
    <3>2. Over(g, A) \subseteq S
      BY <2>4, <3>1, OverIs DEF ClosedUp
    <3> QED
      BY <2>1, <3>1, <3>2
  <2>5. Over(g, C) \subseteq C \/ Cardinality(C) >= k + 1
    <3>1. CASE Over(g, A) \subseteq A
      <4>1. C = A
        BY <2>1, <3>1
      <4> QED
        BY <3>1, <4>1
    <3>2. CASE ~(Over(g, A) \subseteq A)
      <4>1. IsFiniteSet(C) /\ A \subseteq C /\ A # C
        <5>1. IsFiniteSet(C)
          BY <1>1, <2>3, FS_Subset
        <5> QED
          BY <2>1, <3>2, <5>1
      <4>2. Cardinality(A) <= Cardinality(C) /\ Cardinality(A) # Cardinality(C)
        BY <4>1, FS_Subset
      <4>3. Cardinality(A) \in Nat /\ Cardinality(C) \in Nat
        BY <4>1, FS_Subset, FS_CardinalityType
      <4>4. Cardinality(A) >= (k - 1) + 1
        BY <2>2, <3>2
      <4> QED
        BY <4>2, <4>3, <4>4
    <3> QED
      BY <3>1, <3>2
  <2> QED
    BY <2>3, <2>4, <2>5 DEF A, C
<1>13. Good(N)
  <2> DEFINE Bad == {k \in 0..N : ~Good(k)}
  <2> HIDE DEF Good, N
  <2>1. Bad = {}
    <3> SUFFICES ASSUME Bad # {} PROVE FALSE
      OBVIOUS
    <3>1. PICK k \in Bad : \A j \in Bad : k <= j
      <4>1. Bad \subseteq Nat
        OBVIOUS
      <4> HIDE DEF Bad
      <4> QED
        BY <4>1, LeastExists
    <3>2. k # 0
      BY <1>11, <3>1
    <3>3. k \in 1..N /\ k - 1 \in 0..N /\ ~(k <= k - 1)
      BY <1>1, <3>1, <3>2
    <3>4. Good(k - 1)
      BY <3>1, <3>3
    <3> QED
      BY <1>12, <3>1, <3>3, <3>4
  <2>2. N \in 0..N
    BY <1>1
  <2> QED
    BY <2>1, <2>2
<1> DEFINE C == Containers(g, n)
<1>14. /\ C \in U /\ x0 \subseteq C
       /\ \A S : ClosedUp(g, S) /\ x0 \subseteq S => C \subseteq S
       /\ Over(g, C) \subseteq C \/ Cardinality(C) >= N + 1
  BY <1>6, <1>13
<1> HIDE DEF C, N
<1>15. Cardinality(C) <= N /\ Cardinality(C) \in Nat
  BY <1>1, <1>14, FS_Subset, FS_CardinalityType DEF N
<1>16. Over(g, C) \subseteq C
  BY <1>1, <1>14, <1>15
<1>17. \A x : Contains1(g, x, n) => x \in C
  BY <1>14, OverIs
<1>18. \A S : ClosedUp(g, S) /\ n \in S => x0 \subseteq S
  BY OverIs DEF ClosedUp
<1> QED
  BY <1>9, <1>14, <1>16, <1>17, <1>18 DEF C

-----------------------------------------------------------------------------
(* root_ancestor. The walk is at c and has seen X.                         *)

Up(g, n) == Head(parents(g, n, "CONTAINS"))
HasUp(g, n) == parents(g, n, "CONTAINS") # << >>

IsRoot(g, t, n) == n \in DOMAIN g.nodes /\ g.nodes[n].type = t

GoesOn(g, t, c, X) ==
  /\ c \in DOMAIN g.nodes \ {kNullNodeId}
  /\ ~IsRoot(g, t, c)
  /\ c \notin X
  /\ HasUp(g, c)

\* S has with a node the one the walk goes to next.
WalkClosed(g, t, S) ==
  \A x \in S : (/\ x \in DOMAIN g.nodes \ {kNullNodeId}
               /\ ~IsRoot(g, t, x)
               /\ HasUp(g, x)) => Up(g, x) \in S

\* What the walk from id knows.
Walked(g, t, id, c, X) ==
  /\ X \subseteq DOMAIN g.nodes
  /\ \A x \in X : ~IsRoot(g, t, x) /\ Up(g, x) \in X \cup {c}
  /\ id \in X \cup {c}
  /\ \A S : WalkClosed(g, t, S) /\ id \in S => X \cup {c} \subseteq S

\* Before the first step.
LEMMA WalkBegins ==
  ASSUME NEW g, NEW t, NEW id
  PROVE  Walked(g, t, id, id, {})
  BY DEF Walked

\* One step.
LEMMA WalkGoesOn ==
  ASSUME NEW g, NEW t, NEW id, NEW c, NEW X, Walked(g, t, id, c, X), GoesOn(g, t, c, X)
  PROVE  Walked(g, t, id, Up(g, c), X \cup {c})
<1>1. ASSUME NEW S, WalkClosed(g, t, S), id \in S PROVE (X \cup {c}) \cup {Up(g, c)} \subseteq S
  <2>1. X \cup {c} \subseteq S
    BY <1>1 DEF Walked
  <2>2. Up(g, c) \in S
    BY <1>1, <2>1 DEF WalkClosed, GoesOn
  <2> QED
    BY <2>1, <2>2
<1> QED
  BY <1>1 DEF Walked, GoesOn

\* The walk ends, at the answer.
LEMMA WalkEnds ==
  ASSUME NEW g, Finite(g), NEW id, NEW t
  PROVE  \E c, X : /\ Walked(g, t, id, c, X)
                  /\ ~GoesOn(g, t, c, X)
                  /\ root_ancestor(g, id, t) = IF IsRoot(g, t, c) THEN c ELSE kNullNodeId
<1> DEFINE N == Cardinality(DOMAIN g.nodes) + 1
           V == Ids(g) \cup {id}
           U == [cur : V, seen : SUBSET V]
           x0 == [cur |-> id, seen |-> {}]
           next(at) == IF GoesOn(g, t, at.cur, at.seen)
                       THEN [cur |-> Up(g, at.cur), seen |-> at.seen \cup {at.cur}]
                       ELSE at
           Is(f) == f = [k \in 0..N |-> IF k = 0 THEN x0 ELSE next(f[k - 1])]
           G == [at \in U |-> next(at)]
<1>1. IsFiniteSet(DOMAIN g.nodes) /\ N \in Nat
  BY FS_CardinalityType DEF Finite
<1>2. x0 \in U
  OBVIOUS
<1>3. ASSUME NEW at \in U PROVE next(at) \in U
  <2>1. CASE GoesOn(g, t, at.cur, at.seen)
    <3>1. Contains1(g, Up(g, at.cur), at.cur)
      BY <2>1, FirstParent DEF Finite, GoesOn, HasUp, Up
    <3>2. Up(g, at.cur) \in V
      BY <3>1 DEF Contains1, Ids, EdgeSet
    <3> HIDE DEF V
    <3> QED
      BY <2>1, <3>2
  <2>2. CASE ~GoesOn(g, t, at.cur, at.seen)
    BY <2>2
  <2> QED
    BY <2>1, <2>2
<1>4. G \in [U -> U]
  <2> HIDE DEF U, next
  <2> QED
    BY <1>3
<1>5. PICK f \in [0..N -> U] : Iterates(f, G, x0, N)
  <2> HIDE DEF G, U, N, x0
  <2> QED
    BY <1>1, <1>2, <1>4, IterExists
<1>6. Is(f)
  <2>1. ASSUME NEW k \in 1..N PROVE f[k] = next(f[k - 1])
    <3>1. k - 1 \in 0..N
      BY <1>1
    <3>2. f[k - 1] \in U /\ f[k] = G[f[k - 1]]
      BY <1>5, <3>1 DEF Iterates
    <3> HIDE DEF U, next
    <3> QED
      BY <3>2
  <2> HIDE DEF next, U, x0
  <2>2. \A k \in 0..N : f[k] = IF k = 0 THEN x0 ELSE next(f[k - 1])
    BY <1>1, <1>5, <2>1 DEF Iterates
  <2> HIDE DEF N
  <2>3. f = [k \in 0..N |-> f[k]]
    BY <1>5
  <2> QED
    BY <2>2, <2>3
<1> DEFINE B == CHOOSE h : Is(h)
<1>7. root_ancestor(g, id, t) = IF IsRoot(g, t, B[N].cur) THEN B[N].cur ELSE kNullNodeId
  BY DEF root_ancestor, IsRoot, GoesOn, HasUp, Up
<1>8. Is(B)
  <2> HIDE DEF Is
  <2> QED
    BY <1>6
<1> HIDE DEF B
<1>9. B[0] = x0 /\ \A k \in 1..N : B[k] = next(B[k - 1])
  <2> HIDE DEF next, x0, N
  <2>1. B = [k \in 0..N |-> IF k = 0 THEN x0 ELSE next(B[k - 1])]
    BY <1>8
  <2>2. \A k \in 0..N : B[k] = IF k = 0 THEN x0 ELSE next(B[k - 1])
    BY <2>1, Zenon
  <2>3. 0 \in 0..N /\ \A k \in 1..N : k \in 0..N /\ k # 0
    BY <1>1
  <2> QED
    BY <2>2, <2>3
<1> DEFINE Good(k) ==
      /\ Walked(g, t, id, B[k].cur, B[k].seen)
      /\ ~GoesOn(g, t, B[k].cur, B[k].seen) \/ Cardinality(B[k].seen) = k
<1>10. Good(0)
  <2>1. B[0].cur = id /\ B[0].seen = {}
    BY <1>9
  <2>2. Cardinality({}) = 0
    BY FS_EmptySet
  <2> QED
    BY <2>1, <2>2, WalkBegins
<1>11. ASSUME NEW k \in 1..N, Good(k - 1) PROVE Good(k)
  <2> DEFINE A == B[k - 1]
  <2>1. B[k] = next(A)
    BY <1>9
  <2>2. /\ Walked(g, t, id, A.cur, A.seen)
        /\ ~GoesOn(g, t, A.cur, A.seen) \/ Cardinality(A.seen) = k - 1
    BY <1>11
  <2> HIDE DEF A
  <2>3. CASE ~GoesOn(g, t, A.cur, A.seen)
    <3>1. B[k] = A
      BY <2>1, <2>3
    <3> QED
      BY <2>2, <2>3, <3>1
  <2>4. CASE GoesOn(g, t, A.cur, A.seen)
    <3>1. B[k].cur = Up(g, A.cur) /\ B[k].seen = A.seen \cup {A.cur}
      BY <2>1, <2>4
    <3>2. Walked(g, t, id, Up(g, A.cur), A.seen \cup {A.cur})
      BY <2>2, <2>4, WalkGoesOn
    <3>3. A.seen \subseteq DOMAIN g.nodes /\ A.cur \notin A.seen
      BY <2>2, <2>4 DEF Walked, GoesOn
    <3>4. IsFiniteSet(A.seen)
      BY <1>1, <3>3, FS_Subset
    <3>5. Cardinality(A.seen \cup {A.cur}) = Cardinality(A.seen) + 1
      BY <3>3, <3>4, FS_AddElement
    <3>6. Cardinality(A.seen \cup {A.cur}) = k
      BY <2>2, <2>4, <3>5
    <3> QED
      BY <3>1, <3>2, <3>6
  <2> QED
    BY <2>3, <2>4
<1>12. Good(N)
  <2> DEFINE Bad == {k \in 0..N : ~Good(k)}
  <2> HIDE DEF Good, N
  <2>1. Bad = {}
    <3> SUFFICES ASSUME Bad # {} PROVE FALSE
      OBVIOUS
    <3>1. PICK k \in Bad : \A j \in Bad : k <= j
      <4>1. Bad \subseteq Nat
        OBVIOUS
      <4> HIDE DEF Bad
      <4> QED
        BY <4>1, LeastExists
    <3>2. k # 0
      BY <1>10, <3>1
    <3>3. k \in 1..N /\ k - 1 \in 0..N /\ ~(k <= k - 1)
      BY <1>1, <3>1, <3>2
    <3>4. Good(k - 1)
      BY <3>1, <3>3
    <3> QED
      BY <1>11, <3>1, <3>3, <3>4
  <2>2. N \in 0..N
    BY <1>1
  <2> QED
    BY <2>1, <2>2
<1> DEFINE c == B[N].cur
           X == B[N].seen
<1>13. Walked(g, t, id, c, X) /\ (~GoesOn(g, t, c, X) \/ Cardinality(X) = N)
  BY <1>12
<1>14. Cardinality(X) <= Cardinality(DOMAIN g.nodes) /\ Cardinality(DOMAIN g.nodes) \in Nat
  <2>1. X \subseteq DOMAIN g.nodes
    BY <1>13 DEF Walked
  <2> HIDE DEF X
  <2> QED
    BY <1>1, <2>1, FS_Subset, FS_CardinalityType
<1>15. Cardinality(X) # N
  <2> HIDE DEF X
  <2> QED
    BY <1>14
<1> HIDE DEF c, X, N
<1>16. root_ancestor(g, id, t) = IF IsRoot(g, t, c) THEN c ELSE kNullNodeId
  BY <1>7 DEF c
<1> QED
  BY <1>13, <1>15, <1>16

\* Y holds what the walk from id visits, and r is the answer: the only node of
\* the type in Y.
Visits(g, t, id, r, Y) ==
  /\ WalkClosed(g, t, Y)
  /\ id \in Y
  /\ \A S : WalkClosed(g, t, S) /\ id \in S => Y \subseteq S
  /\ \A x \in Y : IsRoot(g, t, x) => x = r
  /\ r = kNullNodeId \/ (r \in Y /\ IsRoot(g, t, r))

LEMMA RootIs ==
  ASSUME NEW g, Finite(g), NEW id, NEW t
  PROVE  \E Y : Visits(g, t, id, root_ancestor(g, id, t), Y)
<1>1. PICK c, X : /\ Walked(g, t, id, c, X)
                  /\ ~GoesOn(g, t, c, X)
                  /\ root_ancestor(g, id, t) = IF IsRoot(g, t, c) THEN c ELSE kNullNodeId
  BY WalkEnds
<1> DEFINE Y == X \cup {c}
           r == root_ancestor(g, id, t)
<1>2. WalkClosed(g, t, Y)
  BY <1>1 DEF Walked, GoesOn, WalkClosed
<1>3. /\ id \in Y
      /\ \A S : WalkClosed(g, t, S) /\ id \in S => Y \subseteq S
      /\ \A x \in Y : IsRoot(g, t, x) => x = r
  BY <1>1 DEF Walked
<1>4. r = kNullNodeId \/ (r \in Y /\ IsRoot(g, t, r))
  BY <1>1
<1> HIDE DEF Y, r
<1>5. Visits(g, t, id, r, Y)
  BY <1>2, <1>3, <1>4 DEF Visits
<1> QED
  BY <1>5 DEF r

\* Going up from a node that is not of the type changes nothing.
LEMMA UpOne ==
  ASSUME NEW g, Finite(g), NEW t, NEW a \in DOMAIN g.nodes \ {kNullNodeId},
         ~IsRoot(g, t, a), HasUp(g, a)
  PROVE  root_ancestor(g, a, t) = root_ancestor(g, Up(g, a), t)
<1> DEFINE x == Up(g, a)
           ra == root_ancestor(g, a, t)
           rx == root_ancestor(g, x, t)
<1>1. PICK A : Visits(g, t, a, ra, A)
  BY RootIs
<1>2. PICK B : Visits(g, t, x, rx, B)
  BY RootIs
<1>3. WalkClosed(g, t, B \cup {a})
  BY <1>2 DEF WalkClosed, Visits
<1>4. x \in A
  BY <1>1 DEF WalkClosed, Visits
<1> HIDE DEF x, ra, rx
<1>5. A \subseteq B \cup {a} /\ B \subseteq A
  BY <1>1, <1>2, <1>3, <1>4 DEF Visits
<1>6. ra = rx
  BY <1>1, <1>2, <1>5 DEF Visits
<1> QED
  BY <1>6 DEF ra, rx, x

\* An answer lies in every closed set that holds the start.
LEMMA RootInside ==
  ASSUME NEW g, Finite(g), NEW id, NEW t, NEW S, WalkClosed(g, t, S), id \in S,
         NEW r, r = root_ancestor(g, id, t), r # kNullNodeId
  PROVE  r \in S /\ IsRoot(g, t, r)
<1>1. PICK Y : Visits(g, t, id, r, Y)
  BY RootIs
<1> QED
  BY <1>1 DEF Visits

LEMMA ClosedUpWalk ==
  ASSUME NEW g, Finite(g), NEW t, NEW S, ClosedUp(g, S)
  PROVE  WalkClosed(g, t, S)
<1> SUFFICES ASSUME NEW x \in S, HasUp(g, x) PROVE Up(g, x) \in S
  BY DEF WalkClosed
<1>1. Contains1(g, Up(g, x), x)
  BY FirstParent DEF Finite, HasUp, Up
<1> QED
  BY <1>1 DEF ClosedUp

\* Where nothing dangles, both ends of an edge are nodes.
LEMMA NothingDangles ==
  ASSUME NEW g, DanglingEnds(g) = {}
  PROVE  \A i \in Positions(g.edges) :
           g.edges[i].source \in DOMAIN g.nodes /\ g.edges[i].target \in DOMAIN g.nodes
<1> SUFFICES ASSUME NEW i \in Positions(g.edges)
    PROVE  g.edges[i].source \in DOMAIN g.nodes /\ g.edges[i].target \in DOMAIN g.nodes
  OBVIOUS
<1> DEFINE a == <<i, "source">>
           b == <<i, "target">>
<1>1. /\ a \in Positions(g.edges) \X {"source", "target"} /\ a[1] = i /\ a[2] = "source"
      /\ b \in Positions(g.edges) \X {"source", "target"} /\ b[1] = i /\ b[2] = "target"
  OBVIOUS
<1> HIDE DEF a, b
<1>2. a \notin DanglingEnds(g) /\ b \notin DanglingEnds(g)
  OBVIOUS
<1> QED
  BY <1>1, <1>2 DEF DanglingEnds

\* With one container each, the walk goes to it.
LEMMA OnlyContainer ==
  ASSUME NEW g, Finite(g), SingleParents(g), NEW x, NEW n, Contains1(g, x, n)
  PROVE  /\ x \in DOMAIN g.nodes \ {kNullNodeId}
         /\ n \in DOMAIN g.nodes \ {kNullNodeId}
         /\ HasUp(g, n) /\ Up(g, n) = x
<1>1. x \in DOMAIN g.nodes /\ n \in DOMAIN g.nodes
  BY NothingDangles DEF SingleParents, Contains1
<1>2. Len(parents(g, n, "CONTAINS")) <= 1
  BY <1>1 DEF SingleParents, Ids
<1>3. HasUp(g, n)
  <2> DEFINE ps == parents(g, n, "CONTAINS")
  <2>0. IsFiniteSet(DOMAIN g.edges) /\ ps = parents(g, n, "CONTAINS")
    BY DEF Finite
  <2> HIDE DEF ps
  <2>1. /\ Len(ps) \in Nat /\ DOMAIN ps = 1..Len(ps)
        /\ \A k \in 1..Len(ps) : Contains1(g, ps[k], n)
        /\ \A y : Contains1(g, y, n) => \E k \in 1..Len(ps) : ps[k] = y
        /\ ps = << >> <=> Len(ps) = 0
    BY <2>0, ParentsList
  <2>2. PICK k \in 1..Len(ps) : ps[k] = x
    BY <2>1
  <2>3. ps # << >>
    BY <2>1, <2>2
  <2> QED
    BY <2>3 DEF HasUp, ps
<1>4. x = Up(g, n)
  BY <1>2, <1>3, FirstParent DEF Finite, HasUp, Up
<1> QED
  BY <1>1, <1>3, <1>4 DEF SingleParents

\* What RootAncestorExact says of one node.
LEMMA RootAncestorAt ==
  ASSUME NEW g, Finite(g), NEW n \in DOMAIN g.nodes, NEW t, NEW r, r = root_ancestor(g, n, t),
         NEW fits, fits = {m \in DOMAIN g.nodes : IsRoot(g, t, m) /\ m \in Containers(g, n) \cup {n}}
  PROVE  /\ r \in fits \cup {kNullNodeId}
         /\ SingleParents(g) => /\ r = kNullNodeId <=> fits = {}
                               /\ \A m \in fits \ {r} : m \in Containers(g, r)
<1>1. PICK Y : Visits(g, t, n, r, Y)
  BY RootIs
<1>2. ClosedUp(g, Containers(g, n) \cup {n})
  BY ContainersIs DEF ClosedUp
<1>3. r \in fits \cup {kNullNodeId}
  <2>1. CASE r # kNullNodeId
    <3>1. r \in Containers(g, n) \cup {n} /\ IsRoot(g, t, r)
      BY <1>2, <2>1, ClosedUpWalk, RootInside
    <3> QED
      BY <3>1 DEF IsRoot
  <2> QED
    BY <2>1
<1>4. ASSUME SingleParents(g) PROVE r = kNullNodeId <=> fits = {}
  <2>1. ASSUME r = kNullNodeId PROVE fits = {}
    <3>1. \A x \in Y : ~IsRoot(g, t, x)
      BY <1>1, <1>4, <2>1 DEF Visits, IsRoot, SingleParents
    <3>2. ClosedUp(g, Y)
      <4> SUFFICES ASSUME NEW x \in Y, NEW y, Contains1(g, y, x) PROVE y \in Y
        BY DEF ClosedUp
      <4>1. x \in DOMAIN g.nodes \ {kNullNodeId} /\ HasUp(g, x) /\ Up(g, x) = y
        BY <1>4, OnlyContainer
      <4> QED
        BY <1>1, <3>1, <4>1 DEF Visits, WalkClosed
    <3>3. n \in Y
      BY <1>1 DEF Visits
    <3>4. Containers(g, n) \subseteq Y
      BY <3>2, <3>3, ContainersIs
    <3> QED
      BY <3>1, <3>3, <3>4
  <2>2. ASSUME r # kNullNodeId PROVE fits # {}
    BY <1>3, <2>2
  <2> QED
    BY <2>1, <2>2
<1>5. ASSUME SingleParents(g), NEW m \in fits \ {r} PROVE m \in Containers(g, r)
  <2> DEFINE S == Y \cup Containers(g, r)
  <2>1. IsRoot(g, t, m) /\ m \in Containers(g, n) \cup {n}
    BY <1>5
  <2>2. ClosedUp(g, S)
    <3> SUFFICES ASSUME NEW x \in S, NEW y, Contains1(g, y, x) PROVE y \in S
      BY DEF ClosedUp
    <3>1. CASE x \in Containers(g, r)
      BY <3>1, ContainersIs DEF ClosedUp
    <3>2. CASE x \in Y /\ IsRoot(g, t, x)
      <4>1. x = r
        BY <1>1, <3>2 DEF Visits
      <4> QED
        BY <4>1, ContainersIs
    <3>3. CASE x \in Y /\ ~IsRoot(g, t, x)
      <4>1. x \in DOMAIN g.nodes \ {kNullNodeId} /\ HasUp(g, x) /\ Up(g, x) = y
        BY <1>5, OnlyContainer
      <4> QED
        BY <1>1, <3>3, <4>1 DEF Visits, WalkClosed
    <3> QED
      BY <3>1, <3>2, <3>3
  <2>3. n \in Y
    BY <1>1 DEF Visits
  <2>4. Containers(g, n) \subseteq S
    <3>1. n \in S
      BY <2>3
    <3> HIDE DEF S
    <3> QED
      BY <2>2, <3>1, ContainersIs
  <2>5. m \notin Y
    BY <1>1, <1>5, <2>1 DEF Visits
  <2> QED
    BY <2>1, <2>3, <2>4, <2>5
<1> QED
  BY <1>3, <1>4, <1>5

-----------------------------------------------------------------------------
(* The traversals along containment.                                       *)

\* Targets lists the targets of the edges at I.
LEMMA TargetsList ==
  ASSUME NEW g, NEW I, I \subseteq Positions(g.edges), IsFiniteSet(I), NEW ts, ts = Targets(g, I),
         NEW V, \A i \in I : g.edges[i].target \in V
  PROVE  ts \in Seq(V) /\ ToSet(ts) = {g.edges[i].target : i \in I}
<1> DEFINE at == InOrder(I)
           c == Cardinality(I)
<1>1. /\ c \in Nat /\ at \in [1..c -> I]
      /\ \A i \in I : \E k \in 1..c : at[k] = i
  BY InOrderLists DEF Positions
<1>2. ts = [k \in DOMAIN at |-> g.edges[at[k]].target]
  BY DEF Targets
<1> HIDE DEF at, c
<1>3. ts = [k \in 1..c |-> g.edges[at[k]].target]
  BY <1>1, <1>2
<1>4. ts \in Seq(V) /\ DOMAIN ts = 1..c
  BY <1>1, <1>3
<1> QED
  BY <1>1, <1>3, <1>4 DEF ToSet

\* AppendNew keeps s and adds what is new of t, each once.
LEMMA AppendNewIs ==
  ASSUME NEW V, NEW s \in Seq(V), NEW t \in Seq(V), NEW a, a = AppendNew(s, t)
  PROVE  /\ a \in Seq(V)
         /\ Len(s) <= Len(a) /\ \A k \in 1..Len(s) : a[k] = s[k]
         /\ ToSet(a) = ToSet(s) \cup ToSet(t)
         /\ IsInjective(s) => IsInjective(a)
<1> DEFINE K == {k \in DOMAIN t : t[k] \notin ToSet(s) /\ \A j \in 1..(k - 1) : t[j] # t[k]}
           new == InOrder(K)
           c == Cardinality(K)
           r == [k \in 1..c |-> t[new[k]]]
<1>1. K \subseteq Nat /\ IsFiniteSet(K)
  <2>1. K \subseteq 1..Len(t) /\ Len(t) \in Nat
    OBVIOUS
  <2>2. IsFiniteSet(1..Len(t))
    BY <2>1, FS_Interval
  <2> HIDE DEF K
  <2>3. IsFiniteSet(K)
    BY <2>1, <2>2, FS_Subset
  <2> QED
    BY <2>1, <2>3
<1>2. /\ c \in Nat /\ new \in [1..c -> K]
      /\ \A i \in K : \E k \in 1..c : new[k] = i
      /\ \A k, l \in 1..c : new[k] = new[l] => k = l
  <2> HIDE DEF K
  <2> QED
    BY <1>1, InOrderLists
<1>3. a = s \o r
  <2>1. DOMAIN new = 1..c
    BY <1>2
  <2> QED
    BY <2>1 DEF AppendNew
<1> HIDE DEF c, new
<1>4. r \in Seq(V) /\ Len(r) = c /\ DOMAIN r = 1..c
  BY <1>2
<1>5. \A k \in 1..c : new[k] \in K /\ r[k] = t[new[k]] /\ r[k] \in ToSet(t) /\ r[k] \notin ToSet(s)
  BY <1>2 DEF ToSet
<1>6. ToSet(t) \subseteq ToSet(s) \cup ToSet(r)
  <2> SUFFICES ASSUME NEW x \in ToSet(t), x \notin ToSet(s) PROVE x \in ToSet(r)
    OBVIOUS
  <2> DEFINE At == {k \in DOMAIN t : t[k] = x}
  <2>1. At # {} /\ At \subseteq Nat
    BY DEF ToSet
  <2>2. PICK k \in At : \A j \in At : k <= j
    <3> HIDE DEF At
    <3> QED
      BY <2>1, LeastExists
  <2>3. k \in K
    <3>1. ASSUME NEW j \in 1..(k - 1) PROVE t[j] # t[k]
      <4>1. j \in DOMAIN t /\ ~(k <= j)
        BY <2>2
      <4> QED
        BY <2>2, <4>1
    <3> QED
      BY <2>2, <3>1
  <2>4. PICK l \in 1..c : new[l] = k
    BY <1>2, <2>3
  <2>5. r[l] = x
    BY <1>5, <2>2, <2>4
  <2> QED
    BY <1>4, <2>5 DEF ToSet
<1>7. \A k, l \in 1..c : r[k] = r[l] => k = l
  <2> SUFFICES ASSUME NEW k \in 1..c, NEW l \in 1..c, r[k] = r[l] PROVE new[k] = new[l]
    BY <1>2
  <2> DEFINE x == new[k]
             y == new[l]
  <2>1. x \in K /\ y \in K /\ t[x] = t[y]
    BY <1>5
  <2> HIDE DEF x, y
  <2>2. x \in Nat /\ y \in Nat /\ 1 <= x /\ 1 <= y
    BY <2>1
  <2>3. ~(x < y) /\ ~(y < x)
    BY <2>1, <2>2
  <2> QED
    BY <2>2, <2>3 DEF x, y
<1> HIDE DEF r
<1>8. /\ a \in Seq(V) /\ Len(a) = Len(s) + c /\ DOMAIN a = 1..(Len(s) + c)
      /\ \A k \in 1..Len(s) : a[k] = s[k]
      /\ \A k \in 1..c : a[Len(s) + k] = r[k]
  <2>1. Len(s) \in Nat
    OBVIOUS
  <2>2. a \in Seq(V) /\ Len(a) = Len(s) + c
    <3>1. (s \o r) \in Seq(V)
      BY <1>4
    <3>2. Len(s \o r) = Len(s) + Len(r)
      BY <1>4
    <3> QED
      BY <1>3, <1>4, <3>1, <3>2
  <2>3. DOMAIN a = 1..(Len(s) + c)
    BY <2>2
  <2>4. \A k \in 1..Len(s) : a[k] = s[k]
    BY <1>3, <1>4
  <2>5. ASSUME NEW k \in 1..c PROVE a[Len(s) + k] = r[k]
    <3>1. Len(s) + k \in 1..(Len(s) + Len(r)) /\ ~(Len(s) + k <= Len(s)) /\ (Len(s) + k) - Len(s) = k
      BY <1>2, <1>4, <2>1
    <3> QED
      BY <1>3, <1>4, <3>1
  <2> QED
    BY <2>2, <2>3, <2>4, <2>5
<1>9. ASSUME NEW k \in 1..(Len(s) + c)
      PROVE  k \in 1..Len(s) \/ (k - Len(s) \in 1..c /\ a[k] = r[k - Len(s)])
  <2>1. k - Len(s) \in 1..c => a[Len(s) + (k - Len(s))] = r[k - Len(s)] /\ Len(s) + (k - Len(s)) = k
    BY <1>2, <1>8
  <2> QED
    BY <1>2, <2>1
<1>10. ToSet(a) = ToSet(s) \cup ToSet(t)
  <2>1. ToSet(r) \subseteq ToSet(t) /\ DOMAIN s = 1..Len(s) /\ Len(s) \in Nat
    BY <1>4, <1>5 DEF ToSet
  <2>2. ToSet(a) \subseteq ToSet(s) \cup ToSet(r)
    <3> SUFFICES ASSUME NEW k \in 1..(Len(s) + c) PROVE a[k] \in ToSet(s) \cup ToSet(r)
      BY <1>8 DEF ToSet
    <3> QED
      BY <1>4, <1>8, <1>9, <2>1 DEF ToSet
  <2>3. ToSet(s) \subseteq ToSet(a)
    BY <1>2, <1>8, <2>1 DEF ToSet
  <2>4. ToSet(r) \subseteq ToSet(a)
    <3> SUFFICES ASSUME NEW k \in 1..c PROVE r[k] \in ToSet(a)
      BY <1>4 DEF ToSet
    <3>1. Len(s) + k \in 1..(Len(s) + c)
      BY <1>2, <2>1
    <3> QED
      BY <1>8, <3>1 DEF ToSet
  <2> QED
    BY <1>6, <2>1, <2>2, <2>3, <2>4
<1>11. ASSUME IsInjective(s) PROVE IsInjective(a)
  <2>1. \A k, l \in 1..Len(s) : s[k] = s[l] => k = l
    BY <1>11 DEF IsInjective
  <2>2. \A k \in 1..Len(s), l \in 1..c : s[k] # r[l]
    BY <1>5 DEF ToSet
  <2>3. ASSUME NEW k \in 1..(Len(s) + c), NEW l \in 1..(Len(s) + c), a[k] = a[l] PROVE k = l
    <3>1. CASE k \in 1..Len(s) /\ l \in 1..Len(s)
      BY <1>8, <2>1, <2>3, <3>1
    <3>2. CASE k \in 1..Len(s) /\ l \notin 1..Len(s)
      BY <1>8, <1>9, <2>2, <2>3, <3>2
    <3>3. CASE k \notin 1..Len(s) /\ l \in 1..Len(s)
      BY <1>8, <1>9, <2>2, <2>3, <3>3
    <3>4. CASE k \notin 1..Len(s) /\ l \notin 1..Len(s)
      <4>1. k - Len(s) = l - Len(s)
        BY <1>7, <1>9, <2>3, <3>4
      <4> QED
        BY <1>2, <4>1
    <3> QED
      BY <3>1, <3>2, <3>3, <3>4
  <2> QED
    BY <1>8, <2>3 DEF IsInjective
<1>12. Len(s) <= Len(a)
  BY <1>2, <1>8
<1> QED
  BY <1>8, <1>10, <1>11, <1>12

\* A sequence without repetitions is no longer than the set it draws from.
LEMMA InjectiveShort ==
  ASSUME NEW V, IsFiniteSet(V), NEW s \in Seq(V), IsInjective(s)
  PROVE  Len(s) <= Cardinality(V)
<1>1. Len(s) \in Nat /\ DOMAIN s = 1..Len(s) /\ s \in [1..Len(s) -> V]
  OBVIOUS
<1>2. s \in Injection(1..Len(s), V)
  BY <1>1 DEF Injection, IsInjective
<1>3. IsFiniteSet(1..Len(s)) /\ Cardinality(1..Len(s)) = Len(s)
  BY <1>1, FS_Interval
<1> QED
  BY <1>2, <1>3, FS_Injection

\* The node the k-th iteration of the loop takes from the queue.
Taken(id, out, k) == IF k = 1 THEN id ELSE out[k - 1]

\* out after k iterations: whatever was taken has all its neighbours in out.
Traversed(V, id, step, k, out) ==
  /\ out \in Seq(V)
  /\ IsInjective(out)
  /\ \A j \in 1..k : j <= Len(out) + 1 => ToSet(step[Taken(id, out, j)]) \subseteq ToSet(out)
  /\ \A S : (/\ ToSet(step[id]) \subseteq S
             /\ \A x \in S \cap V : ToSet(step[x]) \subseteq S) => ToSet(out) \subseteq S

Iteration(id, step, k, out) ==
  IF k > Len(out) + 1 THEN out ELSE AppendNew(out, step[Taken(id, out, k)])

LEMMA TakenIn ==
  ASSUME NEW V, NEW id \in V, NEW out \in Seq(V), NEW k \in Nat \ {0}, k <= Len(out) + 1
  PROVE  /\ Taken(id, out, k) \in V
         /\ \/ k = 1 /\ Taken(id, out, k) = id
            \/ k # 1 /\ Taken(id, out, k) \in ToSet(out)
<1>1. CASE k = 1
  BY <1>1 DEF Taken
<1>2. CASE k # 1
  <2>1. k - 1 \in 1..Len(out) /\ DOMAIN out = 1..Len(out)
    BY <1>2
  <2>2. out[k - 1] \in V /\ out[k - 1] \in ToSet(out)
    BY <2>1 DEF ToSet
  <2> QED
    BY <1>2, <2>2 DEF Taken
<1> QED
  BY <1>1, <1>2

LEMMA IterationIn ==
  ASSUME NEW V, NEW id \in V, NEW step \in [V -> Seq(V)], NEW out \in Seq(V), NEW k \in Nat \ {0}
  PROVE  Iteration(id, step, k, out) \in Seq(V)
<1>1. CASE k > Len(out) + 1
  BY <1>1 DEF Iteration
<1>2. CASE ~(k > Len(out) + 1)
  <2> DEFINE t == step[Taken(id, out, k)]
  <2>1. t \in Seq(V)
    <3>1. Len(out) \in Nat /\ k <= Len(out) + 1
      BY <1>2
    <3> QED
      BY <3>1, TakenIn
  <2> HIDE DEF t
  <2>2. AppendNew(out, t) \in Seq(V)
    BY <2>1, AppendNewIs
  <2> QED
    BY <1>2, <2>2 DEF Iteration, t
<1> QED
  BY <1>1, <1>2

\* One iteration.
LEMMA IterationTraverses ==
  ASSUME NEW V, NEW id \in V, NEW step \in [V -> Seq(V)], NEW out, NEW k \in Nat \ {0},
         Traversed(V, id, step, k - 1, out)
  PROVE  Traversed(V, id, step, k, Iteration(id, step, k, out))
<1>1. /\ out \in Seq(V) /\ IsInjective(out) /\ Len(out) \in Nat /\ DOMAIN out = 1..Len(out)
      /\ \A j \in 1..(k - 1) :
           j <= Len(out) + 1 => ToSet(step[Taken(id, out, j)]) \subseteq ToSet(out)
      /\ \A S : (/\ ToSet(step[id]) \subseteq S
                 /\ \A x \in S \cap V : ToSet(step[x]) \subseteq S) => ToSet(out) \subseteq S
  <2>1. out \in Seq(V)
    BY DEF Traversed
  <2>2. Len(out) \in Nat /\ DOMAIN out = 1..Len(out)
    BY <2>1
  <2> QED
    BY <2>2, Zenon DEF Traversed
<1>2. CASE k > Len(out) + 1
  <2>1. ASSUME NEW j \in 1..k, j <= Len(out) + 1
        PROVE  ToSet(step[Taken(id, out, j)]) \subseteq ToSet(out)
    <3>1. j \in 1..(k - 1)
      BY <1>1, <1>2, <2>1
    <3> QED
      BY <1>1, <2>1, <3>1
  <2>2. Iteration(id, step, k, out) = out
    BY <1>2 DEF Iteration
  <2> QED
    BY <1>1, <2>1, <2>2 DEF Traversed
<1>3. CASE k <= Len(out) + 1
  <2> DEFINE x == Taken(id, out, k)
             t == step[x]
             a == AppendNew(out, t)
  <2>1. Iteration(id, step, k, out) = a
    BY <1>1, <1>3 DEF Iteration
  <2>2. /\ x \in V
        /\ \/ k = 1 /\ x = id
           \/ k # 1 /\ x \in ToSet(out)
    BY <1>1, <1>3, TakenIn
  <2> HIDE DEF x
  <2>3. t \in Seq(V)
    BY <2>2
  <2> HIDE DEF t
  <2>4. /\ a \in Seq(V)
        /\ Len(out) <= Len(a) /\ \A j \in 1..Len(out) : a[j] = out[j]
        /\ ToSet(a) = ToSet(out) \cup ToSet(t)
        /\ IsInjective(out) => IsInjective(a)
    BY <1>1, <2>3, AppendNewIs
  <2> HIDE DEF a
  <2>5. ASSUME NEW j \in 1..k PROVE ToSet(step[Taken(id, a, j)]) \subseteq ToSet(a)
    <3>1. Taken(id, a, j) = Taken(id, out, j)
      <4>1. j # 1 => j - 1 \in 1..Len(out)
        BY <1>1, <1>3
      <4> QED
        BY <2>4, <4>1 DEF Taken
    <3>2. CASE j = k
      BY <2>4, <3>1, <3>2 DEF x, t
    <3>3. CASE j # k
      <4>1. j \in 1..(k - 1) /\ j <= Len(out) + 1
        BY <1>1, <1>3, <3>3
      <4> QED
        BY <1>1, <2>4, <3>1, <4>1
    <3> QED
      BY <3>2, <3>3
  <2>6. ASSUME NEW S, ToSet(step[id]) \subseteq S,
               \A y \in S \cap V : ToSet(step[y]) \subseteq S
        PROVE  ToSet(a) \subseteq S
    <3>1. ToSet(out) \subseteq S
      BY <1>1, <2>6
    <3>2. ToSet(t) \subseteq S
      BY <2>2, <2>6, <3>1 DEF t
    <3> QED
      BY <2>4, <3>1, <3>2
  <2>7. Traversed(V, id, step, k, a)
    BY <1>1, <2>4, <2>5, <2>6 DEF Traversed
  <2> QED
    BY <2>1, <2>7
<1> QED
  BY <1>1, <1>2, <1>3

\* out lists, each once, the least set that holds the neighbours of id and is
\* closed.
Least(V, id, step, out) ==
  /\ out \in Seq(V)
  /\ IsInjective(out)
  /\ ToSet(step[id]) \subseteq ToSet(out)
  /\ \A x \in ToSet(out) : ToSet(step[x]) \subseteq ToSet(out)
  /\ \A S : (/\ ToSet(step[id]) \subseteq S
             /\ \A x \in S \cap V : ToSet(step[x]) \subseteq S) => ToSet(out) \subseteq S

LEMMA ClosureIs ==
  ASSUME NEW V, IsFiniteSet(V), NEW id \in V, NEW step \in [V -> Seq(V)],
         NEW out, out = Closure(id, step)
  PROVE  Least(V, id, step, out)
<1> DEFINE N == Cardinality(V) + 1
           U == Seq(V)
           x0 == << >>
           next(k, o) == Iteration(id, step, k, o)
           Is(f) == f = [k \in 0..N |-> IF k = 0 THEN x0 ELSE next(k, f[k - 1])]
           G == [p \in Nat \X U |-> IF p[1] = 0 THEN p[2] ELSE next(p[1], p[2])]
<1>1. N \in Nat /\ Cardinality(V) \in Nat
  BY FS_CardinalityType
<1>2. x0 \in U
  OBVIOUS
<1>3. G \in [Nat \X U -> U]
  <2>1. \A k \in Nat \ {0}, o \in U : next(k, o) \in U
    BY IterationIn
  <2> HIDE DEF U, next
  <2> QED
    BY <2>1
<1>4. PICK f \in [0..N -> U] : Steps(f, G, x0, N)
  <2> HIDE DEF G, U, N, x0
  <2> QED
    BY <1>1, <1>2, <1>3, StepsExist
<1>5. Is(f)
  <2>1. ASSUME NEW k \in 1..N PROVE f[k] = next(k, f[k - 1])
    <3>1. k - 1 \in 0..N /\ k \in Nat /\ k # 0
      BY <1>1
    <3>2. f[k - 1] \in U /\ f[k] = G[<<k, f[k - 1]>>]
      BY <1>4, <3>1 DEF Steps
    <3> HIDE DEF U, next
    <3> QED
      BY <3>1, <3>2
  <2> HIDE DEF next, U, x0
  <2>2. \A k \in 0..N : f[k] = IF k = 0 THEN x0 ELSE next(k, f[k - 1])
    BY <1>1, <1>4, <2>1 DEF Steps
  <2> HIDE DEF N
  <2>3. f = [k \in 0..N |-> f[k]]
    BY <1>4
  <2> QED
    BY <2>2, <2>3
<1> DEFINE B == CHOOSE h : Is(h)
<1>6. out = B[N]
  <2>1. DOMAIN step = V
    OBVIOUS
  <2> QED
    BY <2>1 DEF Closure, Iteration, Taken
<1>7. Is(B)
  <2> HIDE DEF Is
  <2> QED
    BY <1>5
<1> HIDE DEF B
<1>8. B[0] = x0 /\ \A k \in 1..N : B[k] = next(k, B[k - 1])
  <2> HIDE DEF next, x0, N
  <2>1. B = [k \in 0..N |-> IF k = 0 THEN x0 ELSE next(k, B[k - 1])]
    BY <1>7
  <2>2. \A k \in 0..N : B[k] = IF k = 0 THEN x0 ELSE next(k, B[k - 1])
    BY <2>1, Zenon
  <2>3. 0 \in 0..N /\ \A k \in 1..N : k \in 0..N /\ k # 0
    BY <1>1
  <2> QED
    BY <2>2, <2>3
<1> DEFINE Good(k) == Traversed(V, id, step, k, B[k])
<1>9. Good(0)
  <2>1. ToSet(<< >>) = {} /\ IsInjective(<< >>)
    BY DEF ToSet, IsInjective
  <2> QED
    BY <1>2, <1>8, <2>1 DEF Traversed
<1>10. ASSUME NEW k \in 1..N, Good(k - 1) PROVE Good(k)
  <2>1. k \in Nat \ {0}
    BY <1>1
  <2>2. Traversed(V, id, step, k, Iteration(id, step, k, B[k - 1]))
    BY <1>10, <2>1, IterationTraverses
  <2> QED
    BY <1>8, <2>2
<1>11. Good(N)
  <2> DEFINE Bad == {k \in 0..N : ~Good(k)}
  <2> HIDE DEF Good, N
  <2>1. Bad = {}
    <3> SUFFICES ASSUME Bad # {} PROVE FALSE
      OBVIOUS
    <3>1. PICK k \in Bad : \A j \in Bad : k <= j
      <4>1. Bad \subseteq Nat
        OBVIOUS
      <4> HIDE DEF Bad
      <4> QED
        BY <4>1, LeastExists
    <3>2. k # 0
      BY <1>9, <3>1
    <3>3. k \in 1..N /\ k - 1 \in 0..N /\ ~(k <= k - 1)
      BY <1>1, <3>1, <3>2
    <3>4. Good(k - 1)
      BY <3>1, <3>3
    <3> QED
      BY <1>10, <3>1, <3>3, <3>4
  <2>2. N \in 0..N
    BY <1>1
  <2> QED
    BY <2>1, <2>2
<1>12. Traversed(V, id, step, N, out)
  BY <1>6, <1>11
<1>13. /\ out \in Seq(V) /\ IsInjective(out) /\ Len(out) \in Nat /\ DOMAIN out = 1..Len(out)
       /\ \A j \in 1..N : j <= Len(out) + 1 => ToSet(step[Taken(id, out, j)]) \subseteq ToSet(out)
  BY <1>12 DEF Traversed
<1>14. Len(out) <= Cardinality(V)
  BY <1>13, InjectiveShort
<1>15. \A j \in 1..(Len(out) + 1) : ToSet(step[Taken(id, out, j)]) \subseteq ToSet(out)
  BY <1>1, <1>13, <1>14
<1>16. ToSet(step[id]) \subseteq ToSet(out)
  <2>1. 1 \in 1..(Len(out) + 1) /\ Taken(id, out, 1) = id
    BY <1>13 DEF Taken
  <2> QED
    BY <1>15, <2>1
<1>17. ASSUME NEW x \in ToSet(out) PROVE ToSet(step[x]) \subseteq ToSet(out)
  <2>1. PICK i \in 1..Len(out) : out[i] = x
    BY <1>13 DEF ToSet
  <2>2. i + 1 \in 1..(Len(out) + 1) /\ i + 1 # 1 /\ (i + 1) - 1 = i
    BY <1>13
  <2>3. Taken(id, out, i + 1) = x
    BY <2>1, <2>2 DEF Taken
  <2> QED
    BY <1>15, <2>2, <2>3
<1> QED
  BY <1>12, <1>13, <1>16, <1>17 DEF Traversed, Least

\* The ends of containment are ids.
LEMMA ContainsIds ==
  ASSUME NEW g, NEW x, NEW n, Contains1(g, x, n)
  PROVE  x \in Ids(g) /\ n \in Ids(g)
  BY DEF Contains1, Ids, EdgeSet

\* parents and children list what contains n and what n contains.
LEMMA ParentsAre ==
  ASSUME NEW g, Finite(g), NEW n
  PROVE  /\ parents(g, n, "CONTAINS") \in Seq(Ids(g))
         /\ \A x : x \in ToSet(parents(g, n, "CONTAINS")) <=> Contains1(g, x, n)
<1> DEFINE ps == parents(g, n, "CONTAINS")
<1>1. ps = [k \in DOMAIN ps |-> ps[k]]
  BY DEF parents
<1>2. IsFiniteSet(DOMAIN g.edges) /\ ps = parents(g, n, "CONTAINS")
  BY DEF Finite
<1> HIDE DEF ps
<1>3. /\ Len(ps) \in Nat /\ DOMAIN ps = 1..Len(ps)
      /\ \A k \in 1..Len(ps) : Contains1(g, ps[k], n)
      /\ \A x : Contains1(g, x, n) => \E k \in 1..Len(ps) : ps[k] = x
      /\ ps = << >> <=> Len(ps) = 0
  BY <1>2, ParentsList
<1>4. \A k \in 1..Len(ps) : ps[k] \in Ids(g)
  BY <1>3, ContainsIds
<1>5. ps \in Seq(Ids(g))
  BY <1>1, <1>3, <1>4
<1>6. \A x : x \in ToSet(ps) <=> Contains1(g, x, n)
  BY <1>3 DEF ToSet
<1> QED
  BY <1>5, <1>6 DEF ps

LEMMA ChildrenAre ==
  ASSUME NEW g, Finite(g), NEW p
  PROVE  /\ children(g, p, "CONTAINS") \in Seq(Ids(g))
         /\ \A x : x \in ToSet(children(g, p, "CONTAINS")) <=> Contains1(g, p, x)
<1> DEFINE I == {i \in Positions(g.edges) : g.edges[i].type = "CONTAINS" /\ g.edges[i].source = p}
           ts == children(g, p, "CONTAINS")
<1>1. I \subseteq Positions(g.edges) /\ IsFiniteSet(I)
  <2>1. I \subseteq DOMAIN g.edges
    BY DEF Positions
  <2>2. IsFiniteSet(I)
    BY <2>1, FS_Subset DEF Finite
  <2> QED
    BY <2>2
<1>2. \A i \in I : g.edges[i].target \in Ids(g)
  BY DEF Ids, EdgeSet
<1>3. ts = Targets(g, I)
  BY DEF children
<1>4. ts \in Seq(Ids(g)) /\ ToSet(ts) = {g.edges[i].target : i \in I}
  <2> HIDE DEF I, ts
  <2> QED
    BY <1>1, <1>2, <1>3, TargetsList
<1> HIDE DEF ts
<1>5. \A x : x \in ToSet(ts) <=> Contains1(g, p, x)
  BY <1>4 DEF Contains1
<1> QED
  BY <1>4, <1>5 DEF ts

\* ancestors finds the transitive containers.
LEMMA AncestorsAre ==
  ASSUME NEW g, Finite(g), NEW n \in Ids(g), NEW up, up = ancestors(g, n, "CONTAINS")
  PROVE  ToSet(up) = Containers(g, n) /\ IsInjective(up)
<1> DEFINE V == Ids(g)
           step == [m \in V |-> parents(g, m, "CONTAINS")]
           C == Containers(g, n)
<1>1. IsFiniteSet(V)
  BY IdsFinite
<1>2. step \in [V -> Seq(V)]
  <2> HIDE DEF V
  <2>1. \A m \in V : parents(g, m, "CONTAINS") \in Seq(V)
    BY ParentsAre DEF V
  <2> QED
    BY <2>1
<1>3. \A m \in V : \A x : x \in ToSet(step[m]) <=> Contains1(g, x, m)
  <2>1. \A m \in V : step[m] = parents(g, m, "CONTAINS")
    OBVIOUS
  <2> HIDE DEF V, step
  <2> QED
    BY <2>1, ParentsAre
<1>4. up = Closure(n, step)
  <2>1. V \cup {n} = V
    OBVIOUS
  <2> QED
    BY <2>1 DEF ancestors
<1>5. n \in V
  OBVIOUS
<1>6. C \subseteq V /\ (\A x : Contains1(g, x, n) => x \in C) /\ ClosedUp(g, C)
  BY ContainersIs
<1>7. \A S : ClosedUp(g, S) /\ Over(g, {n}) \subseteq S => C \subseteq S
  BY ContainersIs
<1> HIDE DEF V, step, C
<1>8. /\ up \in Seq(V) /\ IsInjective(up)
      /\ ToSet(step[n]) \subseteq ToSet(up)
      /\ \A x \in ToSet(up) : ToSet(step[x]) \subseteq ToSet(up)
      /\ \A S : (/\ ToSet(step[n]) \subseteq S
                 /\ \A x \in S \cap V : ToSet(step[x]) \subseteq S) => ToSet(up) \subseteq S
  <2>1. Least(V, n, step, up)
    BY <1>1, <1>2, <1>4, <1>5, ClosureIs
  <2> QED
    BY <2>1, Zenon DEF Least
<1>9. ToSet(up) \subseteq V
  BY <1>8 DEF ToSet
<1>10. ToSet(up) \subseteq C
  <2>1. ToSet(step[n]) \subseteq C
    BY <1>3, <1>5, <1>6
  <2>2. \A x \in C \cap V : ToSet(step[x]) \subseteq C
    BY <1>3, <1>6 DEF ClosedUp
  <2> QED
    BY <1>8, <2>1, <2>2
<1>11. C \subseteq ToSet(up)
  <2>1. ClosedUp(g, ToSet(up))
    BY <1>3, <1>8, <1>9 DEF ClosedUp
  <2>2. Over(g, {n}) \subseteq ToSet(up)
    BY <1>3, <1>5, <1>8, OverIs
  <2> QED
    BY <1>7, <2>1, <2>2
<1> QED
  BY <1>8, <1>10, <1>11 DEF C

\* descendants finds the nodes n is a transitive container of.
LEMMA DescendantsAre ==
  ASSUME NEW g, Finite(g), NEW n \in Ids(g), NEW down, down = descendants(g, n, "CONTAINS")
  PROVE  ToSet(down) = {b \in Ids(g) : n \in Containers(g, b)} /\ IsInjective(down)
<1> DEFINE V == Ids(g)
           step == [m \in V |-> children(g, m, "CONTAINS")]
           D == {b \in V : n \in Containers(g, b)}
<1>1. IsFiniteSet(V)
  BY IdsFinite
<1>2. step \in [V -> Seq(V)]
  <2> HIDE DEF V
  <2>1. \A m \in V : children(g, m, "CONTAINS") \in Seq(V)
    BY ChildrenAre DEF V
  <2> QED
    BY <2>1
<1>3. \A m \in V : \A x : x \in ToSet(step[m]) <=> Contains1(g, m, x)
  <2>1. \A m \in V : step[m] = children(g, m, "CONTAINS")
    OBVIOUS
  <2> HIDE DEF V, step
  <2> QED
    BY <2>1, ChildrenAre
<1>4. down = Closure(n, step)
  <2>1. V \cup {n} = V
    OBVIOUS
  <2> QED
    BY <2>1 DEF descendants
<1>5. n \in V
  OBVIOUS
<1>6. \A x, m : Contains1(g, x, m) => x \in V /\ m \in V
  BY ContainsIds
<1> HIDE DEF V, step
<1>7. /\ down \in Seq(V) /\ IsInjective(down)
      /\ ToSet(step[n]) \subseteq ToSet(down)
      /\ \A x \in ToSet(down) : ToSet(step[x]) \subseteq ToSet(down)
      /\ \A S : (/\ ToSet(step[n]) \subseteq S
                 /\ \A x \in S \cap V : ToSet(step[x]) \subseteq S) => ToSet(down) \subseteq S
  <2>1. Least(V, n, step, down)
    BY <1>1, <1>2, <1>4, <1>5, ClosureIs
  <2> QED
    BY <2>1, Zenon DEF Least
<1>8. ToSet(down) \subseteq V
  BY <1>7 DEF ToSet
<1>9. ToSet(down) \subseteq D
  <2>1. ASSUME NEW b \in ToSet(step[n]) PROVE b \in D
    <3>1. Contains1(g, n, b)
      BY <1>3, <1>5, <2>1
    <3>2. n \in Containers(g, b)
      BY <3>1, ContainersIs
    <3> QED
      BY <1>6, <3>1, <3>2
  <2>2. ASSUME NEW b \in D \cap V, NEW x \in ToSet(step[b]) PROVE x \in D
    <3>1. Contains1(g, b, x)
      BY <1>3, <2>2
    <3>2. b \in Containers(g, x) /\ ClosedUp(g, Containers(g, x))
      BY <3>1, ContainersIs
    <3>3. Containers(g, b) \subseteq Containers(g, x)
      BY <3>2, ContainersIs
    <3> QED
      BY <1>6, <2>2, <3>1, <3>3
  <2>3. /\ ToSet(step[n]) \subseteq D
        /\ \A b \in D \cap V : ToSet(step[b]) \subseteq D
    BY <2>1, <2>2
  <2> HIDE DEF D
  <2> QED
    BY <1>7, <2>3
<1>10. D \subseteq ToSet(down)
  <2> SUFFICES ASSUME NEW b \in D, b \notin ToSet(down) PROVE FALSE
    OBVIOUS
  <2> DEFINE S == V \ (ToSet(down) \cup {n})
  <2>1. ASSUME NEW y, y \notin ToSet(down), NEW x, Contains1(g, x, y) PROVE x \in S
    <3>1. x \in V /\ y \in V
      BY <1>6, <2>1
    <3>2. x # n
      BY <1>3, <1>5, <1>7, <2>1
    <3>3. x \notin ToSet(down)
      BY <1>3, <1>7, <2>1, <3>1
    <3> QED
      BY <3>1, <3>2, <3>3
  <2>2. ClosedUp(g, S)
    BY <2>1 DEF ClosedUp
  <2>3. Over(g, {b}) \subseteq S
    BY <2>1, OverIs
  <2>4. n \notin S /\ n \in Containers(g, b)
    OBVIOUS
  <2> HIDE DEF S
  <2>5. Containers(g, b) \subseteq S
    BY <2>2, <2>3, ContainersIs
  <2> QED
    BY <2>4, <2>5
<1> QED
  BY <1>7, <1>9, <1>10 DEF V

\* siblings finds the other nodes that share a container with n.
LEMMA SiblingsAre ==
  ASSUME NEW g, Finite(g), NEW n, NEW sibs, sibs = siblings(g, n, "CONTAINS")
  PROVE  /\ sibs \in Seq(Ids(g))
         /\ \A x : x \in ToSet(sibs) <=>
                    x # n /\ \E p : Contains1(g, p, n) /\ Contains1(g, p, x)
<1> DEFINE ps == parents(g, n, "CONTAINS")
           V == Ids(g)
           N == Len(ps)
           U == Seq(V)
           x0 == << >>
           I(p) == {i \in Positions(g.edges) : /\ g.edges[i].type = "CONTAINS"
                                              /\ g.edges[i].source = p
                                              /\ g.edges[i].target # n}
           beside(p) == Targets(g, I(p))
           next(k, o) == AppendNew(o, beside(ps[k]))
           Is(f) == f = [k \in 0..N |-> IF k = 0 THEN x0 ELSE next(k, f[k - 1])]
           G == [z \in Nat \X U |-> next(z[1], z[2])]
<1>1. /\ ps \in Seq(V) /\ N \in Nat /\ DOMAIN ps = 1..N
      /\ \A x : x \in ToSet(ps) <=> Contains1(g, x, n)
  <2>1. ps \in Seq(V) /\ \A x : x \in ToSet(ps) <=> Contains1(g, x, n)
    BY ParentsAre
  <2> HIDE DEF ps, V
  <2> QED
    BY <2>1
<1>2. x0 \in U
  OBVIOUS
<1>3. ASSUME NEW p
      PROVE  /\ beside(p) \in U
             /\ \A x : x \in ToSet(beside(p)) <=> x # n /\ Contains1(g, p, x)
  <2> DEFINE J == I(p)
             ts == beside(p)
  <2>1. J \subseteq Positions(g.edges) /\ IsFiniteSet(J)
    <3>1. J \subseteq DOMAIN g.edges
      BY DEF Positions
    <3>2. IsFiniteSet(J)
      BY <3>1, FS_Subset DEF Finite
    <3> QED
      BY <3>2
  <2>2. \A i \in J : g.edges[i].target \in V
    BY DEF Ids, EdgeSet
  <2>3. ts = Targets(g, J)
    OBVIOUS
  <2>4. ts \in Seq(V) /\ ToSet(ts) = {g.edges[i].target : i \in J}
    <3> HIDE DEF J, ts, V
    <3> QED
      BY <2>1, <2>2, <2>3, TargetsList
  <2> HIDE DEF ts
  <2>5. \A x : x \in ToSet(ts) <=> x # n /\ Contains1(g, p, x)
    BY <2>4 DEF Contains1
  <2> QED
    BY <2>4, <2>5 DEF ts
<1> HIDE DEF beside
<1>4. ASSUME NEW k, NEW o \in U
      PROVE  next(k, o) \in U /\ ToSet(next(k, o)) = ToSet(o) \cup ToSet(beside(ps[k]))
  <2> DEFINE b == beside(ps[k])
  <2>1. b \in U
    BY <1>3
  <2> HIDE DEF b
  <2>2. AppendNew(o, b) \in U /\ ToSet(AppendNew(o, b)) = ToSet(o) \cup ToSet(b)
    BY <2>1, AppendNewIs
  <2> QED
    BY <2>2 DEF b
<1>5. G \in [Nat \X U -> U]
  <2> HIDE DEF U, next
  <2> QED
    BY <1>4
<1>6. PICK f \in [0..N -> U] : Steps(f, G, x0, N)
  <2> HIDE DEF G, U, N, x0
  <2> QED
    BY <1>1, <1>2, <1>5, StepsExist
<1>7. Is(f)
  <2>1. ASSUME NEW k \in 1..N PROVE f[k] = next(k, f[k - 1])
    <3>1. k - 1 \in 0..N /\ k \in Nat
      BY <1>1
    <3>2. f[k - 1] \in U /\ f[k] = G[<<k, f[k - 1]>>]
      BY <1>6, <3>1 DEF Steps
    <3> HIDE DEF U, next
    <3> QED
      BY <3>1, <3>2
  <2> HIDE DEF next, U, x0
  <2>2. \A k \in 0..N : f[k] = IF k = 0 THEN x0 ELSE next(k, f[k - 1])
    BY <1>1, <1>6, <2>1 DEF Steps
  <2> HIDE DEF N
  <2>3. f = [k \in 0..N |-> f[k]]
    BY <1>6
  <2> QED
    BY <2>2, <2>3
<1> DEFINE B == CHOOSE h : Is(h)
<1>8. sibs = B[N]
  BY DEF siblings, beside
<1>9. Is(B)
  <2> HIDE DEF Is
  <2> QED
    BY <1>7
<1> HIDE DEF B
<1>10. B[0] = x0 /\ \A k \in 1..N : B[k] = next(k, B[k - 1])
  <2> HIDE DEF next, x0, N
  <2>1. B = [k \in 0..N |-> IF k = 0 THEN x0 ELSE next(k, B[k - 1])]
    BY <1>9
  <2>2. \A k \in 0..N : B[k] = IF k = 0 THEN x0 ELSE next(k, B[k - 1])
    BY <2>1, Zenon
  <2>3. 0 \in 0..N /\ \A k \in 1..N : k \in 0..N /\ k # 0
    BY <1>1
  <2> QED
    BY <2>2, <2>3
<1> DEFINE Good(k) ==
      /\ B[k] \in U
      /\ \A x : x \in ToSet(B[k]) <=> x # n /\ \E j \in 1..k : Contains1(g, ps[j], x)
<1>11. Good(0)
  <2>1. ToSet(<< >>) = {} /\ 1..0 = {}
    BY DEF ToSet
  <2> QED
    BY <1>2, <1>10, <2>1
<1>12. ASSUME NEW k \in 1..N, Good(k - 1) PROVE Good(k)
  <2> DEFINE A == B[k - 1]
             b == beside(ps[k])
             C == B[k]
  <2>1. A \in U /\ \A x : x \in ToSet(A) <=> x # n /\ \E j \in 1..(k - 1) : Contains1(g, ps[j], x)
    BY <1>12
  <2>2. \A x : x \in ToSet(b) <=> x # n /\ Contains1(g, ps[k], x)
    BY <1>3
  <2>3. C \in U /\ ToSet(C) = ToSet(A) \cup ToSet(b)
    <3>1. C = next(k, A)
      BY <1>10
    <3> HIDE DEF A, C, next
    <3> QED
      BY <1>4, <2>1, <3>1
  <2> HIDE DEF A, b, C
  <2>4. \A j : j \in 1..k <=> j \in 1..(k - 1) \/ j = k
    BY <1>1
  <2>5. \A x : x \in ToSet(C) <=> x # n /\ \E j \in 1..k : Contains1(g, ps[j], x)
    BY <2>1, <2>2, <2>3, <2>4
  <2> QED
    BY <2>3, <2>5 DEF C
<1>13. Good(N)
  <2> DEFINE Bad == {k \in 0..N : ~Good(k)}
  <2> HIDE DEF Good, N
  <2>1. Bad = {}
    <3> SUFFICES ASSUME Bad # {} PROVE FALSE
      OBVIOUS
    <3>1. PICK k \in Bad : \A j \in Bad : k <= j
      <4>1. Bad \subseteq Nat
        OBVIOUS
      <4> HIDE DEF Bad
      <4> QED
        BY <4>1, LeastExists
    <3>2. k # 0
      BY <1>11, <3>1
    <3>3. k \in 1..N /\ k - 1 \in 0..N /\ ~(k <= k - 1)
      BY <1>1, <3>1, <3>2
    <3>4. Good(k - 1)
      BY <3>1, <3>3
    <3> QED
      BY <1>12, <3>1, <3>3, <3>4
  <2>2. N \in 0..N
    BY <1>1
  <2> QED
    BY <2>1, <2>2
<1>14. sibs \in U /\ \A x : x \in ToSet(sibs) <=> x # n /\ \E j \in 1..N : Contains1(g, ps[j], x)
  BY <1>8, <1>13
<1>15. \A p : Contains1(g, p, n) <=> \E j \in 1..N : ps[j] = p
  <2> HIDE DEF ps, N
  <2> QED
    BY <1>1 DEF ToSet
<1> HIDE DEF ps, N
<1>16. \A x : (\E j \in 1..N : Contains1(g, ps[j], x)) <=>
             (\E p : Contains1(g, p, n) /\ Contains1(g, p, x))
  BY <1>15
<1> QED
  BY <1>14, <1>16

-----------------------------------------------------------------------------
(* Results on the structural queries.                                      *)

LEMMA GraphFinite == SearchInv => Finite(graph)
  BY QueriesAssumption DEF SearchInv, graph, Finite

\* The traversals along containment are exact on every finite snapshot, whatever
\* cycles, self edges and repeated edges it has.
THEOREM TraversalsFindAll == Spec => []TraversalExact
<1>1. SearchInv => TraversalExact
  <2> SUFFICES ASSUME SearchInv PROVE TraversalExact
    OBVIOUS
  <2> DEFINE V == Ids(graph)
             above == [n \in V |-> Containers(graph, n)]
             up(n) == ancestors(graph, n, "CONTAINS")
             down(n) == descendants(graph, n, "CONTAINS")
             sibs(n) == siblings(graph, n, "CONTAINS")
  <2>1. Finite(graph)
    BY GraphFinite
  <2>2. ASSUME NEW n \in V
        PROVE  ToSet(up(n)) = above[n] /\ IsInjective(up(n))
    BY <2>1, AncestorsAre
  <2>3. ASSUME NEW n \in V
        PROVE  ToSet(down(n)) = {b \in V : n \in above[b]} /\ IsInjective(down(n))
    <3>1. {b \in V : n \in above[b]} = {b \in Ids(graph) : n \in Containers(graph, b)}
      OBVIOUS
    <3>2. ToSet(down(n)) = {b \in Ids(graph) : n \in Containers(graph, b)} /\ IsInjective(down(n))
      BY <2>1, DescendantsAre
    <3> QED
      BY <3>1, <3>2
  <2>4. ASSUME NEW n \in V, NEW s \in ToSet(sibs(n)) PROVE Contains(sibs(s), n)
    <3>1. s # n /\ \E p : Contains1(graph, p, n) /\ Contains1(graph, p, s)
      BY <2>1, <2>4, SiblingsAre
    <3>2. n \in ToSet(sibs(s)) /\ sibs(s) \in Seq(V)
      BY <2>1, <3>1, SiblingsAre
    <3> HIDE DEF sibs
    <3> QED
      BY <3>2 DEF Contains, ToSet
  <2> HIDE DEF above
  <2>5. \A n \in V :
          /\ ToSet(up(n)) = above[n] /\ IsInjective(up(n))
          /\ ToSet(down(n)) = {b \in V : n \in above[b]} /\ IsInjective(down(n))
          /\ \A s \in ToSet(sibs(n)) : Contains(sibs(s), n)
    <3> HIDE DEF up, down, sibs, V
    <3> QED
      BY <2>2, <2>3, <2>4
  <2> QED
    BY <2>5 DEF TraversalExact, above
<1> QED
  BY <1>1, SearchInvariant, PTL

\* root_ancestor ends on every finite snapshot, with the node itself or a
\* container of the type; where nodes have one container each, it answers
\* whenever there is one and with the nearest.
THEOREM RootAncestorFindsNearest == Spec => []RootAncestorExact
<1>1. SearchInv => RootAncestorExact
  <2> SUFFICES ASSUME SearchInv PROVE RootAncestorExact
    OBVIOUS
  <2>1. Finite(graph)
    BY GraphFinite
  <2> DEFINE above == [n \in DOMAIN graph.nodes |-> Containers(graph, n)]
             fits(n, t) == {m \in DOMAIN graph.nodes :
                              graph.nodes[m].type = t /\ m \in above[n] \cup {n}}
  <2>2. ASSUME NEW n \in DOMAIN graph.nodes, NEW t, NEW r, r = root_ancestor(graph, n, t)
        PROVE  /\ r \in fits(n, t) \cup {kNullNodeId}
               /\ SingleParents(graph) => /\ r = kNullNodeId <=> fits(n, t) = {}
                                         /\ \A m \in fits(n, t) \ {r} : m \in above[r]
    <3> DEFINE F == fits(n, t)
    <3>1. F = {m \in DOMAIN graph.nodes :
                 IsRoot(graph, t, m) /\ m \in Containers(graph, n) \cup {n}}
      BY DEF IsRoot
    <3> HIDE DEF F
    <3>2. /\ r \in F \cup {kNullNodeId}
          /\ SingleParents(graph) => /\ r = kNullNodeId <=> F = {}
                                    /\ \A m \in F \ {r} : m \in Containers(graph, r)
      BY <2>1, <2>2, <3>1, RootAncestorAt
    <3>3. SingleParents(graph) /\ F # {} => r \in DOMAIN graph.nodes
      BY <3>1, <3>2
    <3>4. SingleParents(graph) => \A m \in F \ {r} : m \in above[r]
      BY <3>2, <3>3
    <3> QED
      BY <3>2, <3>4 DEF F
  <2> HIDE DEF above
  <2>3. ASSUME NEW n \in DOMAIN graph.nodes, NEW t \in {"MACHINE", "PCI_ROOT"}
        PROVE  /\ root_ancestor(graph, n, t) \in fits(n, t) \cup {kNullNodeId}
               /\ SingleParents(graph) =>
                    /\ root_ancestor(graph, n, t) = kNullNodeId <=> fits(n, t) = {}
                    /\ \A m \in fits(n, t) \ {root_ancestor(graph, n, t)} :
                         m \in above[root_ancestor(graph, n, t)]
    <3> HIDE DEF fits
    <3> QED
      BY <2>2
  <2> QED
    BY <2>3 DEF RootAncestorExact, above
<1> QED
  BY <1>1, SearchInvariant, PTL

\* Neither classification depends on which node is asked from.
LEMMA LocalitySymmetric ==
  ASSUME NEW g, NEW a, NEW b
  PROVE  locality_between(g, a, b) = locality_between(g, b, a)
<1> DEFINE pa == root_ancestor(g, a, "PCI_ROOT")
           pb == root_ancestor(g, b, "PCI_ROOT")
           ma == root_ancestor(g, a, "MACHINE")
           mb == root_ancestor(g, b, "MACHINE")
<1>1. /\ SameRoot(g, a, b, "PCI_ROOT") <=> SameRoot(g, b, a, "PCI_ROOT")
      /\ SameRoot(g, a, b, "MACHINE") <=> SameRoot(g, b, a, "MACHINE")
  BY DEF SameRoot, SameKnown
<1>2. {ma, mb} = {mb, ma}
  OBVIOUS
<1>3. \A x, y : SameKnown(x, y) <=> SameKnown(y, x)
  BY DEF SameKnown
<1> QED
  BY <1>1, <1>2, <1>3 DEF locality_between

LEMMA ClassSymmetric ==
  ASSUME NEW g, NEW a, NEW b, DanglingEnds(g) = {}
  PROVE  classify_path(g, a, b) = classify_path(g, b, a)
<1>1. \A i \in Positions(g.edges) :
        g.edges[i].source \in DOMAIN g.nodes /\ g.edges[i].target \in DOMAIN g.nodes
  BY NothingDangles
<1>2. ASSUME NEW x, NEW y, DecidingEdges(g, x, y) # {} PROVE DecidingEdges(g, y, x) # {}
  <2>1. PICK i \in ContainsEdges(g.edges) :
          /\ g.edges[i].target = x
          /\ \E j \in ContainsEdges(g.edges) :
               g.edges[j].source = g.edges[i].source /\ g.edges[j].target = y
          /\ g.edges[i].source \in DOMAIN g.nodes => g.nodes[g.edges[i].source].type = "PCI_BRIDGE"
    BY <1>2 DEF DecidingEdges
  <2>2. PICK j \in ContainsEdges(g.edges) :
          g.edges[j].source = g.edges[i].source /\ g.edges[j].target = y
    BY <2>1
  <2>3. j \in DecidingEdges(g, y, x)
    BY <2>1, <2>2 DEF DecidingEdges
  <2> QED
    BY <2>3
<1>3. DecidingEdges(g, a, b) = {} <=> DecidingEdges(g, b, a) = {}
  BY <1>2
<1>4. /\ SameRoot(g, a, b, "PCI_ROOT") <=> SameRoot(g, b, a, "PCI_ROOT")
      /\ SameRoot(g, a, b, "MACHINE") <=> SameRoot(g, b, a, "MACHINE")
  BY DEF SameRoot, SameKnown
<1>5. BothPci(g.nodes[a], g.nodes[b]) <=> BothPci(g.nodes[b], g.nodes[a])
  BY DEF BothPci
<1> QED
  BY <1>3, <1>4, <1>5 DEF classify_path, Between

\* Where the classifications speak of NUMA nodes they agree.
LEMMA NumaAgrees ==
  ASSUME NEW g, NEW a, NEW b, a # b
  PROVE  /\ classify_path(g, a, b) = "SAME_NUMA" => locality_between(g, a, b) = "SAME_NUMA"
         /\ classify_path(g, a, b) = "CROSS_NUMA" =>
              locality_between(g, a, b) \notin {"SAME_NUMA", "SAME_CORE"}
<1> DEFINE na == g.nodes[a]
           nb == g.nodes[b]
<1>1. classify_path(g, a, b) \in {"SAME_NUMA", "CROSS_NUMA"} =>
        /\ ~(is_cpu(na) /\ is_cpu(nb))
        /\ na.numa # 0 /\ nb.numa # 0
        /\ classify_path(g, a, b) = IF na.numa = nb.numa THEN "SAME_NUMA" ELSE "CROSS_NUMA"
  BY DEF classify_path
<1>2. (na.type = "CPU_THREAD" /\ nb.type = "CPU_THREAD") => is_cpu(na) /\ is_cpu(nb)
  BY DEF is_cpu
<1>3. ~(is_cpu(na) /\ is_cpu(nb)) =>
        /\ locality_between(g, a, b) # "SAME_CORE"
        /\ SameKnown(na.numa, nb.numa) <=> locality_between(g, a, b) = "SAME_NUMA"
  BY <1>2 DEF locality_between
<1> QED
  BY <1>1, <1>3 DEF SameKnown

\* Two nodes with a bridge in common have the same ancestors of the types they
\* are not of themselves.
LEMMA BridgeShared ==
  ASSUME NEW g, Finite(g), SingleParents(g), NEW a, NEW b,
         classify_path(g, a, b) = "SAME_PCI_BRIDGE", NEW t \in {"MACHINE", "PCI_ROOT"}
  PROVE  root_ancestor(g, a, t) = root_ancestor(g, b, t)
<1>1. BothPci(g.nodes[a], g.nodes[b]) /\ DecidingEdges(g, a, b) # {}
  BY DEF classify_path
<1>2. PICK i \in ContainsEdges(g.edges), j \in ContainsEdges(g.edges) :
        g.edges[i].target = a /\ g.edges[j].source = g.edges[i].source /\ g.edges[j].target = b
  BY <1>1 DEF DecidingEdges
<1> DEFINE x == g.edges[i].source
<1>3. Contains1(g, x, a) /\ Contains1(g, x, b)
  BY <1>2 DEF Contains1, ContainsEdges
<1> HIDE DEF x
<1>4. ASSUME NEW n \in {a, b} PROVE root_ancestor(g, n, t) = root_ancestor(g, x, t)
  <2>1. ~IsRoot(g, t, n)
    BY <1>1 DEF BothPci, is_pci_endpoint, IsRoot
  <2>2. n \in DOMAIN g.nodes \ {kNullNodeId} /\ HasUp(g, n) /\ Up(g, n) = x
    BY <1>3, OnlyContainer
  <2> QED
    BY <2>1, <2>2, UpOne
<1> QED
  BY <1>4

\* Two nodes that no route connects have no ancestor in common.
LEMMA ApartRoots ==
  ASSUME NEW g, Finite(g), NEW c, NEW V, NEW t, NEW a \in V, NEW b, b \notin V,
         \A v \in V : \A i, w : Joins(g, c, i, v, w) => w \in V
  PROVE  ~SameRoot(g, a, b, t)
<1> DEFINE r == root_ancestor(g, a, t)
<1> SUFFICES ASSUME r # kNullNodeId, r = root_ancestor(g, b, t) PROVE FALSE
  BY DEF SameRoot, SameKnown, kNullNodeId
<1>1. ASSUME NEW x, NEW n, Contains1(g, x, n) PROVE x \in V <=> n \in V
  <2>1. PICK i \in Positions(g.edges) :
          g.edges[i].type = "CONTAINS" /\ g.edges[i].source = x /\ g.edges[i].target = n
    BY <1>1 DEF Contains1
  <2>2. Joins(g, c, i, x, n) /\ Joins(g, c, i, n, x)
    BY <2>1 DEF Joins
  <2> QED
    BY <2>2
<1>2. ASSUME NEW x, HasUp(g, x) PROVE Up(g, x) \in V <=> x \in V
  BY <1>1, <1>2, FirstParent DEF Finite, HasUp, Up
<1> DEFINE R == (DOMAIN g.nodes \cup Ids(g) \cup {b}) \ V
<1>3. WalkClosed(g, t, V)
  BY <1>2 DEF WalkClosed
<1>4. WalkClosed(g, t, R)
  <2> SUFFICES ASSUME NEW x \in R, HasUp(g, x) PROVE Up(g, x) \in R
    BY DEF WalkClosed
  <2>1. Contains1(g, Up(g, x), x)
    BY FirstParent DEF Finite, HasUp, Up
  <2>2. Up(g, x) \in Ids(g)
    BY <2>1 DEF Contains1, Ids, EdgeSet
  <2> QED
    BY <1>2, <2>2
<1> HIDE DEF r
<1>5. r \in V
  BY <1>3, RootInside DEF r
<1>6. r \in R
  <2>1. b \in R
    OBVIOUS
  <2> HIDE DEF R
  <2> QED
    BY <1>4, <2>1, RootInside
<1> QED
  BY <1>5, <1>6

\* The classifications are symmetric, agree with each other, and a shared root
\* complex or host is never claimed of two nodes no path connects.
THEOREM ClassificationsAgree == Spec => []LocalityAgrees
<1>1. SearchInv => LocalityAgrees
  <2> SUFFICES ASSUME SearchInv, Searchable PROVE LocalityAgrees
    BY DEF LocalityAgrees
  <2>1. Finite(graph) /\ from # to
    BY GraphFinite DEF Searchable
  <2>2. /\ locality_between(graph, from, to) = locality_between(graph, to, from)
        /\ DanglingEnds(graph) = {} =>
             classify_path(graph, from, to) = classify_path(graph, to, from)
    BY LocalitySymmetric, ClassSymmetric
  <2>3. /\ classify_path(graph, from, to) = "SAME_NUMA" =>
             locality_between(graph, from, to) = "SAME_NUMA"
        /\ classify_path(graph, from, to) = "CROSS_NUMA" =>
             locality_between(graph, from, to) \notin {"SAME_NUMA", "SAME_CORE"}
    BY <2>1, NumaAgrees
  <2>4. ASSUME classify_path(graph, from, to) = "SAME_PCI_BRIDGE", SingleParents(graph)
        PROVE  locality_between(graph, from, to) # "REMOTE"
    <3>1. root_ancestor(graph, from, "MACHINE") = root_ancestor(graph, to, "MACHINE")
      BY <2>1, <2>4, BridgeShared
    <3> QED
      BY <3>1 DEF locality_between, SameRoot, SameKnown, kNullNodeId
  <2>5. ASSUME pc = "no_route"
        PROVE  locality_between(graph, from, to) \notin {"SAME_ROOT_COMPLEX", "SAME_HOST"}
    <3>1. PICK d : /\ Tree(graph, in_collocation, from, visited, parent, came_edge, d)
                   /\ Frontier(graph, in_collocation, to, visited, << >>, d)
      BY <2>5 DEF SearchInv, Searching
    <3>2. \A v \in visited : v # to /\ Expanded(graph, in_collocation, visited, d, v)
      BY <3>1 DEF Frontier
    <3>3. /\ from \in visited /\ to \notin visited
          /\ \A v \in visited : \A i, w : Joins(graph, in_collocation, i, v, w) => w \in visited
      BY <3>1, <3>2 DEF Tree, Expanded
    <3>4. ~SameRoot(graph, from, to, "PCI_ROOT") /\ ~SameRoot(graph, from, to, "MACHINE")
      BY <2>1, <3>3, ApartRoots
    <3> QED
      BY <3>4 DEF locality_between
  <2> QED
    BY <2>2, <2>3, <2>4, <2>5 DEF LocalityAgrees
<1> QED
  BY <1>1, SearchInvariant, PTL

\* A step along containment to a node of another type leads to the same ancestor.
LEMMA BelowOne ==
  ASSUME NEW g, Finite(g), SingleParents(g), NEW x, NEW n, Contains1(g, x, n),
         NEW t, ~IsRoot(g, t, n)
  PROVE  root_ancestor(g, n, t) = root_ancestor(g, x, t)
<1>1. n \in DOMAIN g.nodes \ {kNullNodeId} /\ HasUp(g, n) /\ Up(g, n) = x
  BY OnlyContainer
<1> QED
  BY <1>1, UpOne

\* A path along containment that enters no node of the type ends under the
\* ancestor it began under.
LEMMA PathKeepsRoot ==
  ASSUME NEW g, Finite(g), SingleParents(g), NEW T, NEW c, NEW t, NEW V, NEW d, NEW x, NEW segs,
         \A e \in EdgeSet(g.edges) : e.type = "CONTAINS",
         Trace(g, c, t, V, d, x, segs), x # t,
         \A i \in 1..Len(segs) : ~IsRoot(g, T, segs[i].to),
         ~(IsRoot(g, T, x) /\ \E n \in Containers(g, x) : IsRoot(g, T, n)),
         root_ancestor(g, t, T) # kNullNodeId
  PROVE  root_ancestor(g, x, T) = root_ancestor(g, t, T)
<1> DEFINE R(n) == root_ancestor(g, n, T)
           Good(i) == R(segs[i].to) \in {R(x), kNullNodeId}
           N == Len(segs)
<1>1. N \in Nat /\ N # 0 /\ segs[N].to = t
  BY DEF Trace
<1>2. ASSUME NEW i \in 1..N
      PROVE  LET u == IF i = 1 THEN x ELSE segs[i - 1].to
             IN  Contains1(g, u, segs[i].to) \/ Contains1(g, segs[i].to, u)
  <2> DEFINE u == IF i = 1 THEN x ELSE segs[i - 1].to
             v == segs[i].to
             j == segs[i].edge
  <2>1. Joins(g, c, j, u, v)
    BY DEF Trace
  <2> HIDE DEF u, v, j
  <2>2. j \in Positions(g.edges) /\ {g.edges[j].source, g.edges[j].target} = {u, v}
    BY <2>1 DEF Joins
  <2>3. g.edges[j].type = "CONTAINS"
    BY <2>2 DEF EdgeSet
  <2>4. \/ g.edges[j].source = u /\ g.edges[j].target = v
        \/ g.edges[j].source = v /\ g.edges[j].target = u
    BY <2>2
  <2>5. Contains1(g, u, v) \/ Contains1(g, v, u)
    BY <2>2, <2>3, <2>4 DEF Contains1
  <2> QED
    BY <2>5 DEF u, v
<1>3. Good(1)
  <2> DEFINE v == segs[1].to
  <2>1. 1 \in 1..N
    BY <1>1
  <2>2. (Contains1(g, x, v) \/ Contains1(g, v, x)) /\ ~IsRoot(g, T, v)
    BY <1>2, <2>1
  <2> HIDE DEF v
  <2>3. CASE Contains1(g, x, v)
    BY <2>2, <2>3, BelowOne DEF v
  <2>4. CASE Contains1(g, v, x) /\ ~IsRoot(g, T, x)
    <3>1. R(x) = R(v)
      BY <2>4, BelowOne
    <3> QED
      BY <3>1 DEF v
  <2>5. CASE Contains1(g, v, x) /\ IsRoot(g, T, x)
    <3>1. v \in Containers(g, x) /\ ClosedUp(g, Containers(g, x))
      BY <2>5, ContainersIs
    <3>2. WalkClosed(g, T, Containers(g, x))
      BY <3>1, ClosedUpWalk
    <3>3. R(v) # kNullNodeId => R(v) \in Containers(g, x) /\ IsRoot(g, T, R(v))
      BY <3>1, <3>2, RootInside
    <3>4. R(v) = kNullNodeId
      BY <2>5, <3>3
    <3> QED
      BY <3>4 DEF v
  <2> QED
    BY <2>2, <2>3, <2>4, <2>5
<1>4. ASSUME NEW i \in 2..N, Good(i - 1) PROVE Good(i)
  <2> DEFINE u == segs[i - 1].to
             v == segs[i].to
  <2>1. i \in 1..N /\ i # 1 /\ i - 1 \in 1..N
    BY <1>1
  <2>2. (Contains1(g, u, v) \/ Contains1(g, v, u)) /\ ~IsRoot(g, T, v) /\ ~IsRoot(g, T, u)
    BY <1>2, <2>1
  <2>3. R(u) \in {R(x), kNullNodeId}
    BY <1>4
  <2> HIDE DEF u, v
  <2>4. R(u) = R(v)
    BY <2>2, BelowOne
  <2>5. R(v) \in {R(x), kNullNodeId}
    BY <2>3, <2>4
  <2> QED
    BY <2>5 DEF v
<1>5. Good(N)
  <2> DEFINE Bad == {i \in 1..N : ~Good(i)}
  <2> HIDE DEF Good, N
  <2>1. Bad = {}
    <3> SUFFICES ASSUME Bad # {} PROVE FALSE
      OBVIOUS
    <3>1. PICK i \in Bad : \A j \in Bad : i <= j
      <4>1. Bad \subseteq Nat
        OBVIOUS
      <4> HIDE DEF Bad
      <4> QED
        BY <4>1, LeastExists
    <3>2. i # 1
      BY <1>3, <3>1
    <3>3. i \in 2..N /\ i - 1 \in 1..N /\ ~(i <= i - 1)
      BY <1>1, <3>1, <3>2
    <3>4. Good(i - 1)
      BY <3>1, <3>3
    <3> QED
      BY <1>4, <3>1, <3>3, <3>4
  <2>2. N \in 1..N
    BY <1>1
  <2> QED
    BY <2>1, <2>2
<1>6. R(t) \in {R(x), kNullNodeId}
  BY <1>1, <1>5
<1> QED
  BY <1>6

\* What the reasons that exclude each other say.
LEMMA ReasonsMean ==
  /\ "same_numa" \in build_reasons => locality_between(graph, from, to) = "SAME_NUMA"
  /\ "cross_numa" \in build_reasons => classify_path(graph, from, to) = "CROSS_NUMA"
  /\ "same_root_complex" \in build_reasons =>
       locality_between(graph, from, to) = "SAME_ROOT_COMPLEX"
  /\ "same_pci_bridge" \in build_reasons => classify_path(graph, from, to) = "SAME_PCI_BRIDGE"
  /\ "crosses_pci_root" \in build_reasons => distance_between.root_crossings > 0
  /\ "direct_connectivity" \in build_reasons => distance_between.pci_depth = 0
<1> DEFINE loc == locality_between(graph, from, to)
           class == classify_path(graph, from, to)
           d == distance_between
           b1 == loc = "SAME_NUMA"
           b2 == loc = "SAME_PACKAGE"
           b3 == loc = "SAME_CORE"
           b4 == loc = "SAME_ROOT_COMPLEX"
           b5 == loc = "REMOTE"
           b6 == loc = "UNKNOWN"
           b7 == class = "HOST_TO_ACCELERATOR"
           b8 == class = "ACCELERATOR_TO_ACCELERATOR"
           b9 == class = "CROSS_NUMA"
           b10 == d.root_crossings > 0
           b11 == d.pci_depth = 0 /\ loc # "UNKNOWN"
           b12 == d.uncertainty > 0
           b13 == class = "SAME_PCI_BRIDGE"
           b14 == class = "SAME_PCI_DEVICE"
           table == {<<b1, "same_numa">>, <<b2, "same_package">>, <<b3, "same_core">>,
                     <<b4, "same_root_complex">>, <<b5, "remote">>, <<b6, "locality_unknown">>,
                     <<b7, "host_to_accelerator">>, <<b8, "accelerator_to_accelerator">>, <<b9, "cross_numa">>,
                     <<b10, "crosses_pci_root">>, <<b11, "direct_connectivity">>, <<b12, "uncertain_path">>,
                     <<b13, "same_pci_bridge">>, <<b14, "same_pci_device">>}
<1>1. build_reasons = {row[2] : row \in {r \in table : r[1]}}
  BY DEF build_reasons
<1> HIDE DEF b1, b2, b3, b4, b5, b6, b7, b8, b9, b10, b11, b12, b13, b14
<1>2. ASSUME NEW s, s \in build_reasons
      PROVE  \/ s = "same_numa" /\ b1
             \/ s = "same_package" /\ b2
             \/ s = "same_core" /\ b3
             \/ s = "same_root_complex" /\ b4
             \/ s = "remote" /\ b5
             \/ s = "locality_unknown" /\ b6
             \/ s = "host_to_accelerator" /\ b7
             \/ s = "accelerator_to_accelerator" /\ b8
             \/ s = "cross_numa" /\ b9
             \/ s = "crosses_pci_root" /\ b10
             \/ s = "direct_connectivity" /\ b11
             \/ s = "uncertain_path" /\ b12
             \/ s = "same_pci_bridge" /\ b13
             \/ s = "same_pci_device" /\ b14
  <2>1. PICK row \in table : row[1] /\ row[2] = s
    BY <1>1, <1>2
  <2> QED
    BY <2>1
<1>3. /\ "same_numa" \in build_reasons => b1
      /\ "same_root_complex" \in build_reasons => b4
      /\ "cross_numa" \in build_reasons => b9
      /\ "crosses_pci_root" \in build_reasons => b10
      /\ "direct_connectivity" \in build_reasons => b11
      /\ "same_pci_bridge" \in build_reasons => b13
  BY <1>2
<1> QED
  BY <1>3 DEF b1, b4, b9, b10, b11, b13

\* The reasons given for one candidate do not contradict each other.
THEOREM ReasonsNeverContradict == Spec => []ReasonsCompatible
<1>1. SearchInv => ReasonsCompatible
  <2> SUFFICES ASSUME SearchInv, pc = "found" PROVE ReasonsCompatible
    BY DEF ReasonsCompatible
  <2> DEFINE ra == root_ancestor(graph, from, "PCI_ROOT")
             rb == root_ancestor(graph, to, "PCI_ROOT")
             is_root(n) == n \in DOMAIN graph.nodes /\ graph.nodes[n].type = "PCI_ROOT"
             nested == is_root(from) /\ \E n \in Containers(graph, from) : is_root(n)
  <2>1. Finite(graph)
    BY GraphFinite
  <2>2. ASSUME "crosses_pci_root" \in build_reasons
        PROVE  from # to /\ ra # kNullNodeId /\ rb # kNullNodeId /\ ra # rb
    <3>1. distance_between.root_crossings > 0
      BY <2>2, ReasonsMean
    <3>2. from # to
      BY <3>1 DEF distance_between
    <3>3. distance_between.root_crossings = root_crossings
      BY <3>2 DEF distance_between
    <3> QED
      BY <3>1, <3>2, <3>3 DEF root_crossings
  <2>3. ~({"same_numa", "cross_numa"} \subseteq build_reasons)
    <3>1. from = to => locality_between(graph, from, to) = "EXACT"
      BY DEF locality_between
    <3> QED
      BY <3>1, ReasonsMean, NumaAgrees
  <2>4. ~({"same_root_complex", "crosses_pci_root"} \subseteq build_reasons)
    <3>1. locality_between(graph, from, to) = "SAME_ROOT_COMPLEX" => ra = rb
      BY DEF locality_between, SameRoot, SameKnown
    <3> QED
      BY <2>2, <3>1, ReasonsMean
  <2>5. ASSUME SingleParents(graph)
        PROVE  ~({"same_pci_bridge", "crosses_pci_root"} \subseteq build_reasons)
    <3>1. classify_path(graph, from, to) = "SAME_PCI_BRIDGE" => ra = rb
      BY <2>1, <2>5, BridgeShared
    <3> QED
      BY <2>2, <3>1, ReasonsMean
  <2>6. ASSUME SingleParents(graph), ~nested,
               \A e \in EdgeSet(graph.edges) : e.type = "CONTAINS",
               "direct_connectivity" \in build_reasons, "crosses_pci_root" \in build_reasons
        PROVE  FALSE
    <3>1. from # to /\ rb # kNullNodeId /\ ra # rb
      BY <2>2, <2>6
    <3>2. distance_between.pci_depth = pci_depth
      BY <3>1 DEF distance_between
    <3>3. pci_depth = 0
      BY <2>6, <3>2, ReasonsMean
    <3>4. PICK d : Trace(graph, in_collocation, to, visited, d, from, segments)
      BY <3>1 DEF SearchInv, Retracing
    <3>5. DOMAIN segments = 1..Len(segments) /\ Len(segments) \in Nat
      BY <3>4 DEF Trace
    <3>6. \A i \in 1..Len(segments) : graph.nodes[segments[i].to].type # "PCI_ROOT"
      <4> DEFINE B == {i \in DOMAIN segments :
                         graph.nodes[segments[i].to].type \in {"PCI_BRIDGE", "PCI_ROOT"}}
      <4>1. Cardinality(B) = 0
        BY <3>3 DEF pci_depth, Count
      <4>2. IsFiniteSet(1..Len(segments))
        BY <3>5, FS_Interval
      <4>3. IsFiniteSet(B)
        BY <3>5, <4>2, FS_Subset
      <4> HIDE DEF B
      <4>4. B = {}
        BY <4>1, <4>3, FS_EmptySet
      <4> QED
        BY <3>5, <4>4 DEF B
    <3>7. \A i \in 1..Len(segments) : ~IsRoot(graph, "PCI_ROOT", segments[i].to)
      BY <3>6 DEF IsRoot
    <3>8. ~(/\ IsRoot(graph, "PCI_ROOT", from)
            /\ \E n \in Containers(graph, from) : IsRoot(graph, "PCI_ROOT", n))
      BY <2>6 DEF IsRoot
    <3>9. ra = rb
      BY <2>1, <2>6, <3>1, <3>4, <3>7, <3>8, PathKeepsRoot
    <3> QED
      BY <3>1, <3>9
  <2> HIDE DEF ra, rb, nested
  <2> QED
    BY <2>3, <2>4, <2>5, <2>6 DEF ReasonsCompatible, nested
<1> QED
  BY <1>1, SearchInvariant, PTL
=============================================================================
