---------------------------- MODULE RankingProofs ----------------------------
(***************************************************************************)
(* Dijkstra's search is right wherever no edge has a negative cost, under  *)
(* every policy and on every snapshot, whatever call makes the search: the *)
(* path it reports is a route, no route costs less, and it gives up only   *)
(* when there is no route. Free edges are not excluded, so the cost alone  *)
(* does not order the tree: as for shortest_path, the invariant says that  *)
(* depths exist. A ranking holds the right candidates at the right prices  *)
(* in the right order. The breakdown of a path's cost adds up to the cost  *)
(* it was chosen by, with negative costs too, unless an edge was guarded.  *)
(***************************************************************************)
EXTENDS Ranking, GraphLemmas

-----------------------------------------------------------------------------
(* The inductive invariant, on explicit arguments: besides those of Tree,   *)
(* the destination t, the queue Q, and the cost K[u][i] of edge i from u.   *)
(* L[v] is the least cost known for v, so V is the domain of L.             *)

\* The costs add up along the tree.
Costed(s, V, P, E, L, K) ==
  /\ L \in [V -> Nat]
  /\ L[s] = 0
  /\ \A v \in V \ {s} : L[v] = L[P[v]] + K[P[v]][E[v]]

\* Nothing can be gained by an edge from v.
Final(g, V, L, K, v) ==
  \A i, x : Joins(g, FALSE, i, v, x) => x \in V /\ L[x] <= L[v] + K[v][i] /\ K[v][i] \in Nat

\* A node without a current entry in the queue is settled: it is not the
\* destination, costs no more than what is still queued, and is final.
Settled(Q, L, v) == <<L[v], v>> \notin Q

Queue(g, s, t, V, P, L, Q, K) ==
  /\ Q \subseteq Nat \X V
  /\ \A o \in Q : L[o[2]] <= o[1]
  /\ \A v \in V \ {s} : Settled(Q, L, P[v])
  /\ \A v \in V : Settled(Q, L, v) =>
       /\ v # t
       /\ \A o \in Q : L[v] <= o[1]
       /\ Final(g, V, L, K, v)

Dijkstra(g, s, t, V, P, E, L, Q, K) ==
  /\ \E d : Tree(g, FALSE, s, V, P, E, d)
  /\ Costed(s, V, P, E, L, K)
  /\ Queue(g, s, t, V, P, L, Q, K)

\* Relaxing the edges of u at cost m improves D: a new label, parent and edge
\* each, and new entries of the queue.
Relaxes(g, V, P, E, L, K, m, u, D, P1, E1, L1, New) ==
  /\ L1 \in [V \cup D -> Nat] /\ DOMAIN P1 = DOMAIN P \cup D /\ DOMAIN E1 = DOMAIN E \cup D
  /\ \A v \in V \ D : L1[v] = L[v]
  /\ \A v \in DOMAIN P \ D : P1[v] = P[v]
  /\ \A v \in DOMAIN E \ D : E1[v] = E[v]
  /\ \A v \in D :
       /\ P1[v] = u
       /\ Joins(g, FALSE, E1[v], u, v)
       /\ L1[v] = m + K[u][E1[v]]
       /\ K[u][E1[v]] \in Nat
       /\ v \in V => L1[v] < L[v]
       /\ <<L1[v], v>> \in New
  /\ New \subseteq Nat \X D
  /\ \A o \in New : L1[o[2]] <= o[1]
  /\ \A i, x : Joins(g, FALSE, i, u, x) =>
       x \in V \cup D /\ L1[x] <= m + K[u][i] /\ K[u][i] \in Nat

-----------------------------------------------------------------------------
(* The search.                                                             *)

\* Settling the cheapest entry keeps the invariant.
LEMMA SettleKeeps ==
  ASSUME NEW g, NEW s, NEW t, NEW V, NEW P, NEW E, NEW L, NEW Q, NEW K,
         Dijkstra(g, s, t, V, P, E, L, Q, K),
         NEW m, NEW u, <<m, u>> \in Q, \A o \in Q : m <= o[1], m <= L[u], u # t,
         NEW D, NEW P1, NEW E1, NEW L1, NEW New,
         Relaxes(g, V, P, E, L, K, m, u, D, P1, E1, L1, New)
  PROVE  Dijkstra(g, s, t, V \cup D, P1, E1, L1, (Q \ {<<m, u>>}) \cup New, K)
<1> DEFINE W == V \cup D
           Q1 == (Q \ {<<m, u>>}) \cup New
<1>1. PICK d : Tree(g, FALSE, s, V, P, E, d)
  BY DEF Dijkstra
<1>2. Costed(s, V, P, E, L, K) /\ Queue(g, s, t, V, P, L, Q, K)
  BY DEF Dijkstra
<1>3. u \in V /\ m \in Nat /\ L[u] = m /\ \A v \in V : L[v] \in Nat
  <2>1. u \in V /\ m \in Nat
    BY <1>2 DEF Queue
  <2>2. L[u] <= m
    BY <1>2 DEF Queue
  <2>3. \A v \in V : L[v] \in Nat
    BY <1>2 DEF Costed
  <2>4. L[u] = m
    BY <2>1, <2>2, <2>3
  <2> QED
    BY <2>1, <2>3, <2>4
<1>4. ASSUME NEW v \in D
      PROVE  L1[v] \in Nat /\ m <= L1[v] /\ (v \in V => L1[v] < L[v])
  <2> DEFINE k == K[u][E1[v]]
  <2>1. L1[v] = m + k /\ k \in Nat /\ (v \in V => L1[v] < L[v])
    BY DEF Relaxes
  <2> HIDE DEF k
  <2> QED
    BY <1>3, <2>1
<1>5. ASSUME NEW v \in V, Settled(Q, L, v) PROVE v \notin D /\ L[v] <= m /\ L1[v] = L[v]
  <2>1. L[v] <= m
    BY <1>2, <1>5 DEF Queue
  <2>2. v \notin D
    BY <1>3, <1>4, <2>1
  <2> QED
    BY <2>1, <2>2 DEF Relaxes
<1>6. u \notin D /\ L1[u] = m
  <2>1. u \notin D
    BY <1>3, <1>4
  <2> QED
    BY <1>3, <2>1 DEF Relaxes
<1>7. s \in V /\ s \notin D /\ L1[s] = 0
  <2>1. s \in V /\ L[s] = 0
    BY <1>1, <1>2 DEF Tree, Costed
  <2>2. s \notin D
    BY <1>4, <2>1
  <2> QED
    BY <2>1, <2>2 DEF Relaxes
<1>8. ASSUME NEW v \in V PROVE L1[v] \in Nat /\ L1[v] <= L[v]
  <2>1. CASE v \in D
    BY <1>3, <1>4, <2>1
  <2>2. CASE v \notin D
    <3>1. L1[v] = L[v]
      BY <2>2 DEF Relaxes
    <3> QED
      BY <1>3, <3>1
  <2> QED
    BY <2>1, <2>2
<1>9. ASSUME NEW v \in W
      PROVE  Settled(Q1, L1, v) <=> v \in V /\ v \notin D /\ (Settled(Q, L, v) \/ v = u)
  <2>1. CASE v \in D
    BY <2>1 DEF Settled, Relaxes
  <2>2. CASE v \notin D
    <3>1. v \in V /\ L1[v] = L[v] /\ <<L[v], v>> \notin New
      BY <2>2 DEF Relaxes
    <3>2. <<L[v], v>> = <<m, u>> <=> v = u
      BY <1>3, <3>1
    <3> QED
      BY <2>2, <3>1, <3>2 DEF Settled
  <2> QED
    BY <2>1, <2>2
<1>10. ASSUME NEW v \in W \ {s}
       PROVE  \/ v \in D /\ P1[v] = u
              \/ /\ v \in V /\ v \notin D /\ P1[v] = P[v] /\ E1[v] = E[v]
                 /\ P[v] \in V /\ P[v] \notin D /\ Settled(Q, L, P[v])
  <2>1. CASE v \in D
    BY <2>1 DEF Relaxes
  <2>2. CASE v \notin D
    <3>1. v \in V \ {s} /\ P1[v] = P[v] /\ E1[v] = E[v] /\ P[v] \in V
      BY <1>1, <2>2 DEF Tree, Relaxes
    <3>2. Settled(Q, L, P[v])
      BY <1>2, <3>1 DEF Queue
    <3> QED
      BY <1>5, <2>2, <3>1, <3>2
  <2> QED
    BY <2>1, <2>2
<1>11. \E e : Tree(g, FALSE, s, W, P1, E1, e)
  <2> DEFINE e == [v \in W |-> IF v \in D THEN d[u] + 1 ELSE d[v]]
  <2>1. \A v \in V : d[v] \in Nat
    BY <1>1 DEF Tree
  <2>2. e \in [W -> Nat] /\ \A v \in W : e[v] = IF v \in D THEN d[u] + 1 ELSE d[v]
    BY <1>3, <2>1
  <2> HIDE DEF e
  <2>3. s \in W /\ e[s] = 0 /\ DOMAIN P1 = W \ {s} /\ DOMAIN E1 = W \ {s}
    <3>1. d[s] = 0 /\ DOMAIN P = V \ {s} /\ DOMAIN E = V \ {s}
      BY <1>1 DEF Tree
    <3>2. DOMAIN P1 = DOMAIN P \cup D /\ DOMAIN E1 = DOMAIN E \cup D
      BY DEF Relaxes
    <3> QED
      BY <1>7, <2>2, <3>1, <3>2
  <2>4. ASSUME NEW v \in W \ {s}
        PROVE  P1[v] \in W /\ Joins(g, FALSE, E1[v], P1[v], v) /\ e[v] = e[P1[v]] + 1
    <3>1. CASE v \in D /\ P1[v] = u
      BY <1>3, <1>6, <2>2, <3>1 DEF Relaxes
    <3>2. CASE /\ v \in V /\ v \notin D /\ P1[v] = P[v] /\ E1[v] = E[v]
               /\ P[v] \in V /\ P[v] \notin D
      <4>1. Joins(g, FALSE, E[v], P[v], v) /\ d[v] = d[P[v]] + 1
        BY <1>1, <3>2 DEF Tree
      <4> QED
        BY <2>2, <3>2, <4>1
    <3> QED
      BY <1>10, <3>1, <3>2
  <2>5. Tree(g, FALSE, s, W, P1, E1, e)
    BY <2>2, <2>3, <2>4 DEF Tree
  <2> QED
    BY <2>5
<1>12. Costed(s, W, P1, E1, L1, K)
  <2>1. L1 \in [W -> Nat]
    BY DEF Relaxes
  <2>2. ASSUME NEW v \in W \ {s} PROVE L1[v] = L1[P1[v]] + K[P1[v]][E1[v]]
    <3>1. CASE v \in D /\ P1[v] = u
      BY <1>6, <3>1 DEF Relaxes
    <3>2. CASE /\ v \in V /\ v \notin D /\ P1[v] = P[v] /\ E1[v] = E[v]
               /\ P[v] \in V /\ P[v] \notin D
      <4>1. L1[v] = L[v] /\ L1[P[v]] = L[P[v]]
        BY <3>2 DEF Relaxes
      <4>2. L[v] = L[P[v]] + K[P[v]][E[v]]
        BY <1>2, <3>2 DEF Costed
      <4> QED
        BY <3>2, <4>1, <4>2
    <3> QED
      BY <1>10, <3>1, <3>2
  <2> QED
    BY <1>7, <2>1, <2>2 DEF Costed
<1>13. Queue(g, s, t, W, P1, L1, Q1, K)
  <2>1. Q1 \subseteq Nat \X W
    BY <1>2 DEF Queue, Relaxes
  <2>2. ASSUME NEW o \in Q1 PROVE L1[o[2]] <= o[1] /\ m <= o[1] /\ o[1] \in Nat
    <3>1. CASE o \in New
      <4>1. o[2] \in D /\ L1[o[2]] <= o[1] /\ o[1] \in Nat
        BY <3>1 DEF Relaxes
      <4>2. L1[o[2]] \in Nat /\ m <= L1[o[2]]
        BY <1>4, <4>1
      <4> QED
        BY <1>3, <4>1, <4>2
    <3>2. CASE o \in Q
      <4>1. o[2] \in V /\ L[o[2]] <= o[1] /\ o[1] \in Nat
        BY <1>2, <3>2 DEF Queue
      <4>2. L1[o[2]] \in Nat /\ L1[o[2]] <= L[o[2]] /\ L[o[2]] \in Nat
        BY <1>3, <1>8, <4>1
      <4> QED
        BY <3>2, <4>1, <4>2
    <3> QED
      BY <3>1, <3>2
  <2>3. ASSUME NEW v \in W \ {s} PROVE Settled(Q1, L1, P1[v])
    <3>1. CASE v \in D /\ P1[v] = u
      BY <1>3, <1>6, <1>9, <3>1
    <3>2. CASE P1[v] = P[v] /\ P[v] \in V /\ P[v] \notin D /\ Settled(Q, L, P[v])
      BY <1>9, <3>2
    <3> QED
      BY <1>10, <3>1, <3>2
  <2>4. ASSUME NEW v \in W, Settled(Q1, L1, v)
        PROVE  v # t /\ (\A o \in Q1 : L1[v] <= o[1]) /\ Final(g, W, L1, K, v)
    <3>1. v \in V /\ v \notin D /\ (Settled(Q, L, v) \/ v = u)
      BY <1>9, <2>4
    <3>2. CASE v = u
      <4>1. Final(g, W, L1, K, u)
        BY <1>6 DEF Final, Relaxes
      <4> QED
        BY <1>6, <2>2, <3>2, <4>1
    <3>3. CASE Settled(Q, L, v)
      <4>1. L1[v] = L[v] /\ L[v] <= m /\ L[v] \in Nat
        BY <1>3, <1>5, <3>1, <3>3
      <4>2. v # t /\ Final(g, V, L, K, v)
        BY <1>2, <3>1, <3>3 DEF Queue
      <4>3. ASSUME NEW o \in Q1 PROVE L1[v] <= o[1]
        <5>1. m <= o[1] /\ o[1] \in Nat
          BY <2>2
        <5> QED
          BY <1>3, <4>1, <5>1
      <4>4. ASSUME NEW i, NEW x, Joins(g, FALSE, i, v, x)
            PROVE  x \in W /\ L1[x] <= L1[v] + K[v][i] /\ K[v][i] \in Nat
        <5>1. x \in V /\ L[x] <= L[v] + K[v][i] /\ K[v][i] \in Nat
          BY <4>2, <4>4 DEF Final
        <5>2. L1[x] <= L[x] /\ L1[x] \in Nat /\ L[x] \in Nat
          BY <1>3, <1>8, <5>1
        <5> QED
          <6> DEFINE k == K[v][i]
          <6> HIDE DEF k
          <6>1. L[x] <= L[v] + k /\ k \in Nat /\ x \in V
            BY <5>1 DEF k
          <6>2. L1[x] <= L1[v] + k
            BY <4>1, <5>2, <6>1
          <6> QED
            BY <6>1, <6>2 DEF k
      <4> QED
        BY <4>2, <4>3, <4>4 DEF Final
    <3> QED
      BY <3>1, <3>2, <3>3
  <2> QED
    BY <2>1, <2>2, <2>3, <2>4 DEF Queue
<1> QED
  BY <1>11, <1>12, <1>13 DEF Dijkstra

\* So does dropping an entry that is out of date.
LEMMA SkipKeeps ==
  ASSUME NEW g, NEW s, NEW t, NEW V, NEW P, NEW E, NEW L, NEW Q, NEW K,
         Dijkstra(g, s, t, V, P, E, L, Q, K), NEW m, NEW u, m # L[u]
  PROVE  Dijkstra(g, s, t, V, P, E, L, Q \ {<<m, u>>}, K)
<1>1. \A v \in V : Settled(Q \ {<<m, u>>}, L, v) <=> Settled(Q, L, v)
  BY DEF Settled
<1>2. \A v \in V \ {s} : P[v] \in V
  BY DEF Dijkstra, Tree
<1>3. Queue(g, s, t, V, P, L, Q \ {<<m, u>>}, K)
  BY <1>1, <1>2 DEF Dijkstra, Queue
<1> QED
  BY <1>3 DEF Dijkstra

\* What costs less than M is final.
FinalBelow(g, V, L, K, M) == \A v \in V : L[v] < M => Final(g, V, L, K, v)

\* Nothing cheaper than t is left to settle.
Optimal(g, s, t, V, P, E, L, K) ==
  /\ t \in V
  /\ Costed(s, V, P, E, L, K)
  /\ FinalBelow(g, V, L, K, L[t])

\* When the cheapest entry is one of the destination, the label is optimal.
LEMMA ArriveOptimal ==
  ASSUME NEW g, NEW s, NEW t, NEW V, NEW P, NEW E, NEW L, NEW Q, NEW K,
         Dijkstra(g, s, t, V, P, E, L, Q, K),
         NEW m, <<m, t>> \in Q, \A o \in Q : m <= o[1]
  PROVE  Optimal(g, s, t, V, P, E, L, K)
<1>1. Costed(s, V, P, E, L, K) /\ Queue(g, s, t, V, P, L, Q, K)
  BY DEF Dijkstra
<1>2. t \in V /\ m \in Nat /\ \A v \in V : L[v] \in Nat
  BY <1>1 DEF Queue, Costed
<1>3. L[t] = m
  <2>1. L[t] <= m
    BY <1>1 DEF Queue
  <2>2. <<L[t], t>> \in Q
    BY <1>1, <1>2 DEF Queue, Settled
  <2>3. m <= L[t]
    BY <2>2
  <2> QED
    BY <1>2, <2>1, <2>3
<1>4. ASSUME NEW v \in V, L[v] < L[t] PROVE Final(g, V, L, K, v)
  <2>1. <<L[v], v>> \notin Q
    <3> SUFFICES ASSUME <<L[v], v>> \in Q PROVE FALSE
      OBVIOUS
    <3>1. m <= L[v]
      OBVIOUS
    <3> QED
      BY <1>2, <1>3, <1>4, <3>1
  <2> QED
    BY <1>1, <2>1 DEF Queue, Settled
<1> QED
  BY <1>1, <1>2, <1>4 DEF Optimal, FinalBelow

-----------------------------------------------------------------------------
(* The cheapest routes. B[k] gives each node that is at most k edges away   *)
(* from s the least cost of a way of at most k edges.                       *)

Bests(g, s, N, K, B) ==
  /\ DOMAIN B[0] = {s} /\ B[0][s] = 0
  /\ \A k \in 1..N :
       /\ \A v : v \in DOMAIN B[k] <=>
            /\ v \in DOMAIN g.nodes
            /\ \/ v \in DOMAIN B[k - 1]
               \/ \E u \in DOMAIN B[k - 1], i \in Nat : Joins(g, FALSE, i, u, v)
       /\ \A v \in DOMAIN B[k] :
            /\ B[k][v] \in Nat
            /\ v \in DOMAIN B[k - 1] => B[k][v] <= B[k - 1][v]
            /\ \A u \in DOMAIN B[k - 1], i \in Nat :
                 Joins(g, FALSE, i, u, v) => B[k][v] <= B[k - 1][u] + K[u][i]
            /\ \/ v \in DOMAIN B[k - 1] /\ B[k][v] = B[k - 1][v]
               \/ \E u \in DOMAIN B[k - 1], i \in Nat :
                    Joins(g, FALSE, i, u, v) /\ B[k][v] = B[k - 1][u] + K[u][i]

\* No edge between nodes of g has a negative cost.
Priced(g, K) ==
  \A i \in Nat : \A u, v :
    Joins(g, FALSE, i, u, v) /\ {u, v} \subseteq DOMAIN g.nodes => K[u][i] \in Nat

\* No way to a node costs less than its label, unless it costs no less than M;
\* what costs less than M has been settled.
LEMMA LabelsLeast ==
  ASSUME NEW g, NEW s, NEW V, NEW L \in [V -> Nat], NEW K, NEW N \in Nat, NEW B, NEW M \in Nat,
         Bests(g, s, N, K, B), s \in V, L[s] = 0,
         FinalBelow(g, V, L, K, M), Priced(g, K), s \in DOMAIN g.nodes
  PROVE  \A k \in 0..N : \A v \in DOMAIN B[k] : M <= B[k][v] \/ (v \in V /\ L[v] <= B[k][v])
<1> DEFINE Bounded(k, v) == M <= B[k][v] \/ (v \in V /\ L[v] <= B[k][v])
           S == {k \in 0..N : ~ \A v \in DOMAIN B[k] : Bounded(k, v)}
<1> SUFFICES ASSUME S # {} PROVE FALSE
  OBVIOUS
<1>1. PICK k \in S : \A j \in S : k <= j
  <2>1. S \subseteq Nat
    OBVIOUS
  <2> HIDE DEF S
  <2> QED
    BY <2>1, LeastExists
<1>2. PICK v \in DOMAIN B[k] : ~Bounded(k, v)
  BY <1>1
<1>3. k # 0
  BY <1>2 DEF Bests
<1>4. k \in 1..N /\ k - 1 \in 0..N /\ ~(k <= k - 1)
  BY <1>1, <1>3
<1>5. \A x \in DOMAIN B[k - 1] : Bounded(k - 1, x)
  BY <1>1, <1>4
<1>6. \A x \in DOMAIN B[k - 1] : B[k - 1][x] \in Nat /\ x \in DOMAIN g.nodes
  <2>1. CASE k - 1 = 0
    BY <2>1 DEF Bests
  <2>2. CASE k - 1 # 0
    <3> DEFINE j == k - 1
    <3>1. j \in 1..N
      BY <1>4, <2>2
    <3> HIDE DEF j
    <3>2. \A x \in DOMAIN B[j] : B[j][x] \in Nat
      BY <3>1 DEF Bests
    <3>3. \A x \in DOMAIN B[j] : x \in DOMAIN g.nodes
      BY <3>1 DEF Bests
    <3> QED
      BY <3>2, <3>3 DEF j
  <2> QED
    BY <2>1, <2>2
<1>7. CASE v \in DOMAIN B[k - 1] /\ B[k][v] = B[k - 1][v]
  BY <1>2, <1>5, <1>7
<1>8. CASE \E u \in DOMAIN B[k - 1], i \in Nat :
             Joins(g, FALSE, i, u, v) /\ B[k][v] = B[k - 1][u] + K[u][i]
  <2>1. PICK u \in DOMAIN B[k - 1], i \in Nat :
          Joins(g, FALSE, i, u, v) /\ B[k][v] = B[k - 1][u] + K[u][i]
    BY <1>8
  <2> DEFINE c == K[u][i]
             b == B[k - 1][u]
  <2>0. v \in DOMAIN g.nodes
    BY <1>2, <1>4 DEF Bests
  <2>2. c \in Nat /\ b \in Nat /\ B[k][v] = b + c
    BY <1>6, <2>0, <2>1 DEF Priced
  <2>3. M <= b \/ (u \in V /\ L[u] <= b)
    BY <1>5
  <2>4. CASE M <= b
    <3> HIDE DEF b, c
    <3>1. M <= b + c
      BY <2>2, <2>4
    <3> QED
      BY <1>2, <2>2, <3>1
  <2>5. CASE b < M /\ u \in V /\ L[u] <= b
    <3>1. L[u] < M /\ L[u] \in Nat
      <4> HIDE DEF b
      <4> QED
        BY <2>2, <2>5
    <3>2. v \in V /\ L[v] <= L[u] + c
      BY <2>1, <2>5, <3>1 DEF Final, FinalBelow
    <3>3. L[v] \in Nat
      BY <3>2
    <3> HIDE DEF b, c
    <3>4. L[v] <= b + c
      BY <2>2, <2>5, <3>1, <3>2, <3>3
    <3> QED
      BY <1>2, <2>2, <3>2, <3>4
  <2>6. M <= b \/ b < M
    <3> HIDE DEF b
    <3> QED
      BY <2>2
  <2> QED
    BY <2>3, <2>4, <2>5, <2>6
<1>9. \/ v \in DOMAIN B[k - 1] /\ B[k][v] = B[k - 1][v]
      \/ \E u \in DOMAIN B[k - 1], i \in Nat :
           Joins(g, FALSE, i, u, v) /\ B[k][v] = B[k - 1][u] + K[u][i]
  BY <1>2, <1>4 DEF Bests
<1> QED
  BY <1>7, <1>8, <1>9

\* The cost along the tree is the cost of a way.
LEMMA LabelsReached ==
  ASSUME NEW g, NEW s, NEW V, NEW P, NEW E, NEW L, NEW K, NEW d, NEW N \in Nat, NEW B,
         Bests(g, s, N, K, B), Tree(g, FALSE, s, V, P, E, d), Costed(s, V, P, E, L, K),
         V \subseteq DOMAIN g.nodes, Priced(g, K)
  PROVE  \A k \in 0..N : \A v \in V : d[v] <= k => v \in DOMAIN B[k] /\ B[k][v] <= L[v]
<1> DEFINE Reached(k, v) == v \in DOMAIN B[k] /\ B[k][v] <= L[v]
           S == {k \in 0..N : ~ \A v \in V : d[v] <= k => Reached(k, v)}
<1> SUFFICES ASSUME S # {} PROVE FALSE
  OBVIOUS
<1>1. PICK k \in S : \A j \in S : k <= j
  <2>1. S \subseteq Nat
    OBVIOUS
  <2> HIDE DEF S
  <2> QED
    BY <2>1, LeastExists
<1>2. PICK v \in V : d[v] <= k /\ ~Reached(k, v)
  BY <1>1
<1>3. \A x \in V : d[x] \in Nat /\ L[x] \in Nat
  BY DEF Tree, Costed
<1>4. \A j \in 0..N : \A x \in DOMAIN B[j] : B[j][x] \in Nat
  <2> SUFFICES ASSUME NEW j \in 0..N, NEW x \in DOMAIN B[j] PROVE B[j][x] \in Nat
    OBVIOUS
  <2>1. CASE j = 0
    BY <2>1 DEF Bests
  <2>2. CASE j # 0
    <3>1. j \in 1..N
      BY <2>2
    <3> QED
      BY <3>1 DEF Bests
  <2> QED
    BY <2>1, <2>2
<1>5. CASE v = s
  <2>1. L[v] = 0 /\ d[v] = 0
    BY <1>5 DEF Tree, Costed
  <2>2. k # 0
    BY <1>2, <1>5, <2>1 DEF Bests
  <2>3. k \in 1..N /\ k - 1 \in 0..N /\ ~(k <= k - 1) /\ 0 <= k - 1
    BY <1>1, <2>2
  <2>4. Reached(k - 1, v)
    BY <1>1, <2>1, <2>3
  <2>5. v \in DOMAIN B[k] /\ B[k][v] <= B[k - 1][v]
    BY <2>3, <2>4 DEF Bests
  <2>6. B[k][v] \in Nat /\ B[k - 1][v] \in Nat /\ L[v] \in Nat
    BY <1>3, <1>4, <2>3, <2>4, <2>5
  <2>7. B[k][v] <= L[v]
    BY <2>4, <2>5, <2>6
  <2> QED
    BY <1>2, <2>5, <2>7
<1>6. CASE v # s
  <2> DEFINE u == P[v]
             i == E[v]
             c == K[u][i]
  <2>1. u \in V /\ Joins(g, FALSE, i, u, v) /\ d[v] = d[u] + 1 /\ i \in Nat
    BY <1>6 DEF Tree, Joins, Positions
  <2>2. L[v] = L[u] + c
    BY <1>6 DEF Costed
  <2>3. c \in Nat
    BY <2>1 DEF Priced
  <2>4. k \in 1..N /\ k - 1 \in 0..N /\ ~(k <= k - 1) /\ d[u] <= k - 1
    BY <1>1, <1>2, <1>3, <2>1
  <2>5. Reached(k - 1, u)
    BY <1>1, <2>1, <2>4
  <2>6. v \in DOMAIN B[k] /\ B[k][v] <= B[k - 1][u] + c
    BY <2>1, <2>4, <2>5 DEF Bests
  <2>7. B[k][v] \in Nat /\ B[k - 1][u] \in Nat /\ L[u] \in Nat
    BY <1>3, <1>4, <2>1, <2>4, <2>5, <2>6
  <2> HIDE DEF c
  <2>8. B[k][v] <= L[v]
    BY <2>2, <2>3, <2>5, <2>6, <2>7
  <2> QED
    BY <1>2, <2>6, <2>8
<1> QED
  BY <1>5, <1>6

-----------------------------------------------------------------------------
(* The operators of the model.                                             *)

\* The costs of all edges from all nodes.
Costs == [u \in DOMAIN graph.nodes |-> [i \in Positions(graph.edges) |-> Cost(i, u)]]

\* What RequestsAssumption says of a snapshot.
Measured(g) ==
  /\ IsFiniteSet(DOMAIN g.nodes) /\ DOMAIN g.nodes \subseteq Nat
  /\ IsFiniteSet(DOMAIN g.edges)
  /\ \A i \in Positions(g.edges) :
       {g.edges[i].latency, g.edges[i].bandwidth} \subseteq Double \cup {Unknown}

\* Sums and products of doubles.
LEMMA PlusIs ==
  ASSUME NEW a \in Double, NEW b \in Double
  PROVE  /\ a ++ b \in Double
         /\ a ++ b = NaN <=> a = NaN \/ b = NaN
         /\ a # NaN /\ b # NaN => a ++ b = a + b /\ a \in Int /\ b \in Int
<1>1. a ++ b = IF NaN \in {a, b} THEN NaN ELSE a + b
  <2> DEFINE p == <<a, b>>
  <2>1. p \in Double \X Double /\ p[1] = a /\ p[2] = b
    OBVIOUS
  <2>2. Plus = [x \in Double \X Double |-> IF NaN \in {x[1], x[2]} THEN NaN ELSE x[1] + x[2]]
    BY DEF Plus
  <2>3. a ++ b = Plus[p]
    BY Zenon DEF ++
  <2> HIDE DEF p
  <2> QED
    BY <2>1, <2>2, <2>3
<1>2. a # NaN /\ b # NaN => a \in Int /\ b \in Int /\ a + b \in Int /\ a + b # NaN
  BY NumbersAssumption DEF Double
<1> QED
  BY <1>1, <1>2 DEF Double

LEMMA TimesIs ==
  ASSUME NEW a \in Double, NEW b \in Double
  PROVE  a ** b \in Double
<1>1. a ** b = IF NaN \in {a, b} THEN NaN ELSE a * b
  <2> DEFINE p == <<a, b>>
  <2>1. p \in Double \X Double /\ p[1] = a /\ p[2] = b
    OBVIOUS
  <2>2. Times = [x \in Double \X Double |-> IF NaN \in {x[1], x[2]} THEN NaN ELSE x[1] * x[2]]
    BY DEF Times
  <2>3. a ** b = Times[p]
    BY Zenon DEF **
  <2> HIDE DEF p
  <2> QED
    BY <2>1, <2>2, <2>3
<1>2. a # NaN /\ b # NaN => a \in Int /\ b \in Int
  BY DEF Double
<1>3. \A x, y \in Int : x * y \in Int
  OBVIOUS
<1> QED
  BY <1>1, <1>2, <1>3 DEF Double

\* The sum of the terms of a breakdown, in the order of the search's sum.
Total(b) ==
     b["hop"] ++ b["latency"] ++ b["bandwidth"] ++ b["bridge"]
  ++ b["root"] ++ b["transition"] ++ b["uncertainty"] ++ b["policy"]

\* The same for integers.
IntTotal(b) ==
    b["hop"] + b["latency"] + b["bandwidth"] + b["bridge"]
  + b["root"] + b["transition"] + b["uncertainty"] + b["policy"]

\* A total is NaN if a term is, and the sum of integers otherwise.
LEMMA TotalIs ==
  ASSUME NEW b, \A t \in Terms : b[t] \in Double
  PROVE  /\ Total(b) \in Double
         /\ Total(b) = NaN <=> \E t \in Terms : b[t] = NaN
         /\ Total(b) # NaN =>
              /\ Total(b) = IntTotal(b) /\ Total(b) \in Int
              /\ \A t \in Terms : b[t] \in Int
<1> DEFINE c1 == b["hop"]
           c2 == b["latency"]
           c3 == b["bandwidth"]
           c4 == b["bridge"]
           c5 == b["root"]
           c6 == b["transition"]
           c7 == b["uncertainty"]
           c8 == b["policy"]
           s2 == c1 ++ c2
           s3 == s2 ++ c3
           s4 == s3 ++ c4
           s5 == s4 ++ c5
           s6 == s5 ++ c6
           s7 == s6 ++ c7
           s8 == s7 ++ c8
<1>1. /\ c1 \in Double /\ c2 \in Double /\ c3 \in Double /\ c4 \in Double
      /\ c5 \in Double /\ c6 \in Double /\ c7 \in Double /\ c8 \in Double
  BY DEF Terms
<1>2. Total(b) = s8
  BY Zenon DEF Total
<1>3. IntTotal(b) = c1 + c2 + c3 + c4 + c5 + c6 + c7 + c8
  BY Zenon DEF IntTotal
<1>4. \A t \in Terms : b[t] \in {c1, c2, c3, c4, c5, c6, c7, c8}
  BY DEF Terms
<1>5. \E t \in Terms : b[t] = NaN
        <=> \/ c1 = NaN \/ c2 = NaN \/ c3 = NaN \/ c4 = NaN
            \/ c5 = NaN \/ c6 = NaN \/ c7 = NaN \/ c8 = NaN
  BY DEF Terms
<1> HIDE DEF c1, c2, c3, c4, c5, c6, c7, c8
<1>6. s2 \in Double /\ (s2 = NaN <=> c1 = NaN \/ c2 = NaN) /\ (s2 # NaN => s2 = c1 + c2)
  BY <1>1, PlusIs
<1> HIDE DEF s2
<1>7. s3 \in Double /\ (s3 = NaN <=> s2 = NaN \/ c3 = NaN) /\ (s3 # NaN => s3 = s2 + c3)
  BY <1>1, <1>6, PlusIs
<1> HIDE DEF s3
<1>8. s4 \in Double /\ (s4 = NaN <=> s3 = NaN \/ c4 = NaN) /\ (s4 # NaN => s4 = s3 + c4)
  BY <1>1, <1>7, PlusIs
<1> HIDE DEF s4
<1>9. s5 \in Double /\ (s5 = NaN <=> s4 = NaN \/ c5 = NaN) /\ (s5 # NaN => s5 = s4 + c5)
  BY <1>1, <1>8, PlusIs
<1> HIDE DEF s5
<1>10. s6 \in Double /\ (s6 = NaN <=> s5 = NaN \/ c6 = NaN) /\ (s6 # NaN => s6 = s5 + c6)
  BY <1>1, <1>9, PlusIs
<1> HIDE DEF s6
<1>11. s7 \in Double /\ (s7 = NaN <=> s6 = NaN \/ c7 = NaN) /\ (s7 # NaN => s7 = s6 + c7)
  BY <1>1, <1>10, PlusIs
<1> HIDE DEF s7
<1>12. s8 \in Double /\ (s8 = NaN <=> s7 = NaN \/ c8 = NaN) /\ (s8 # NaN => s8 = s7 + c8)
  BY <1>1, <1>11, PlusIs
<1> HIDE DEF s8
<1>13. s8 = NaN <=> \/ c1 = NaN \/ c2 = NaN \/ c3 = NaN \/ c4 = NaN
                    \/ c5 = NaN \/ c6 = NaN \/ c7 = NaN \/ c8 = NaN
  BY <1>6, <1>7, <1>8, <1>9, <1>10, <1>11, <1>12
<1>14. s8 # NaN => s8 = c1 + c2 + c3 + c4 + c5 + c6 + c7 + c8
  BY <1>6, <1>7, <1>8, <1>9, <1>10, <1>11, <1>12
<1>15. s8 # NaN => s8 \in Int
  BY <1>12 DEF Double
<1>16. s8 # NaN => \A x \in {c1, c2, c3, c4, c5, c6, c7, c8} : x \in Int
  BY <1>1, <1>13 DEF Double
<1> QED
  BY <1>2, <1>3, <1>4, <1>5, <1>12, <1>13, <1>14, <1>15, <1>16

\* Totals of integers add up term by term.
LEMMA TotalsAdd ==
  ASSUME NEW a, NEW b, NEW c, \A t \in Terms : a[t] \in Int /\ b[t] \in Int /\ c[t] = a[t] + b[t]
  PROVE  IntTotal(c) = IntTotal(a) + IntTotal(b)
<1> DEFINE A(t) == a[t]
           B(t) == b[t]
           C(t) == c[t]
<1>1. /\ A("hop") \in Int /\ A("latency") \in Int /\ A("bandwidth") \in Int
      /\ A("bridge") \in Int /\ A("root") \in Int /\ A("transition") \in Int
      /\ A("uncertainty") \in Int /\ A("policy") \in Int
  BY DEF Terms
<1>2. /\ B("hop") \in Int /\ B("latency") \in Int /\ B("bandwidth") \in Int
      /\ B("bridge") \in Int /\ B("root") \in Int /\ B("transition") \in Int
      /\ B("uncertainty") \in Int /\ B("policy") \in Int
  BY DEF Terms
<1>3. /\ C("hop") = A("hop") + B("hop") /\ C("latency") = A("latency") + B("latency")
      /\ C("bandwidth") = A("bandwidth") + B("bandwidth")
      /\ C("bridge") = A("bridge") + B("bridge") /\ C("root") = A("root") + B("root")
      /\ C("transition") = A("transition") + B("transition")
      /\ C("uncertainty") = A("uncertainty") + B("uncertainty")
      /\ C("policy") = A("policy") + B("policy")
  BY DEF Terms
<1>4. /\ IntTotal(a) = A("hop") + A("latency") + A("bandwidth") + A("bridge")
                       + A("root") + A("transition") + A("uncertainty") + A("policy")
      /\ IntTotal(b) = B("hop") + B("latency") + B("bandwidth") + B("bridge")
                       + B("root") + B("transition") + B("uncertainty") + B("policy")
      /\ IntTotal(c) = C("hop") + C("latency") + C("bandwidth") + C("bridge")
                       + C("root") + C("transition") + C("uncertainty") + C("policy")
  BY Zenon DEF IntTotal
<1> HIDE DEF A, B, C
<1> QED
  BY <1>1, <1>2, <1>3, <1>4

\* The terms of one segment are doubles, and add up to its cost before the guard.
LEMMA TermsAddUp ==
  ASSUME w \in Weights, Measured(graph), NEW i \in Positions(graph.edges), NEW a, NEW v,
         NEW more, more = accumulate(a, v, graph.edges[i])
  PROVE  /\ \A t \in Terms : more[t] \in Double
         /\ UnguardedCost(a, v, graph.edges[i]) = Total(more)
<1> DEFINE e == graph.edges[i]
<1>1. /\ w.hop_penalty \in Double /\ w.pci_bridge_penalty \in Double
      /\ w.root_crossing_penalty \in Double /\ w.latency_ns_weight \in Double
      /\ w.bandwidth_scale \in Double /\ w.bandwidth_ref_bps \in Double
      /\ w.uncertainty_penalty \in Double /\ w.policy_penalty \in Double
      /\ w.node_transition_penalty \in Double
  BY WeightsAssumption DEF WeightNames
<1>2. e.latency \in Double \cup {Unknown} /\ e.bandwidth \in Double \cup {Unknown}
  BY DEF Measured
<1>3. default_latency_ns(v) \in Double /\ default_bandwidth_bps(v) \in Double
  BY DEF default_latency_ns, default_bandwidth_bps, Double
<1> HIDE DEF e
<1>4. LatencyTerm(v, e) \in Double
  <2> DEFINE l == IF e.latency = Unknown THEN default_latency_ns(v) ELSE e.latency
  <2>1. l \in Double
    BY <1>2, <1>3
  <2>2. LatencyTerm(v, e) = w.latency_ns_weight ** l
    BY DEF LatencyTerm
  <2> HIDE DEF l
  <2> QED
    BY <1>1, <2>1, <2>2, TimesIs
<1>5. InverseBandwidthTerm(v, e) \in Double
  <2> DEFINE bw == IF e.bandwidth = Unknown THEN default_bandwidth_bps(v) ELSE e.bandwidth
             top == w.bandwidth_scale * w.bandwidth_ref_bps
  <2>1. bw \in Double
    BY <1>2, <1>3
  <2>2. InverseBandwidthTerm(v, e) =
          IF NaN \in {bw, w.bandwidth_ref_bps, w.bandwidth_scale} THEN NaN
          ELSE IF bw > 0 THEN top \div bw
          ELSE IF w.bandwidth_ref_bps = 0 THEN NaN ELSE w.bandwidth_scale
    BY DEF InverseBandwidthTerm
  <2> HIDE DEF bw
  <2>3. CASE NaN \in {bw, w.bandwidth_ref_bps, w.bandwidth_scale}
    BY <2>2, <2>3 DEF Double
  <2>4. CASE NaN \notin {bw, w.bandwidth_ref_bps, w.bandwidth_scale}
    <3>1. bw \in Int /\ w.bandwidth_ref_bps \in Int /\ w.bandwidth_scale \in Int
      BY <1>1, <2>1, <2>4 DEF Double
    <3>2. \A x, y \in Int : x * y \in Int
      OBVIOUS
    <3>3. top \in Int
      BY <3>1, <3>2
    <3> HIDE DEF top
    <3>4. bw > 0 => top \div bw \in Int
      BY <3>1, <3>3
    <3>5. InverseBandwidthTerm(v, e) \in {top \div bw, NaN, w.bandwidth_scale}
          /\ (InverseBandwidthTerm(v, e) = top \div bw => bw > 0 \/ top \div bw \in {NaN, w.bandwidth_scale})
      BY <2>2, <2>4
    <3> QED
      BY <3>1, <3>4, <3>5 DEF Double
  <2> QED
    BY <2>3, <2>4
<1>6. 0 \in Double
  BY DEF Double
<1>7. /\ When(v.type = "PCI_BRIDGE", w.pci_bridge_penalty) \in Double
      /\ When(v.type = "PCI_ROOT", w.root_crossing_penalty) \in Double
      /\ When(hardware_class(a.type) # hardware_class(v.type), w.node_transition_penalty) \in Double
      /\ When(e.conf \in {"LOW", "UNKNOWN"}, w.uncertainty_penalty) \in Double
  BY <1>1, <1>6 DEF When
<1>8. more = accumulate(a, v, e)
  BY DEF e
<1>9. /\ more["hop"] = w.hop_penalty /\ more["latency"] = LatencyTerm(v, e)
      /\ more["bandwidth"] = InverseBandwidthTerm(v, e)
      /\ more["bridge"] = When(v.type = "PCI_BRIDGE", w.pci_bridge_penalty)
      /\ more["root"] = When(v.type = "PCI_ROOT", w.root_crossing_penalty)
      /\ more["transition"] =
           When(hardware_class(a.type) # hardware_class(v.type), w.node_transition_penalty)
      /\ more["uncertainty"] = When(e.conf \in {"LOW", "UNKNOWN"}, w.uncertainty_penalty)
      /\ more["policy"] = w.policy_penalty
  BY <1>8 DEF accumulate
<1>10. \A t \in Terms : more[t] \in Double
  BY <1>1, <1>4, <1>5, <1>7, <1>9 DEF Terms
<1>11. UnguardedCost(a, v, e) = Total(more)
  BY <1>9, Zenon DEF UnguardedCost, Total
<1> QED
  BY <1>10, <1>11 DEF e

\* What an edge costs, whatever the guard had to do.
LEMMA CostInt ==
  ASSUME w \in Weights, Measured(graph), NEW i \in Positions(graph.edges), NEW u
  PROVE  Cost(i, u) \in Int
<1> DEFINE a == graph.nodes[u]
           v == graph.nodes[Neighbor(i, u)]
           more == accumulate(a, v, graph.edges[i])
           cost == UnguardedCost(a, v, graph.edges[i])
<1>1. Cost(i, u) = IF cost = NaN THEN DegenerateCost ELSE cost
  BY DEF Cost, edge_traversal_cost
<1> HIDE DEF a, v
<1>2. (\A t \in Terms : more[t] \in Double) /\ cost = Total(more)
  <2> HIDE DEF more
  <2> QED
    BY TermsAddUp DEF more
<1> HIDE DEF more, cost
<1>3. cost \in Double
  BY <1>2, TotalIs
<1> QED
  BY <1>1, <1>3, NumbersAssumption DEF Double

\* What NoNegativeEdge says of one edge.
LEMMA CostNat ==
  ASSUME NoNegativeEdge, NEW u \in DOMAIN graph.nodes, NEW i \in Adjacency(u, FALSE),
         Neighbor(i, u) \in DOMAIN graph.nodes
  PROVE  Cost(i, u) \in Nat
BY DEF NoNegativeEdge

\* What the model says with Adjacency and Neighbor, or with Links.
LEMMA JoinsIsAdjacent ==
  ASSUME NEW u, NEW v, NEW i
  PROVE  /\ Joins(graph, FALSE, i, u, v) <=> i \in Adjacency(u, FALSE) /\ Neighbor(i, u) = v
         /\ Joins(graph, FALSE, i, u, v) <=> i \in Links(u, v, FALSE)
<1> DEFINE e == graph.edges[i]
<1>1. {e.source, e.target} = {u, v}
        <=> /\ u \in {e.source, e.target}
            /\ v = IF e.source = u THEN e.target ELSE e.source
  OBVIOUS
<1> QED
  BY <1>1, Zenon DEF Joins, Adjacency, Neighbor, Links, traverse_edge, collocation_edge

\* The loop over the parallel edges to one neighbour: an edge improves if its
\* cost is good enough (in a set G that holds every lower cost too) and lower
\* than that of all before it. The last improvement is the cheapest edge.
LEMMA LastImprovement ==
  ASSUME NEW J, J \subseteq Nat, IsFiniteSet(J), NEW c \in [J -> Nat],
         NEW G \in SUBSET Nat, \A x \in G : \A y \in Nat : y <= x => y \in G
  PROVE  LET I == {i \in J : c[i] \in G /\ \A j \in J : j < i => c[i] < c[j]}
             l == CHOOSE i \in I : \A j \in I : j <= i
         IN  /\ I = {} => \A j \in J : c[j] \notin G
             /\ I # {} => l \in I /\ \A j \in J : c[l] <= c[j]
<1> DEFINE I == {i \in J : c[i] \in G /\ \A j \in J : j < i => c[i] < c[j]}
           l == CHOOSE i \in I : \A j \in I : j <= i
<1>1. ASSUME NEW g \in J, c[g] \in G
      PROVE  \E b \in I : \A j \in J : c[b] <= c[j]
  <2> DEFINE C == {c[j] : j \in J}
  <2>1. PICK x \in C : \A y \in C : x <= y
    <3>1. C \subseteq Nat /\ C # {}
      OBVIOUS
    <3> HIDE DEF C
    <3> QED
      BY <3>1, LeastExists
  <2> DEFINE H == {j \in J : c[j] = x}
  <2>2. PICK b \in H : \A j \in H : b <= j
    <3>1. H \subseteq Nat /\ H # {}
      BY <2>1
    <3> HIDE DEF H
    <3> QED
      BY <3>1, LeastExists
  <2>3. b \in J /\ c[b] = x /\ \A j \in J : c[b] <= c[j]
    BY <2>1, <2>2
  <2>4. c[b] \in G
    BY <1>1, <2>3
  <2>5. ASSUME NEW j \in J, j < b PROVE c[b] < c[j]
    <3>1. c[j] # x
      BY <2>2, <2>5
    <3>2. c[b] \in Nat /\ c[j] \in Nat /\ c[b] <= c[j]
      BY <2>3
    <3> QED
      BY <2>3, <3>1, <3>2
  <2> QED
    BY <2>3, <2>4, <2>5
<1>2. ASSUME I # {} PROVE l \in I /\ \A j \in J : c[l] <= c[j]
  <2>1. I \in SUBSET J /\ I \subseteq Nat
    OBVIOUS
  <2>2. PICK g \in I : TRUE
    BY <1>2
  <2>3. PICK b \in I : \A j \in J : c[b] <= c[j]
    BY <1>1, <2>2
  <2>4. l \in I /\ \A j \in I : j <= l
    <3> HIDE DEF I
    <3>1. IsFiniteSet(I)
      BY <2>1, FS_Subset
    <3>2. \E i \in I : \A j \in I : j <= i
      BY <1>2, <2>1, <3>1, FiniteGreatest
    <3> QED
      BY <3>2
  <2>5. b = l
    <3> HIDE DEF l
    <3>1. b \in J /\ l \in J /\ b \in Nat /\ l \in Nat /\ b <= l
      BY <2>3, <2>4
    <3>2. b < l => c[l] < c[b]
      BY <2>4, <3>1
    <3>3. c[b] <= c[l] /\ c[b] \in Nat /\ c[l] \in Nat
      BY <2>3, <3>1
    <3> QED
      BY <3>1, <3>2, <3>3
  <2> HIDE DEF l
  <2> QED
    BY <2>3, <2>4, <2>5
<1> HIDE DEF l
<1>3. I = {} => \A j \in J : c[j] \notin G
  BY <1>1
<1> HIDE DEF I
<1> QED
  BY <1>2, <1>3 DEF I, l

\* The edge each neighbour v of u ends up with, given that u costs m: the
\* cheapest to v, if that improves on what is known.
LEMMA RelaxedIs ==
  ASSUME NoNegativeEdge, Measured(graph), dist \in [DOMAIN dist -> Nat],
         NEW m \in Nat, NEW u \in DOMAIN graph.nodes,
         {Neighbor(i, u) : i \in Adjacency(u, FALSE)} \subseteq DOMAIN graph.nodes, NEW v
  PROVE  LET better == Improving(m, u)
             via == Relaxed(better, u)
             steps == {i \in Adjacency(u, FALSE) : Neighbor(i, u) = v}
         IN  /\ v \in DOMAIN via =>
                  /\ via[v] \in better /\ via[v] \in steps
                  /\ v \in DOMAIN dist => m + Cost(via[v], u) < dist[v]
                  /\ \A j \in steps : Cost(via[v], u) <= Cost(j, u)
             /\ v \notin DOMAIN via =>
                  \A j \in steps : v \in DOMAIN dist /\ dist[v] <= m + Cost(j, u)
             /\ \A i \in better : i \in Adjacency(u, FALSE) /\ Neighbor(i, u) \in DOMAIN via
<1> DEFINE better == Improving(m, u)
           via == Relaxed(better, u)
           J == {i \in Adjacency(u, FALSE) : Neighbor(i, u) = v}
           c == [i \in J |-> Cost(i, u)]
           G == {x \in Nat : v \in DOMAIN dist => m + x < dist[v]}
           I == {i \in better : Neighbor(i, u) = v}
           l == CHOOSE i \in I : \A j \in I : j <= i
<1>1. J \subseteq Nat /\ J \subseteq Positions(graph.edges) /\ J \in SUBSET DOMAIN graph.edges
  BY DEF Adjacency, Positions
<1>2. IsFiniteSet(J)
  <2> HIDE DEF J
  <2> QED
    BY <1>1, FS_Subset DEF Measured
<1>3. \A i \in J : Cost(i, u) \in Nat
  BY <1>1, CostNat
<1>4. c \in [J -> Nat]
  BY <1>3
<1>5. G \in SUBSET Nat /\ \A x \in G : \A y \in Nat : y <= x => y \in G
  <2> SUFFICES ASSUME NEW x \in G, NEW y \in Nat, y <= x, v \in DOMAIN dist PROVE m + y < dist[v]
    OBVIOUS
  <2>1. dist[v] \in Nat /\ m + x < dist[v] /\ x \in Nat
    OBVIOUS
  <2> QED
    BY <2>1
<1>6. I = {i \in J : c[i] \in G /\ \A j \in J : j < i => c[i] < c[j]}
  <2>1. better = {i \in Adjacency(u, FALSE) :
                    /\ Better(m + Cost(i, u), Neighbor(i, u))
                    /\ \A j \in Adjacency(u, FALSE) :
                         (j < i /\ Neighbor(j, u) = Neighbor(i, u)) => Cost(i, u) < Cost(j, u)}
    BY DEF Improving
  <2>2. \A i \in J : Better(m + Cost(i, u), Neighbor(i, u)) <=> c[i] \in G
    BY <1>3 DEF Better
  <2>3. \A i \in J : c[i] = Cost(i, u)
    OBVIOUS
  <2> HIDE DEF better, c, G
  <2> QED
    BY <2>1, <2>2, <2>3
<1>7. /\ I = {} => \A j \in J : c[j] \notin G
      /\ I # {} => l \in I /\ \A j \in J : c[l] <= c[j]
  <2> HIDE DEF J, c, G
  <2> DEFINE I1 == {i \in J : c[i] \in G /\ \A j \in J : j < i => c[i] < c[j]}
             l1 == CHOOSE i \in I1 : \A j \in I1 : j <= i
  <2>1. /\ I1 = {} => \A j \in J : c[j] \notin G
        /\ I1 # {} => l1 \in I1 /\ \A j \in J : c[l1] <= c[j]
    BY <1>1, <1>2, <1>4, <1>5, LastImprovement
  <2>2. I1 = I /\ l1 = l
    BY <1>6
  <2> HIDE DEF I, I1, l, l1
  <2> QED
    BY <2>1, <2>2
<1>8. DOMAIN via = {Neighbor(i, u) : i \in better} /\ (v \in DOMAIN via => via[v] = l)
  <2> HIDE DEF better
  <2> QED
    BY DEF Relaxed
<1>9. v \in DOMAIN via <=> I # {}
  BY <1>8
<1>10. \A i \in better : i \in Adjacency(u, FALSE)
  BY DEF Improving
<1> HIDE DEF via, l
<1>11. ASSUME v \in DOMAIN via
       PROVE  /\ via[v] \in better /\ via[v] \in J
              /\ v \in DOMAIN dist => m + Cost(via[v], u) < dist[v]
              /\ \A j \in J : Cost(via[v], u) <= Cost(j, u)
  <2>1. l \in I /\ via[v] = l /\ \A j \in J : c[l] <= c[j]
    BY <1>7, <1>8, <1>9, <1>11
  <2>2. l \in better /\ l \in J /\ c[l] \in G
    BY <1>6, <2>1
  <2> HIDE DEF better, J
  <2> QED
    BY <2>1, <2>2
<1>12. ASSUME v \notin DOMAIN via, NEW j \in J
       PROVE  v \in DOMAIN dist /\ dist[v] <= m + Cost(j, u)
  <2>1. c[j] \notin G /\ c[j] = Cost(j, u) /\ Cost(j, u) \in Nat
    BY <1>3, <1>7, <1>9, <1>12
  <2>2. v \in DOMAIN dist /\ ~(m + Cost(j, u) < dist[v])
    BY <2>1
  <2>3. dist[v] \in Nat
    BY <2>2
  <2> QED
    BY <2>1, <2>2, <2>3
<1>13. \A i \in better : i \in Adjacency(u, FALSE) /\ Neighbor(i, u) \in DOMAIN via
  BY <1>8, <1>10
<1> HIDE DEF better, J
<1> QED
  BY <1>11, <1>12, <1>13 DEF better, via, J

\* Settle relaxes the edges of the node it takes.
LEMMA SettleRelaxes ==
  ASSUME NoNegativeEdge, Measured(graph), dist \in [DOMAIN dist -> Nat],
         NEW m \in Nat, NEW u \in DOMAIN graph.nodes,
         {Neighbor(i, u) : i \in Adjacency(u, FALSE)} \subseteq DOMAIN graph.nodes,
         NEW better, better = Improving(m, u), NEW via, via = Relaxed(better, u),
         NEW L1, L1 = [v \in DOMAIN dist \cup DOMAIN via |->
                         IF v \in DOMAIN via THEN m + Cost(via[v], u) ELSE dist[v]],
         NEW P1, P1 = [v \in DOMAIN parent \cup DOMAIN via |->
                         IF v \in DOMAIN via THEN u ELSE parent[v]],
         NEW E1, E1 = [v \in DOMAIN came_edge \cup DOMAIN via |->
                         IF v \in DOMAIN via THEN via[v] ELSE came_edge[v]]
  PROVE  /\ Relaxes(graph, DOMAIN dist, parent, came_edge, dist, Costs, m, u, DOMAIN via, P1, E1, L1,
                    {<<m + Cost(i, u), Neighbor(i, u)>> : i \in better})
         /\ DOMAIN via \subseteq DOMAIN graph.nodes
<1> DEFINE V == DOMAIN dist
           D == DOMAIN via
           A == Adjacency(u, FALSE)
           New == {<<m + Cost(i, u), Neighbor(i, u)>> : i \in better}
<1>1. ASSUME NEW v \in D
      PROVE  /\ via[v] \in better /\ via[v] \in A /\ Neighbor(via[v], u) = v
             /\ v \in V => m + Cost(via[v], u) < dist[v]
             /\ \A j \in A : Neighbor(j, u) = v => Cost(via[v], u) <= Cost(j, u)
  BY RelaxedIs
<1>2. ASSUME NEW j \in A, Neighbor(j, u) \notin D
      PROVE  Neighbor(j, u) \in V /\ dist[Neighbor(j, u)] <= m + Cost(j, u)
  BY <1>2, RelaxedIs
<1>3. \A i \in better : i \in A /\ Neighbor(i, u) \in D
  BY RelaxedIs
<1>4. \A i \in A : Cost(i, u) \in Nat /\ i \in Positions(graph.edges)
  BY CostNat DEF Adjacency
<1>5. \A i \in A : Costs[u][i] = Cost(i, u)
  BY <1>4 DEF Costs
<1>6. D \subseteq DOMAIN graph.nodes
  BY <1>1
<1>7. /\ DOMAIN L1 = V \cup D
      /\ \A v \in D : L1[v] = m + Cost(via[v], u)
      /\ \A v \in V \ D : L1[v] = dist[v]
  OBVIOUS
<1>8. L1 \in [V \cup D -> Nat]
  <2>1. ASSUME NEW v \in D PROVE L1[v] \in Nat
    <3> DEFINE k == Cost(via[v], u)
    <3>1. k \in Nat
      BY <1>1, <1>4
    <3>2. L1[v] = m + k
      BY <1>7
    <3> HIDE DEF k
    <3> QED
      BY <3>1, <3>2
  <2>2. \A v \in V \ D : L1[v] \in Nat
    BY <1>7
  <2>3. \A v \in V \cup D : L1[v] \in Nat
    BY <2>1, <2>2
  <2>4. L1 = [v \in V \cup D |-> L1[v]]
    OBVIOUS
  <2> QED
    BY <2>3, <2>4
<1>9. ASSUME NEW v \in D
      PROVE  /\ P1[v] = u
             /\ Joins(graph, FALSE, E1[v], u, v)
             /\ L1[v] = m + Costs[u][E1[v]]
             /\ Costs[u][E1[v]] \in Nat
             /\ v \in V => L1[v] < dist[v]
             /\ <<L1[v], v>> \in New
  <2>1. P1[v] = u /\ E1[v] = via[v]
    OBVIOUS
  <2>2. Joins(graph, FALSE, via[v], u, v)
    BY <1>1, JoinsIsAdjacent
  <2>3. Costs[u][via[v]] = Cost(via[v], u) /\ Cost(via[v], u) \in Nat
    BY <1>1, <1>4, <1>5
  <2>4. <<L1[v], v>> \in New
    BY <1>1, <1>7
  <2> QED
    BY <1>1, <1>7, <2>1, <2>2, <2>3, <2>4
<1>10. New \subseteq Nat \X D /\ \A o \in New : L1[o[2]] <= o[1]
  <2> SUFFICES ASSUME NEW o \in New PROVE o \in Nat \X D /\ L1[o[2]] <= o[1]
    OBVIOUS
  <2>1. PICK i \in better : o = <<m + Cost(i, u), Neighbor(i, u)>>
    OBVIOUS
  <2> DEFINE v == Neighbor(i, u)
             b == Cost(i, u)
             k == Cost(via[v], u)
  <2>2. i \in A /\ v \in D /\ b \in Nat
    BY <1>3, <1>4
  <2>3. k <= b /\ k \in Nat /\ L1[v] = m + k
    BY <1>1, <1>4, <1>7, <2>2
  <2>4. o = <<m + b, v>>
    BY <2>1
  <2> HIDE DEF v, b, k
  <2>5. m + b \in Nat /\ m + k <= m + b
    BY <2>2, <2>3
  <2> QED
    BY <2>2, <2>3, <2>4, <2>5
<1>11. ASSUME NEW i, NEW x, Joins(graph, FALSE, i, u, x)
       PROVE  x \in V \cup D /\ L1[x] <= m + Costs[u][i] /\ Costs[u][i] \in Nat
  <2>1. i \in A /\ Neighbor(i, u) = x
    BY <1>11, JoinsIsAdjacent
  <2>2. Costs[u][i] = Cost(i, u) /\ Cost(i, u) \in Nat
    BY <1>4, <1>5, <2>1
  <2>3. CASE x \in D
    <3>1. Cost(via[x], u) <= Cost(i, u) /\ Cost(via[x], u) \in Nat /\ L1[x] = m + Cost(via[x], u)
      BY <1>1, <1>4, <1>7, <2>1, <2>3
    <3> QED
      BY <2>2, <2>3, <3>1
  <2>4. CASE x \notin D
    BY <1>2, <1>7, <2>1, <2>2, <2>4
  <2> QED
    BY <2>3, <2>4
<1>12. /\ DOMAIN P1 = DOMAIN parent \cup D /\ DOMAIN E1 = DOMAIN came_edge \cup D
       /\ \A v \in DOMAIN parent \ D : P1[v] = parent[v]
       /\ \A v \in DOMAIN came_edge \ D : E1[v] = came_edge[v]
  OBVIOUS
<1>13. Relaxes(graph, V, parent, came_edge, dist, Costs, m, u, D, P1, E1, L1, New)
  <2> HIDE DEF V, D, New
  <2> QED
    BY <1>7, <1>8, <1>9, <1>10, <1>11, <1>12 DEF Relaxes
<1> QED
  BY <1>6, <1>13

\* The top of the queue is an entry of it, and none is cheaper.
LEMMA TopIs ==
  ASSUME NEW V, V \subseteq Nat, pq \subseteq Nat \X V, pq # {}
  PROVE  /\ Top \in pq /\ Top = <<Top[1], Top[2]>>
         /\ \A o \in pq : Top[1] <= o[1]
<1> DEFINE Least(t) == \A o \in pq : t[1] < o[1] \/ (t[1] = o[1] /\ t[2] <= o[2])
           C == {o[1] : o \in pq}
<1>1. \A o \in pq : o[1] \in Nat /\ o[2] \in Nat /\ o = <<o[1], o[2]>>
  <2> SUFFICES ASSUME NEW o \in pq PROVE o[1] \in Nat /\ o[2] \in Nat /\ o = <<o[1], o[2]>>
    OBVIOUS
  <2>1. o \in Nat \X V
    OBVIOUS
  <2>2. o[1] \in Nat /\ o[2] \in V
    BY <2>1
  <2>3. o = <<o[1], o[2]>>
    BY <2>1
  <2> QED
    BY <2>2, <2>3
<1>2. PICK c \in C : \A x \in C : c <= x
  <2>1. C \subseteq Nat /\ C # {}
    BY <1>1
  <2> HIDE DEF C
  <2> QED
    BY <2>1, LeastExists
<1> DEFINE H == {o[2] : o \in {x \in pq : x[1] = c}}
<1>3. PICK h \in H : \A x \in H : h <= x
  <2>1. H \subseteq Nat /\ H # {}
    BY <1>1, <1>2
  <2> HIDE DEF H
  <2> QED
    BY <2>1, LeastExists
<1>4. PICK t \in pq : t[1] = c /\ t[2] = h
  BY <1>3
<1>5. Least(t)
  <2> SUFFICES ASSUME NEW o \in pq PROVE t[1] < o[1] \/ (t[1] = o[1] /\ t[2] <= o[2])
    OBVIOUS
  <2>1. c <= o[1] /\ c \in Nat /\ o[1] \in Nat
    BY <1>1, <1>2
  <2>2. o[1] = c => h <= o[2]
    BY <1>3
  <2> QED
    BY <1>4, <2>1, <2>2
<1>6. Top \in pq /\ Least(Top)
  <2>1. Top = CHOOSE x \in pq : Least(x)
    BY DEF Top
  <2> HIDE DEF Least
  <2> QED
    BY <1>4, <1>5, <2>1
<1>7. ASSUME NEW o \in pq PROVE Top[1] <= o[1]
  <2>1. Top[1] \in Nat /\ o[1] \in Nat
    BY <1>1, <1>6
  <2> QED
    BY <1>6, <2>1
<1> QED
  BY <1>1, <1>6, <1>7

-----------------------------------------------------------------------------
(* Cheapest, edge by edge.                                                 *)

\* The costs at which v is reached with one more edge than b allows, or none.
Ways(b, v) ==
  {b[u] : u \in DOMAIN b \cap {v}} \cup
  UNION {{b[u] + Cost(i, u) : i \in Links(u, v, FALSE)} : u \in DOMAIN b}

\* The least costs with one more edge.
Extended(b) ==
  [v \in {n \in DOMAIN graph.nodes : Ways(b, n) # {}} |->
     CHOOSE c \in Ways(b, v) : \A d \in Ways(b, v) : c <= d]

\* The costs of ways are natural, and a least one is a cost of a way.
LEMMA ExtendedIs ==
  ASSUME NoNegativeEdge, NEW S \in SUBSET DOMAIN graph.nodes, NEW b \in [S -> Nat]
  PROVE  /\ \A v \in DOMAIN graph.nodes : Ways(b, v) \subseteq Nat
         /\ DOMAIN Extended(b) = {n \in DOMAIN graph.nodes : Ways(b, n) # {}}
         /\ \A v \in DOMAIN Extended(b) :
              Extended(b)[v] \in Ways(b, v) /\ \A x \in Ways(b, v) : Extended(b)[v] <= x
         /\ Extended(b) \in [DOMAIN Extended(b) -> Nat]
<1>1. ASSUME NEW v \in DOMAIN graph.nodes PROVE Ways(b, v) \subseteq Nat
  <2> SUFFICES ASSUME NEW x \in Ways(b, v) PROVE x \in Nat
    OBVIOUS
  <2>1. CASE \E u \in DOMAIN b : x = b[u]
    BY <2>1
  <2>2. CASE \E u \in DOMAIN b : \E i \in Links(u, v, FALSE) : x = b[u] + Cost(i, u)
    <3>0. PICK u \in DOMAIN b : \E i \in Links(u, v, FALSE) : x = b[u] + Cost(i, u)
      BY <2>2
    <3>1. PICK i \in Links(u, v, FALSE) : x = b[u] + Cost(i, u)
      BY <3>0
    <3> DEFINE k == Cost(i, u)
    <3>2. u \in DOMAIN graph.nodes /\ i \in Adjacency(u, FALSE) /\ Neighbor(i, u) = v
      BY JoinsIsAdjacent
    <3>3. k \in Nat /\ b[u] \in Nat
      BY <3>2, CostNat
    <3> HIDE DEF k
    <3> QED
      BY <3>1, <3>3 DEF k
  <2> QED
    BY <2>1, <2>2 DEF Ways
<1> DEFINE X == Extended(b)
<1>2. DOMAIN X = {n \in DOMAIN graph.nodes : Ways(b, n) # {}}
  BY DEF Extended
<1>3. ASSUME NEW v \in DOMAIN X PROVE X[v] \in Ways(b, v) /\ \A x \in Ways(b, v) : X[v] <= x
  <2> DEFINE Y == Ways(b, v)
  <2>1. X[v] = CHOOSE c \in Y : \A d \in Y : c <= d
    BY DEF Extended
  <2>2. Y \subseteq Nat /\ Y # {}
    BY <1>1, <1>2
  <2> HIDE DEF Y, X
  <2>3. \E c \in Y : \A d \in Y : c <= d
    BY <2>2, LeastExists
  <2>4. X[v] \in Y /\ \A x \in Y : X[v] <= x
    BY <2>1, <2>3
  <2> QED
    BY <2>4 DEF Y
<1>4. ASSUME NEW v \in DOMAIN X PROVE X[v] \in Nat
  <2>1. v \in DOMAIN graph.nodes /\ X[v] \in Ways(b, v)
    BY <1>2, <1>3
  <2> HIDE DEF X
  <2> QED
    BY <1>1, <2>1
<1>5. X = [v \in DOMAIN X |-> X[v]]
  BY DEF Extended
<1> HIDE DEF X
<1>6. X \in [DOMAIN X -> Nat]
  BY <1>4, <1>5
<1> QED
  BY <1>1, <1>2, <1>3, <1>6 DEF X

\* Cheapest is what Number-of-nodes extensions make of the source alone.
LEMMA CheapestIterates ==
  ASSUME NoNegativeEdge, Measured(graph), from \in DOMAIN graph.nodes
  PROVE  LET N == Cardinality(DOMAIN graph.nodes)
             U == UNION {[S -> Nat] : S \in SUBSET DOMAIN graph.nodes}
         IN  /\ N \in Nat
             /\ \E B \in [0..N -> U] :
                  /\ Cheapest = B[N]
                  /\ B[0] = [v \in {from} |-> 0]
                  /\ \A k \in 1..N : B[k] = Extended(B[k - 1])
<1> DEFINE nodes == DOMAIN graph.nodes
           N == Cardinality(nodes)
           U == UNION {[S -> Nat] : S \in SUBSET nodes}
           x0 == [v \in {from} |-> 0]
           leastCost(S) == CHOOSE c \in S : \A d \in S : c <= d
           next(b) ==
             LET ways == [v \in nodes |->
                   {b[u] : u \in DOMAIN b \cap {v}} \cup
                   UNION {{b[u] + Cost(i, u) : i \in Links(u, v, FALSE)} : u \in DOMAIN b}]
             IN  [v \in {n \in nodes : ways[n] # {}} |-> leastCost(ways[v])]
           Is(f) == f = [k \in 0..N |-> IF k = 0 THEN x0 ELSE next(f[k - 1])]
           G == [b \in U |-> Extended(b)]
<1>1. N \in Nat
  BY FS_CardinalityType DEF Measured
<1>2. x0 \in U
  <2>1. {from} \in SUBSET nodes /\ x0 \in [{from} -> Nat]
    OBVIOUS
  <2> QED
    BY <2>1
<1>3. ASSUME NEW b PROVE next(b) = Extended(b)
  <2> DEFINE ways == [v \in nodes |-> Ways(b, v)]
  <2>1. next(b) = [v \in {n \in nodes : ways[n] # {}} |-> leastCost(ways[v])]
    BY Zenon DEF Ways
  <2>2. \A v \in nodes : ways[v] = Ways(b, v)
    OBVIOUS
  <2> HIDE DEF ways
  <2>3. {n \in nodes : ways[n] # {}} = {n \in nodes : Ways(b, n) # {}}
    BY <2>2
  <2>4. \A v \in {n \in nodes : Ways(b, n) # {}} :
          leastCost(ways[v]) = CHOOSE c \in Ways(b, v) : \A d \in Ways(b, v) : c <= d
    BY <2>2
  <2> HIDE DEF next, leastCost
  <2> QED
    BY <2>1, <2>3, <2>4 DEF Extended
<1>4. ASSUME NEW b \in U PROVE Extended(b) \in U
  <2>1. PICK S \in SUBSET nodes : b \in [S -> Nat]
    OBVIOUS
  <2> DEFINE X == Extended(b)
  <2>2. DOMAIN X \in SUBSET nodes /\ X \in [DOMAIN X -> Nat]
    BY <2>1, ExtendedIs
  <2> HIDE DEF X
  <2>3. X \in U
    BY <2>2
  <2> QED
    BY <2>3 DEF X
<1>5. G \in [U -> U]
  <2> HIDE DEF U
  <2> QED
    BY <1>4
<1>6. PICK f \in [0..N -> U] : Iterates(f, G, x0, N)
  <2> HIDE DEF G, U, N, x0
  <2> QED
    BY <1>1, <1>2, <1>5, IterExists
<1>7. \A k \in 1..N : f[k] = Extended(f[k - 1])
  <2> SUFFICES ASSUME NEW k \in 1..N PROVE f[k] = Extended(f[k - 1])
    OBVIOUS
  <2>1. k - 1 \in 0..N
    BY <1>1
  <2>2. f[k - 1] \in U
    BY <1>6, <2>1
  <2> HIDE DEF U
  <2> QED
    BY <1>6, <2>2 DEF Iterates
<1>8. Is(f)
  <2> HIDE DEF next, U, x0
  <2>1. \A k \in 0..N : f[k] = IF k = 0 THEN x0 ELSE next(f[k - 1])
    BY <1>1, <1>3, <1>6, <1>7 DEF Iterates
  <2> HIDE DEF N
  <2>2. f = [k \in 0..N |-> f[k]]
    BY <1>6
  <2> QED
    BY <2>1, <2>2
<1>9. \E B : Is(B) /\ Cheapest = B[N]
  <2> DEFINE B == CHOOSE g : Is(g)
  <2>1. Cheapest = B[N]
    BY DEF Cheapest
  <2> HIDE DEF Is, N
  <2>2. Is(B)
    BY <1>8
  <2> QED
    BY <2>1, <2>2
<1>10. PICK B : Is(B) /\ Cheapest = B[N]
  BY <1>9
<1>11. /\ B = [k \in 0..N |-> B[k]]
       /\ B[0] = x0
       /\ \A k \in 1..N : B[k] = Extended(B[k - 1])
  <2> HIDE DEF next, x0, N
  <2>1. B = [k \in 0..N |-> IF k = 0 THEN x0 ELSE next(B[k - 1])]
    BY <1>10
  <2>2. \A k \in 0..N : B[k] = IF k = 0 THEN x0 ELSE next(B[k - 1])
    BY <2>1, Zenon
  <2>3. 0 \in 0..N /\ \A k \in 1..N : k \in 0..N /\ k # 0
    BY <1>1
  <2>4. B[0] = x0 /\ \A k \in 1..N : B[k] = Extended(B[k - 1])
    BY <1>3, <2>2, <2>3
  <2>5. B = [k \in 0..N |-> B[k]]
    BY <2>1
  <2> QED
    BY <2>4, <2>5
<1> HIDE DEF x0, U, N
<1>12. \A k \in 0..N : B[k] \in U
  <2> DEFINE S == {k \in 0..N : B[k] \notin U}
  <2> SUFFICES ASSUME S # {} PROVE FALSE
    OBVIOUS
  <2>1. PICK k \in S : \A j \in S : k <= j
    <3>1. S \subseteq Nat
      OBVIOUS
    <3> HIDE DEF S
    <3> QED
      BY <3>1, LeastExists
  <2>2. k # 0
    BY <1>2, <1>11, <2>1
  <2>3. k \in 1..N /\ k - 1 \in 0..N /\ ~(k <= k - 1)
    BY <1>1, <2>1, <2>2
  <2>4. B[k - 1] \in U
    BY <2>1, <2>3
  <2>5. B[k] \in U
    BY <1>4, <1>11, <2>3, <2>4
  <2> QED
    BY <2>1, <2>5
<1>13. B \in [0..N -> U]
  BY <1>11, <1>12
<1> QED
  BY <1>1, <1>10, <1>11, <1>13 DEF x0, U, N

\* Cheapest, as LabelsLeast and LabelsReached use it.
LEMMA CheapestIsBest ==
  ASSUME NoNegativeEdge, Measured(graph), from \in DOMAIN graph.nodes
  PROVE  LET N == Cardinality(DOMAIN graph.nodes)
         IN  N \in Nat /\ \E B : Cheapest = B[N] /\ Bests(graph, from, N, Costs, B)
<1> DEFINE nodes == DOMAIN graph.nodes
           N == Cardinality(nodes)
           U == UNION {[S -> Nat] : S \in SUBSET nodes}
<1>1. /\ N \in Nat
      /\ \E B \in [0..N -> U] :
           /\ Cheapest = B[N]
           /\ B[0] = [v \in {from} |-> 0]
           /\ \A k \in 1..N : B[k] = Extended(B[k - 1])
  BY CheapestIterates
<1>2. PICK B \in [0..N -> U] :
        /\ Cheapest = B[N]
        /\ B[0] = [v \in {from} |-> 0]
        /\ \A k \in 1..N : B[k] = Extended(B[k - 1])
  BY <1>1
<1> HIDE DEF N
<1>3. ASSUME NEW k \in 1..N
      PROVE  /\ \A v : v \in DOMAIN B[k] <=>
                  /\ v \in DOMAIN graph.nodes
                  /\ \/ v \in DOMAIN B[k - 1]
                     \/ \E u \in DOMAIN B[k - 1], i \in Nat : Joins(graph, FALSE, i, u, v)
             /\ \A v \in DOMAIN B[k] :
                  /\ B[k][v] \in Nat
                  /\ v \in DOMAIN B[k - 1] => B[k][v] <= B[k - 1][v]
                  /\ \A u \in DOMAIN B[k - 1], i \in Nat :
                       Joins(graph, FALSE, i, u, v) => B[k][v] <= B[k - 1][u] + Costs[u][i]
                  /\ \/ v \in DOMAIN B[k - 1] /\ B[k][v] = B[k - 1][v]
                     \/ \E u \in DOMAIN B[k - 1], i \in Nat :
                          Joins(graph, FALSE, i, u, v) /\ B[k][v] = B[k - 1][u] + Costs[u][i]
  <2> DEFINE b == B[k - 1]
             X == B[k]
  <2>1. b \in U /\ X = Extended(b)
    <3>1. k - 1 \in 0..N
      BY <1>1
    <3> HIDE DEF U
    <3> QED
      BY <1>2, <3>1
  <2> HIDE DEF b, X
  <2>2. PICK S \in SUBSET nodes : b \in [S -> Nat]
    BY <2>1
  <2>3. /\ \A v \in nodes : Ways(b, v) \subseteq Nat
        /\ DOMAIN X = {n \in nodes : Ways(b, n) # {}}
        /\ \A v \in DOMAIN X : X[v] \in Ways(b, v) /\ \A x \in Ways(b, v) : X[v] <= x
    BY <2>1, <2>2, ExtendedIs
  <2>4. \A u \in DOMAIN b : \A i : \A v : Joins(graph, FALSE, i, u, v) =>
          /\ i \in Links(u, v, FALSE) /\ i \in Nat /\ Costs[u][i] = Cost(i, u)
    <3> SUFFICES ASSUME NEW u \in DOMAIN b, NEW i, NEW v, Joins(graph, FALSE, i, u, v)
                 PROVE  i \in Links(u, v, FALSE) /\ i \in Nat /\ Costs[u][i] = Cost(i, u)
      OBVIOUS
    <3>1. u \in nodes /\ i \in Positions(graph.edges) /\ i \in Nat
      BY <2>2 DEF Joins, Positions
    <3>2. i \in Links(u, v, FALSE)
      BY JoinsIsAdjacent
    <3> QED
      BY <3>1, <3>2 DEF Costs
  <2>5. ASSUME NEW v, NEW x
        PROVE  x \in Ways(b, v) <=>
                 \/ v \in DOMAIN b /\ x = b[v]
                 \/ \E u \in DOMAIN b, i \in Nat :
                      Joins(graph, FALSE, i, u, v) /\ x = b[u] + Costs[u][i]
    <3>1. x \in Ways(b, v) <=>
            \/ v \in DOMAIN b /\ x = b[v]
            \/ \E u \in DOMAIN b : \E i \in Links(u, v, FALSE) : x = b[u] + Cost(i, u)
      <4> DEFINE R(u) == {b[u] + Cost(i, u) : i \in Links(u, v, FALSE)}
      <4>1. x \in {b[u] : u \in DOMAIN b \cap {v}} <=> v \in DOMAIN b /\ x = b[v]
        BY Zenon
      <4>2. \A u : x \in R(u) <=> \E i \in Links(u, v, FALSE) : x = b[u] + Cost(i, u)
        OBVIOUS
      <4>3. x \in UNION {R(u) : u \in DOMAIN b} <=> \E u \in DOMAIN b : x \in R(u)
        <5> HIDE DEF R
        <5> QED
          OBVIOUS
      <4>4. Ways(b, v) = {b[u] : u \in DOMAIN b \cap {v}} \cup UNION {R(u) : u \in DOMAIN b}
        BY DEF Ways
      <4> HIDE DEF R
      <4> QED
        BY <4>1, <4>2, <4>3, <4>4
    <3>2. \A u \in DOMAIN b : \A i \in Links(u, v, FALSE) : Joins(graph, FALSE, i, u, v)
      BY JoinsIsAdjacent
    <3> QED
      BY <2>4, <3>1, <3>2
  <2>6. ASSUME NEW v
        PROVE  v \in DOMAIN X <=>
                  /\ v \in nodes
                  /\ \/ v \in DOMAIN b
                     \/ \E u \in DOMAIN b, i \in Nat : Joins(graph, FALSE, i, u, v)
    <3>1. v \in DOMAIN X <=> v \in nodes /\ \E x : x \in Ways(b, v)
      BY <2>3
    <3> QED
      BY <2>5, <3>1
  <2>7. ASSUME NEW v \in DOMAIN X
        PROVE  /\ X[v] \in Nat
               /\ v \in DOMAIN b => X[v] <= b[v]
               /\ \A u \in DOMAIN b, i \in Nat :
                    Joins(graph, FALSE, i, u, v) => X[v] <= b[u] + Costs[u][i]
               /\ \/ v \in DOMAIN b /\ X[v] = b[v]
                  \/ \E u \in DOMAIN b, i \in Nat :
                       Joins(graph, FALSE, i, u, v) /\ X[v] = b[u] + Costs[u][i]
    <3>1. X[v] \in Ways(b, v) /\ X[v] \in Nat /\ \A x \in Ways(b, v) : X[v] <= x
      BY <2>3
    <3>2. v \in DOMAIN b => b[v] \in Ways(b, v)
      BY <2>5
    <3>3. \A u \in DOMAIN b, i \in Nat :
            Joins(graph, FALSE, i, u, v) => b[u] + Costs[u][i] \in Ways(b, v)
      BY <2>5
    <3>4. \/ v \in DOMAIN b /\ X[v] = b[v]
          \/ \E u \in DOMAIN b, i \in Nat :
               Joins(graph, FALSE, i, u, v) /\ X[v] = b[u] + Costs[u][i]
      BY <2>5, <3>1
    <3> QED
      BY <3>1, <3>2, <3>3, <3>4
  <2> QED
    BY <2>6, <2>7 DEF b, X
<1>4. DOMAIN B[0] = {from} /\ B[0][from] = 0
  BY <1>2
<1>5. Bests(graph, from, N, Costs, B)
  BY <1>3, <1>4 DEF Bests
<1> QED
  BY <1>1, <1>2, <1>5 DEF N

-----------------------------------------------------------------------------
(* The inductive invariant of a call.                                      *)

\* The loop is running, or has run out of entries.
Searching ==
  /\ Searchable
  /\ segments = << >> /\ total_cost = 0
  /\ DOMAIN dist \subseteq DOMAIN graph.nodes
  /\ Dijkstra(graph, from, to, DOMAIN dist, parent, came_edge, dist, pq, Costs)

\* The destination was taken from the queue, and the walk back is at x.
Retracing(x) ==
  /\ Searchable
  /\ DOMAIN dist \subseteq DOMAIN graph.nodes
  /\ Optimal(graph, from, to, DOMAIN dist, parent, came_edge, dist, Costs)
  /\ \E d : /\ Tree(graph, FALSE, from, DOMAIN dist, parent, came_edge, d)
            /\ Trace(graph, FALSE, to, DOMAIN dist, d, x, segments)

CostInv ==
  /\ pc = "start" => parent = << >> /\ came_edge = << >> /\ segments = << >> /\ total_cost = 0
  /\ pc \in {"search", "no_route"} => Searching
  /\ pc = "no_route" => pq = {}
  /\ pc = "rebuild" =>
       Retracing(cur) /\ total_cost \in Nat /\ total_cost + dist[cur] = dist[to]
  /\ (pc = "found" /\ from # to) =>
       Retracing(from) /\ total_cost = dist[to] ++ NumaPenalty(from, to)

\* What the search leaves, with negative costs too, where the parents may form a
\* cycle: every label but the first has an edge from a node that has a label.
Grown(g, s, V, P, E, L, Q) ==
  /\ s \in V /\ V \subseteq DOMAIN g.nodes
  /\ L \in [V -> Int]
  /\ IsFiniteSet(Q) /\ Q \subseteq Int \X V
  /\ DOMAIN E = DOMAIN P /\ V \subseteq DOMAIN P \cup {s}
  /\ \A v \in DOMAIN P : P[v] \in V /\ Joins(g, FALSE, E[v], P[v], v)

\* The segments of a walk back.
Segments(g) == [from : DOMAIN g.nodes, to : DOMAIN g.nodes, edge : Nat]

\* They lie on the graph.
OnGraph(g, segs) ==
  /\ segs \in Seq(Segments(g))
  /\ \A k \in 1..Len(segs) : Joins(g, FALSE, segs[k].edge, segs[k].from, segs[k].to)

GrowInv ==
  /\ pc = "start" => parent = << >> /\ came_edge = << >>
  /\ pc \in {"start", "search"} => segments = << >>
  /\ pc \in {"search", "rebuild"} =>
       Searchable /\ Grown(graph, from, DOMAIN dist, parent, came_edge, dist, pq)
  /\ pc = "rebuild" => cur \in DOMAIN dist
  /\ pc \in {"rebuild", "found"} => OnGraph(graph, segments)

RankInv ==
  /\ request \in Requests
  /\ w \in Weights
  /\ query = [graph |-> request.graph, from |-> from, to |-> to]
  /\ stage = "cost" => GrowInv
  /\ (stage = "cost" /\ NoNegativeEdge) => CostInv

-----------------------------------------------------------------------------
(* What does not change during a search.                                   *)

LEMMA Stays ==
  ASSUME query' = query, w' = w
  PROVE  /\ graph' = graph /\ from' = from /\ to' = to
         /\ Searchable' = Searchable
         /\ Costs' = Costs
         /\ NumaPenalty(from, to)' = NumaPenalty(from, to)
         /\ NoNegativeEdge' <=> NoNegativeEdge
<1>1. graph' = graph /\ from' = from /\ to' = to
  BY DEF graph, from, to
<1>2. Searchable' = Searchable
  BY <1>1 DEF Searchable
<1>3. \A i, u : Cost(i, u)' = Cost(i, u)
  BY <1>1 DEF Cost, Neighbor, edge_traversal_cost, UnguardedCost, LatencyTerm,
         InverseBandwidthTerm
<1>4. Costs' = Costs
  BY <1>1, <1>3 DEF Costs
<1>5. NumaPenalty(from, to)' = NumaPenalty(from, to)
  BY <1>1 DEF NumaPenalty
<1>6. NoNegativeEdge' <=> NoNegativeEdge
  BY <1>1, <1>3 DEF NoNegativeEdge, Adjacency, Neighbor
<1> QED
  BY <1>1, <1>2, <1>4, <1>5, <1>6

\* The cost of an edge, in the table of costs.
LEMMA CostsAre ==
  ASSUME w \in Weights, Measured(graph), NEW u \in DOMAIN graph.nodes, NEW v, NEW i,
         Joins(graph, FALSE, i, u, v)
  PROVE  Costs[u][i] = Cost(i, u) /\ Cost(i, u) \in Int
<1>1. i \in Positions(graph.edges)
  BY DEF Joins
<1> QED
  BY <1>1, CostInt DEF Costs

\* Without negative edges, the table is what the lemmas on Bests need.
LEMMA CostsAreNat == NoNegativeEdge => Priced(graph, Costs)
<1> SUFFICES ASSUME NoNegativeEdge, NEW i, NEW u, NEW v, Joins(graph, FALSE, i, u, v),
                    {u, v} \subseteq DOMAIN graph.nodes
             PROVE  Costs[u][i] \in Nat
  BY DEF Priced
<1>1. i \in Adjacency(u, FALSE) /\ Neighbor(i, u) = v /\ i \in Positions(graph.edges)
  BY JoinsIsAdjacent DEF Joins
<1>2. Cost(i, u) \in Nat
  BY <1>1, CostNat
<1> QED
  BY <1>1, <1>2 DEF Costs

\* The search starts at s, with nothing else.
LEMMA BeginDijkstra ==
  ASSUME NEW g, NEW s, NEW t, s # t, NEW L, L = [v \in {s} |-> 0], NEW K
  PROVE  Dijkstra(g, s, t, {s}, << >>, << >>, L, {<<0, s>>}, K)
<1>1. L \in [{s} -> Nat] /\ L[s] = 0
  OBVIOUS
<1>2. Tree(g, FALSE, s, {s}, << >>, << >>, L)
  <2>1. {s} \ {s} = {} /\ DOMAIN << >> = {}
    OBVIOUS
  <2>2. s \in {s} /\ \A v \in {s} \ {s} : FALSE
    OBVIOUS
  <2> QED
    BY <1>1, <2>1, <2>2, Zenon DEF Tree
<1>3. Costed(s, {s}, << >>, << >>, L, K)
  BY <1>1 DEF Costed
<1>4. Queue(g, s, t, {s}, << >>, L, {<<0, s>>}, K)
  BY <1>1 DEF Queue, Settled
<1> QED
  BY <1>2, <1>3, <1>4 DEF Dijkstra

-----------------------------------------------------------------------------
(* The steps of the search.                                                *)

LEMMA CostStarts ==
  ASSUME NoNegativeEdge, Measured(graph), CostInv, Return \/ Start
  PROVE  CostInv'
<1>1. /\ query' = query /\ w' = w /\ segments' = segments /\ total_cost' = total_cost
      /\ parent' = parent /\ came_edge' = came_edge /\ pc = "start"
  BY DEF Return, Start, Answered, searchVars, walkVars
<1>2. graph' = graph /\ from' = from /\ to' = to /\ Searchable' = Searchable /\ Costs' = Costs
  BY <1>1, Stays
<1>3. CASE Return
  <2>1. pc' \in {"found", "absent"} /\ (pc' = "found" => from = to)
    BY <1>3 DEF Return, Answered
  <2> QED
    BY <1>2, <2>1 DEF CostInv
<1>4. CASE Start
  <2>1. /\ pc' = "search" /\ Searchable
        /\ pq' = {<<0, from>>} /\ dist' = [v \in {from} |-> 0]
    BY <1>4 DEF Start
  <2>2. /\ parent' = << >> /\ came_edge' = << >> /\ segments' = << >> /\ total_cost' = 0
    BY <1>1 DEF CostInv
  <2>3. from # to /\ from \in DOMAIN graph.nodes
    BY <2>1 DEF Searchable
  <2>4. Dijkstra(graph, from, to, {from}, << >>, << >>, dist', {<<0, from>>}, Costs)
    BY <2>1, <2>3, BeginDijkstra
  <2>5. DOMAIN dist' = {from}
    BY <2>1
  <2>6. Searching'
    BY <1>2, <2>1, <2>2, <2>3, <2>4, <2>5 DEF Searching
  <2> QED
    BY <2>1, <2>6 DEF CostInv
<1> QED
  BY <1>3, <1>4

\* What a step of the loop finds at the top of the queue.
LEMMA TopFacts ==
  ASSUME Measured(graph), Searching, pq # {}
  PROVE  /\ <<Top[1], Top[2]>> \in pq
         /\ Top = <<Top[1], Top[2]>>
         /\ \A o \in pq : Top[1] <= o[1]
         /\ Top[1] \in Nat /\ Top[2] \in DOMAIN dist /\ Top[2] \in DOMAIN graph.nodes
         /\ dist \in [DOMAIN dist -> Nat]
<1>1. pq \subseteq Nat \X DOMAIN dist
  BY DEF Searching, Dijkstra, Queue
<1>2. dist \in [DOMAIN dist -> Nat]
  BY DEF Searching, Dijkstra, Costed
<1>3. DOMAIN dist \subseteq Nat
  BY DEF Searching, Measured
<1>4. /\ Top \in pq /\ Top = <<Top[1], Top[2]>>
      /\ \A o \in pq : Top[1] <= o[1]
  BY <1>1, <1>3, TopIs
<1>5. Top[1] \in Nat /\ Top[2] \in DOMAIN dist
  BY <1>1, <1>4
<1> QED
  BY <1>2, <1>4, <1>5 DEF Searching

LEMMA CostSettles ==
  ASSUME NoNegativeEdge, Measured(graph), CostInv, Settle
  PROVE  CostInv'
<1> DEFINE m == Top[1]
           u == Top[2]
           Inside == {Neighbor(i, u) : i \in Adjacency(u, FALSE)} \subseteq DOMAIN graph.nodes
<1>1. /\ query' = query /\ w' = w /\ segments' = segments /\ total_cost' = total_cost
      /\ pc = "search" /\ pq # {} /\ u # to /\ m <= dist[u]
  BY DEF Settle, walkVars
<1>2. graph' = graph /\ from' = from /\ to' = to /\ Searchable' = Searchable /\ Costs' = Costs
  BY <1>1, Stays
<1>3. Searching
  BY <1>1 DEF CostInv
<1>4. /\ <<m, u>> \in pq /\ Top = <<m, u>>
      /\ \A o \in pq : m <= o[1]
      /\ m \in Nat /\ u \in DOMAIN dist /\ u \in DOMAIN graph.nodes
      /\ dist \in [DOMAIN dist -> Nat]
  BY <1>1, <1>3, TopFacts
<1>5. CASE ~Inside
  <2>1. pc' = "NOT_FOUND"
    BY <1>5 DEF Settle
  <2> QED
    BY <2>1 DEF CostInv
<1>6. CASE Inside
  <2> DEFINE better == Improving(m, u)
             via == Relaxed(better, u)
             New == {<<m + Cost(i, u), Neighbor(i, u)>> : i \in better}
  <2>1. /\ dist' = [v \in DOMAIN dist \cup DOMAIN via |->
                      IF v \in DOMAIN via THEN m + Cost(via[v], u) ELSE dist[v]]
        /\ parent' = [v \in DOMAIN parent \cup DOMAIN via |->
                        IF v \in DOMAIN via THEN u ELSE parent[v]]
        /\ came_edge' = [v \in DOMAIN came_edge \cup DOMAIN via |->
                           IF v \in DOMAIN via THEN via[v] ELSE came_edge[v]]
        /\ pq' = (pq \ {Top}) \cup New
        /\ pc' = pc
    BY <1>6, Zenon DEF Settle
  <2> HIDE DEF m, u, better, via, New
  <2>2. /\ Relaxes(graph, DOMAIN dist, parent, came_edge, dist, Costs, m, u, DOMAIN via,
                   parent', came_edge', dist', New)
        /\ DOMAIN via \subseteq DOMAIN graph.nodes
    BY <1>4, <1>6, <2>1, SettleRelaxes DEF better, via, New
  <2>3. Dijkstra(graph, from, to, DOMAIN dist, parent, came_edge, dist, pq, Costs)
    BY <1>3 DEF Searching
  <2>4. Dijkstra(graph, from, to, DOMAIN dist \cup DOMAIN via, parent', came_edge', dist',
                 (pq \ {<<m, u>>}) \cup New, Costs)
    BY <1>1, <1>4, <2>2, <2>3, SettleKeeps
  <2>5. DOMAIN dist' = DOMAIN dist \cup DOMAIN via
    BY <2>1
  <2>6. Searching'
    BY <1>1, <1>2, <1>3, <1>4, <2>1, <2>2, <2>4, <2>5 DEF Searching
  <2> QED
    BY <1>1, <2>1, <2>6 DEF CostInv
<1> QED
  BY <1>5, <1>6

LEMMA CostSkips ==
  ASSUME NoNegativeEdge, Measured(graph), CostInv, SkipStale \/ GiveUp
  PROVE  CostInv'
<1>1. /\ query' = query /\ w' = w /\ segments' = segments /\ total_cost' = total_cost
      /\ parent' = parent /\ came_edge' = came_edge /\ dist' = dist /\ pc = "search"
  BY DEF SkipStale, GiveUp, searchVars, walkVars
<1>2. graph' = graph /\ from' = from /\ to' = to /\ Searchable' = Searchable /\ Costs' = Costs
  BY <1>1, Stays
<1>3. Searching
  BY <1>1 DEF CostInv
<1>4. Dijkstra(graph, from, to, DOMAIN dist, parent, came_edge, dist, pq, Costs)
  BY <1>3 DEF Searching
<1>5. CASE SkipStale
  <2>1. pq # {} /\ Top[1] > dist[Top[2]] /\ pq' = pq \ {Top} /\ pc' = "search"
    BY <1>1, <1>5 DEF SkipStale
  <2>2. /\ Top = <<Top[1], Top[2]>> /\ Top[1] \in Nat /\ Top[2] \in DOMAIN dist
        /\ dist \in [DOMAIN dist -> Nat]
    BY <1>3, <2>1, TopFacts
  <2>3. Top[1] # dist[Top[2]]
    BY <2>1, <2>2
  <2>4. Dijkstra(graph, from, to, DOMAIN dist, parent, came_edge, dist,
                 pq \ {<<Top[1], Top[2]>>}, Costs)
    BY <1>4, <2>3, SkipKeeps
  <2>5. Searching'
    BY <1>1, <1>2, <1>3, <2>1, <2>2, <2>4 DEF Searching
  <2> QED
    BY <2>1, <2>5 DEF CostInv
<1>6. CASE GiveUp
  <2>1. pq = {} /\ pq' = pq /\ pc' = "no_route"
    BY <1>6 DEF GiveUp
  <2>2. Searching'
    BY <1>1, <1>2, <1>3, <2>1 DEF Searching
  <2> QED
    BY <2>1, <2>2 DEF CostInv
<1> QED
  BY <1>5, <1>6

LEMMA CostArrives ==
  ASSUME NoNegativeEdge, Measured(graph), CostInv, Arrive
  PROVE  CostInv'
<1>1. /\ query' = query /\ w' = w /\ segments' = segments /\ total_cost' = total_cost
      /\ parent' = parent /\ came_edge' = came_edge /\ dist' = dist /\ pc = "search"
      /\ pc' = "rebuild" /\ cur' = to /\ pq # {} /\ Top[2] = to
  BY DEF Arrive, searchVars
<1>2. graph' = graph /\ from' = from /\ to' = to /\ Searchable' = Searchable /\ Costs' = Costs
  BY <1>1, Stays
<1>3. Searching
  BY <1>1 DEF CostInv
<1>4. Dijkstra(graph, from, to, DOMAIN dist, parent, came_edge, dist, pq, Costs)
  BY <1>3 DEF Searching
<1>5. /\ <<Top[1], to>> \in pq /\ \A o \in pq : Top[1] <= o[1]
      /\ to \in DOMAIN dist /\ dist[to] \in Nat
  BY <1>1, <1>3, TopFacts
<1>6. Optimal(graph, from, to, DOMAIN dist, parent, came_edge, dist, Costs)
  BY <1>4, <1>5, ArriveOptimal
<1>7. PICK d : Tree(graph, FALSE, from, DOMAIN dist, parent, came_edge, d)
  BY <1>4 DEF Dijkstra
<1>8. Trace(graph, FALSE, to, DOMAIN dist, d, to, << >>)
  <2>1. d[to] \in Nat
    BY <1>5, <1>7 DEF Tree
  <2> QED
    BY <1>5, <2>1 DEF Trace
<1>9. Retracing(to)
  BY <1>3, <1>6, <1>7, <1>8 DEF Retracing, Searching
<1>10. Retracing(cur)'
  BY <1>1, <1>2, <1>9 DEF Retracing
<1>11. total_cost' \in Nat /\ total_cost' + dist'[cur'] = dist'[to']
  BY <1>1, <1>2, <1>3, <1>5 DEF Searching
<1> QED
  BY <1>1, <1>10, <1>11 DEF CostInv

LEMMA CostRetraces ==
  ASSUME NoNegativeEdge, Measured(graph), CostInv, AddUp \/ Finish
  PROVE  CostInv'
<1>1. /\ query' = query /\ w' = w /\ parent' = parent /\ came_edge' = came_edge /\ dist' = dist
      /\ pc = "rebuild"
  BY DEF AddUp, Rebuild, Finish, fill_path, searchVars
<1>2. /\ graph' = graph /\ from' = from /\ to' = to /\ Searchable' = Searchable /\ Costs' = Costs
      /\ NumaPenalty(from, to)' = NumaPenalty(from, to)
  BY <1>1, Stays
<1>3. Retracing(cur) /\ total_cost \in Nat /\ total_cost + dist[cur] = dist[to]
  BY <1>1 DEF CostInv
<1>4. PICK d : /\ Tree(graph, FALSE, from, DOMAIN dist, parent, came_edge, d)
               /\ Trace(graph, FALSE, to, DOMAIN dist, d, cur, segments)
  BY <1>3 DEF Retracing
<1>5. Costed(from, DOMAIN dist, parent, came_edge, dist, Costs) /\ to \in DOMAIN dist
  BY <1>3 DEF Retracing, Optimal
<1>6. CASE AddUp
  <2>1. /\ cur # from /\ pc' = "rebuild" /\ cur' = parent[cur]
        /\ segments' = <<[from |-> parent[cur], to |-> cur, edge |-> came_edge[cur]]>> \o segments
        /\ total_cost' = total_cost + Cost(came_edge[cur], parent[cur])
    BY <1>1, <1>6 DEF AddUp, Rebuild
  <2>2. Trace(graph, FALSE, to, DOMAIN dist, d, cur', segments')
    BY <1>4, <1>5, <2>1, RebuildKeeps
  <2>3. Retracing(cur)'
    BY <1>1, <1>2, <1>3, <1>4, <2>2 DEF Retracing
  <2> DEFINE k == Cost(came_edge[cur], parent[cur])
  <2>4. k \in Nat /\ dist[cur] = dist[parent[cur]] + k /\ dist[parent[cur]] \in Nat
    <3>1. cur \in DOMAIN dist \ {from} /\ parent[cur] \in DOMAIN dist
      BY <1>4, <2>1 DEF Tree, Trace
    <3>2. /\ Joins(graph, FALSE, came_edge[cur], parent[cur], cur)
          /\ came_edge[cur] \in Positions(graph.edges) /\ came_edge[cur] \in Nat
          /\ {parent[cur], cur} \subseteq DOMAIN graph.nodes
      BY <1>3, <1>4, <3>1 DEF Tree, Joins, Positions, Retracing
    <3>3. Costs[parent[cur]][came_edge[cur]] = k /\ k \in Nat
      BY <3>2, CostsAreNat DEF Costs, Priced
    <3> HIDE DEF k
    <3> QED
      BY <1>5, <3>1, <3>3 DEF Costed
  <2>5. total_cost' = total_cost + k
    BY <2>1
  <2> HIDE DEF k
  <2>6. total_cost' \in Nat /\ total_cost' + dist[parent[cur]] = dist[to]
    BY <1>3, <2>4, <2>5
  <2> QED
    BY <1>1, <1>2, <2>1, <2>3, <2>6 DEF CostInv
<1>7. CASE Finish
  <2>1. /\ cur = from /\ segments' = segments /\ pc' \in {"found", "NOT_FOUND"}
        /\ total_cost' = total_cost ++ NumaPenalty(from, to)
    BY <1>7 DEF Finish, fill_path, walkVars
  <2>2. Retracing(from)'
    BY <1>1, <1>2, <1>3, <2>1 DEF Retracing
  <2>3. dist[from] = 0 /\ dist[to] \in Nat
    BY <1>5 DEF Costed
  <2>4. total_cost = dist[to]
    BY <1>3, <2>1, <2>3
  <2>5. total_cost' = dist'[to'] ++ NumaPenalty(from, to)'
    BY <1>1, <1>2, <2>1, <2>4
  <2> QED
    BY <2>1, <2>2, <2>5 DEF CostInv
<1> QED
  BY <1>6, <1>7

-----------------------------------------------------------------------------
(* The same steps, whatever the costs are.                                 *)

\* A finite set of integers has a least one.
LEMMA LeastInt ==
  ASSUME NEW C, C \subseteq Int, IsFiniteSet(C), C # {}
  PROVE  \E x \in C : \A y \in C : x <= y
<1> DEFINE below(x) == {y \in C : y < x}
           N == {Cardinality(below(x)) : x \in C}
<1>1. \A x \in C : IsFiniteSet(below(x)) /\ Cardinality(below(x)) \in Nat
  <2> SUFFICES ASSUME NEW x \in C PROVE IsFiniteSet(below(x)) /\ Cardinality(below(x)) \in Nat
    OBVIOUS
  <2>1. below(x) \in SUBSET C
    OBVIOUS
  <2> HIDE DEF below
  <2> QED
    BY <2>1, FS_Subset, FS_CardinalityType
<1>2. PICK n \in N : \A m \in N : n <= m
  <2>1. N \subseteq Nat /\ N # {}
    BY <1>1
  <2> HIDE DEF N
  <2> QED
    BY <2>1, LeastExists
<1>3. PICK x \in C : n = Cardinality(below(x))
  BY <1>2
<1>4. ASSUME NEW y \in C, y < x PROVE FALSE
  <2>1. below(y) \in SUBSET below(x) /\ y \in below(x) /\ y \notin below(y)
    <3>1. x \in Int /\ y \in Int
      OBVIOUS
    <3>2. \A z \in C : z \in Int /\ (z < y => z < x)
      BY <1>4, <3>1
    <3>3. y \in below(x)
      BY <1>4
    <3>4. ~(y < y)
      BY <3>1
    <3>5. \A z \in below(y) : z \in below(x)
      BY <3>2
    <3> QED
      BY <3>3, <3>4, <3>5
  <2>2. n <= Cardinality(below(y))
    BY <1>2
  <2> HIDE DEF below
  <2>3. Cardinality(below(y)) <= Cardinality(below(x))
        /\ (Cardinality(below(x)) = Cardinality(below(y)) => below(x) = below(y))
    BY <1>1, <2>1, FS_Subset
  <2>4. Cardinality(below(y)) \in Nat /\ Cardinality(below(x)) \in Nat
    BY <1>1
  <2> QED
    BY <1>3, <2>1, <2>2, <2>3, <2>4
<1>5. \A y \in C : x <= y
  BY <1>4
<1> QED
  BY <1>5

\* The top of a queue that may hold negative costs is an entry of it.
LEMMA TopOfFinite ==
  ASSUME NEW V, V \subseteq Nat, pq \subseteq Int \X V, IsFiniteSet(pq), pq # {}
  PROVE  Top \in pq /\ Top = <<Top[1], Top[2]>> /\ Top[1] \in Int /\ Top[2] \in V
<1> DEFINE Least(t) == \A o \in pq : t[1] < o[1] \/ (t[1] = o[1] /\ t[2] <= o[2])
           C == {o[1] : o \in pq}
           f == [o \in pq |-> o[1]]
<1>1. \A o \in pq : o[1] \in Int /\ o[2] \in V /\ o[2] \in Nat /\ o = <<o[1], o[2]>>
  <2> SUFFICES ASSUME NEW o \in pq
               PROVE  o[1] \in Int /\ o[2] \in V /\ o[2] \in Nat /\ o = <<o[1], o[2]>>
    OBVIOUS
  <2>1. o \in Int \X V
    OBVIOUS
  <2>2. o[1] \in Int /\ o[2] \in V
    BY <2>1
  <2>3. o = <<o[1], o[2]>>
    BY <2>1
  <2> QED
    BY <2>2, <2>3
<1>2. IsFiniteSet(C)
  <2>1. f \in Surjection(pq, C)
    BY DEF Surjection
  <2> HIDE DEF f, C
  <2> QED
    BY <2>1, FS_Surjection
<1>3. PICK c \in C : \A x \in C : c <= x
  <2>1. C \subseteq Int /\ C # {}
    BY <1>1
  <2> HIDE DEF C
  <2> QED
    BY <1>2, <2>1, LeastInt
<1> DEFINE H == {o[2] : o \in {x \in pq : x[1] = c}}
<1>4. PICK h \in H : \A x \in H : h <= x
  <2>1. H \subseteq Nat /\ H # {}
    BY <1>1, <1>3
  <2> HIDE DEF H
  <2> QED
    BY <2>1, LeastExists
<1>5. PICK t \in pq : t[1] = c /\ t[2] = h
  BY <1>4
<1>6. Least(t)
  <2> SUFFICES ASSUME NEW o \in pq PROVE t[1] < o[1] \/ (t[1] = o[1] /\ t[2] <= o[2])
    OBVIOUS
  <2>1. c <= o[1] /\ c \in Int /\ o[1] \in Int
    BY <1>1, <1>3
  <2>2. o[1] = c => h <= o[2]
    BY <1>4
  <2> QED
    BY <1>5, <2>1, <2>2
<1>7. Top \in pq
  <2>1. Top = CHOOSE x \in pq : Least(x)
    BY DEF Top
  <2> HIDE DEF Least
  <2> QED
    BY <1>5, <1>6, <2>1
<1> QED
  BY <1>1, <1>7

\* What is at the top belongs to a node that has a label.
LEMMA GrownTop ==
  ASSUME Measured(graph), Grown(graph, from, DOMAIN dist, parent, came_edge, dist, pq), pq # {}
  PROVE  /\ Top[1] \in Int /\ Top[2] \in DOMAIN dist /\ Top[2] \in DOMAIN graph.nodes
         /\ IsFiniteSet(pq \ {Top}) /\ pq \ {Top} \subseteq Int \X DOMAIN dist
<1>1. /\ IsFiniteSet(pq) /\ pq \subseteq Int \X DOMAIN dist
      /\ DOMAIN dist \subseteq DOMAIN graph.nodes
  BY DEF Grown
<1>2. DOMAIN dist \subseteq Nat
  BY <1>1 DEF Measured
<1>3. Top[1] \in Int /\ Top[2] \in DOMAIN dist
  BY <1>1, <1>2, TopOfFinite
<1>4. IsFiniteSet(pq \ {Top})
  BY <1>1, FS_Subset
<1> QED
  BY <1>1, <1>3, <1>4

LEMMA GrowStarts ==
  ASSUME GrowInv, Return \/ Start
  PROVE  GrowInv'
<1>1. /\ query' = query /\ w' = w /\ segments' = segments
      /\ parent' = parent /\ came_edge' = came_edge /\ pc = "start"
  BY DEF Return, Start, Answered, searchVars, walkVars
<1>2. graph' = graph /\ from' = from /\ Searchable' = Searchable
  BY <1>1, Stays
<1>3. parent = << >> /\ came_edge = << >> /\ segments = << >>
  BY <1>1 DEF GrowInv
<1>4. CASE Return
  <2>1. pc' \in {"found", "absent"}
    BY <1>4 DEF Return, Answered
  <2>2. OnGraph(graph, << >>)
    BY DEF OnGraph
  <2> QED
    BY <1>1, <1>2, <1>3, <2>1, <2>2 DEF GrowInv
<1>5. CASE Start
  <2>1. /\ pc' = "search" /\ Searchable
        /\ pq' = {<<0, from>>} /\ dist' = [v \in {from} |-> 0]
    BY <1>5 DEF Start
  <2>2. DOMAIN dist' = {from} /\ dist' \in [{from} -> Int]
    BY <2>1
  <2>3. IsFiniteSet(pq') /\ pq' \subseteq Int \X {from}
    <3> DEFINE x == <<0, from>>
    <3>1. pq' = {x} /\ x \in Int \X {from}
      BY <2>1
    <3> HIDE DEF x
    <3> QED
      BY <3>1, FS_Singleton
  <2>4. DOMAIN parent = {} /\ DOMAIN came_edge = {} /\ {from} \subseteq DOMAIN graph.nodes
    BY <1>3, <2>1 DEF Searchable
  <2>5. Grown(graph, from, {from}, parent, came_edge, dist', pq')
    BY <2>2, <2>3, <2>4 DEF Grown
  <2> QED
    BY <1>1, <1>2, <1>3, <2>1, <2>2, <2>5 DEF GrowInv
<1> QED
  BY <1>4, <1>5

\* What relaxing the edges of u makes of labels, parents, edges and the queue.
Relaxation(m, u, better, via, L1, P1, E1, R) ==
  /\ {Neighbor(i, u) : i \in Adjacency(u, FALSE)} \subseteq DOMAIN graph.nodes
  /\ better = Improving(m, u) /\ via = Relaxed(better, u)
  /\ L1 = [v \in DOMAIN dist \cup DOMAIN via |->
             IF v \in DOMAIN via THEN m + Cost(via[v], u) ELSE dist[v]]
  /\ P1 = [v \in DOMAIN parent \cup DOMAIN via |->
             IF v \in DOMAIN via THEN u ELSE parent[v]]
  /\ E1 = [v \in DOMAIN came_edge \cup DOMAIN via |->
             IF v \in DOMAIN via THEN via[v] ELSE came_edge[v]]
  /\ R = {<<m + Cost(i, u), Neighbor(i, u)>> : i \in better}

\* It keeps what the search leaves, whatever the cost m of u.
LEMMA RelaxGrows ==
  ASSUME w \in Weights, Measured(graph), NEW Q,
         Grown(graph, from, DOMAIN dist, parent, came_edge, dist, Q),
         NEW m \in Int, NEW u \in DOMAIN dist, NEW better, NEW via,
         NEW L1, NEW P1, NEW E1, NEW R, Relaxation(m, u, better, via, L1, P1, E1, R)
  PROVE  Grown(graph, from, DOMAIN L1, P1, E1, L1, Q \cup R)
<1> USE DEF Relaxation
<1> DEFINE V == DOMAIN dist
           D == DOMAIN via
           A == Adjacency(u, FALSE)
           New == {<<m + Cost(i, u), Neighbor(i, u)>> : i \in better}
           f == [i \in better |-> <<m + Cost(i, u), Neighbor(i, u)>>]
<1>1. /\ from \in V /\ V \subseteq DOMAIN graph.nodes /\ dist \in [V -> Int]
      /\ IsFiniteSet(Q) /\ Q \subseteq Int \X V
      /\ DOMAIN came_edge = DOMAIN parent /\ V \subseteq DOMAIN parent \cup {from}
      /\ \A v \in DOMAIN parent :
           parent[v] \in V /\ Joins(graph, FALSE, came_edge[v], parent[v], v)
  BY DEF Grown
<1>2. better \subseteq A /\ A \subseteq Positions(graph.edges)
  BY DEF Improving, Adjacency
<1>3. better \subseteq Nat /\ IsFiniteSet(better)
  <2>1. better \subseteq Nat /\ better \in SUBSET DOMAIN graph.edges
    BY <1>2 DEF Positions
  <2> QED
    BY <2>1, FS_Subset DEF Measured
<1>4. \A i \in better : Cost(i, u) \in Int /\ m + Cost(i, u) \in Int
  <2> SUFFICES ASSUME NEW i \in better PROVE Cost(i, u) \in Int /\ m + Cost(i, u) \in Int
    OBVIOUS
  <2> DEFINE k == Cost(i, u)
  <2>1. k \in Int
    BY <1>2, CostInt
  <2> HIDE DEF k
  <2> QED
    BY <2>1 DEF k
<1>5. D = {Neighbor(i, u) : i \in better}
  BY DEF Relaxed
<1>6. ASSUME NEW v \in D
      PROVE  via[v] \in better /\ Neighbor(via[v], u) = v
  <2> DEFINE I == {i \in better : Neighbor(i, u) = v}
  <2>1. via[v] = CHOOSE i \in I : \A j \in I : j <= i
    BY <1>5 DEF Relaxed
  <2>2. I \subseteq Nat /\ I # {} /\ I \in SUBSET better
    BY <1>3, <1>5
  <2> HIDE DEF I
  <2>3. IsFiniteSet(I)
    BY <1>3, <2>2, FS_Subset
  <2>4. via[v] \in I
    BY <2>1, <2>2, <2>3, FiniteGreatest
  <2> QED
    BY <2>4 DEF I
<1>7. IsFiniteSet(New)
  <2>1. f \in Surjection(better, New)
    BY DEF Surjection
  <2> HIDE DEF f, New
  <2> QED
    BY <1>3, <2>1, FS_Surjection
<1>8. New \subseteq Int \X D
  BY <1>4, <1>5
<1>9. D \subseteq DOMAIN graph.nodes
  BY <1>2, <1>5
<1> HIDE DEF New
<1>10. DOMAIN L1 = V \cup D /\ L1 \in [V \cup D -> Int]
  <2>1. \A v \in D : m + Cost(via[v], u) \in Int
    BY <1>4, <1>6
  <2>2. \A v \in V : dist[v] \in Int
    BY <1>1
  <2> HIDE DEF V, D
  <2> QED
    BY <2>1, <2>2 DEF V, D
<1>11. /\ DOMAIN P1 = DOMAIN parent \cup D /\ DOMAIN E1 = DOMAIN P1
       /\ V \cup D \subseteq DOMAIN P1 \cup {from}
  BY <1>1
<1>12. ASSUME NEW v \in DOMAIN P1
       PROVE  P1[v] \in V \cup D /\ Joins(graph, FALSE, E1[v], P1[v], v)
  <2>1. CASE v \in D
    <3>1. P1[v] = u /\ E1[v] = via[v]
      BY <1>11, <2>1
    <3>2. Joins(graph, FALSE, via[v], u, v)
      BY <1>2, <1>6, <2>1, JoinsIsAdjacent
    <3> QED
      BY <3>1, <3>2
  <2>2. CASE v \notin D
    <3>1. v \in DOMAIN parent /\ P1[v] = parent[v] /\ E1[v] = came_edge[v]
      BY <1>1, <1>11, <2>2
    <3> QED
      BY <1>1, <3>1
  <2> QED
    BY <2>1, <2>2
<1>13. IsFiniteSet(Q \cup New) /\ Q \cup New \subseteq Int \X (V \cup D)
  BY <1>1, <1>7, <1>8, FS_Union
<1>14. Grown(graph, from, V \cup D, P1, E1, L1, Q \cup New)
  <2> HIDE DEF V, D
  <2> QED
    BY <1>1, <1>9, <1>10, <1>11, <1>12, <1>13 DEF Grown
<1> QED
  BY <1>10, <1>14 DEF New

LEMMA GrowSettles ==
  ASSUME w \in Weights, Measured(graph), GrowInv, Settle \/ SkipStale \/ GiveUp
  PROVE  GrowInv'
<1>1. query' = query /\ w' = w /\ segments' = segments /\ cur' = cur /\ pc = "search"
  BY DEF Settle, SkipStale, GiveUp, searchVars, walkVars
<1>2. graph' = graph /\ from' = from /\ Searchable' = Searchable
  BY <1>1, Stays
<1>3. /\ Searchable /\ Grown(graph, from, DOMAIN dist, parent, came_edge, dist, pq)
      /\ segments = << >>
  BY <1>1 DEF GrowInv
<1>4. pq # {} => Grown(graph, from, DOMAIN dist, parent, came_edge, dist, pq \ {Top})
  BY <1>3, GrownTop DEF Grown
<1>5. CASE Settle
  <2> DEFINE m == Top[1]
             u == Top[2]
             Inside == {Neighbor(i, u) : i \in Adjacency(u, FALSE)} \subseteq DOMAIN graph.nodes
  <2>1. CASE ~Inside
    <3>1. pc' = "NOT_FOUND"
      BY <1>5, <2>1 DEF Settle
    <3> QED
      BY <3>1 DEF GrowInv
  <2>2. CASE Inside
    <3> DEFINE better == Improving(m, u)
               via == Relaxed(better, u)
               New == {<<m + Cost(i, u), Neighbor(i, u)>> : i \in better}
    <3>1. /\ dist' = [v \in DOMAIN dist \cup DOMAIN via |->
                        IF v \in DOMAIN via THEN m + Cost(via[v], u) ELSE dist[v]]
          /\ parent' = [v \in DOMAIN parent \cup DOMAIN via |->
                          IF v \in DOMAIN via THEN u ELSE parent[v]]
          /\ came_edge' = [v \in DOMAIN came_edge \cup DOMAIN via |->
                             IF v \in DOMAIN via THEN via[v] ELSE came_edge[v]]
          /\ pq' = (pq \ {Top}) \cup New
          /\ pc' = pc
      BY <1>5, <2>2, Zenon DEF Settle
    <3>2. pq # {}
      BY <1>5 DEF Settle
    <3>3. m \in Int /\ u \in DOMAIN dist
      BY <1>3, <3>2, GrownTop
    <3>4. /\ better = Improving(m, u) /\ via = Relaxed(better, u)
          /\ New = {<<m + Cost(i, u), Neighbor(i, u)>> : i \in better}
          /\ {Neighbor(i, u) : i \in Adjacency(u, FALSE)} \subseteq DOMAIN graph.nodes
      BY <2>2
    <3> HIDE DEF m, u, better, via, New
    <3> DEFINE Q == pq \ {Top}
    <3>5. Grown(graph, from, DOMAIN dist, parent, came_edge, dist, Q)
      BY <1>4, <3>2
    <3> HIDE DEF Q
    <3>6. Relaxation(m, u, better, via, dist', parent', came_edge', New)
      BY <3>1, <3>4 DEF Relaxation
    <3>7. Grown(graph, from, DOMAIN dist', parent', came_edge', dist', Q \cup New)
      BY <3>3, <3>5, <3>6, RelaxGrows
    <3>8. Grown(graph, from, DOMAIN dist', parent', came_edge', dist', (pq \ {Top}) \cup New)
      BY <3>7 DEF Q
    <3> QED
      BY <1>1, <1>2, <1>3, <3>1, <3>8 DEF GrowInv
  <2> QED
    BY <2>1, <2>2
<1>6. CASE SkipStale
  <2>1. /\ pq # {} /\ pq' = pq \ {Top} /\ pc' = pc
        /\ dist' = dist /\ parent' = parent /\ came_edge' = came_edge
    BY <1>6 DEF SkipStale, searchVars
  <2> QED
    BY <1>1, <1>2, <1>3, <1>4, <2>1 DEF GrowInv
<1>7. CASE GiveUp
  BY <1>7 DEF GiveUp, GrowInv
<1> QED
  BY <1>5, <1>6, <1>7

LEMMA GrowEnds ==
  ASSUME Measured(graph), GrowInv, Arrive \/ AddUp \/ Finish
  PROVE  GrowInv'
<1>1. /\ query' = query /\ w' = w /\ dist' = dist /\ parent' = parent /\ came_edge' = came_edge
      /\ pc \in {"search", "rebuild"}
  BY DEF Arrive, AddUp, Finish, Rebuild, fill_path, searchVars
<1>2. graph' = graph /\ from' = from /\ Searchable' = Searchable
  BY <1>1, Stays
<1>3. Searchable /\ Grown(graph, from, DOMAIN dist, parent, came_edge, dist, pq)
  BY <1>1 DEF GrowInv
<1>4. CASE Arrive
  <2>1. /\ pq # {} /\ Top[2] = to /\ pq' = pq \ {Top} /\ cur' = to /\ pc' = "rebuild"
        /\ segments' = segments /\ pc = "search"
    BY <1>4 DEF Arrive
  <2>2. /\ to \in DOMAIN dist
        /\ Grown(graph, from, DOMAIN dist, parent, came_edge, dist, pq \ {Top})
    BY <1>3, <2>1, GrownTop DEF Grown
  <2>3. OnGraph(graph, segments)
    <3>1. segments = << >>
      BY <2>1 DEF GrowInv
    <3> QED
      BY <3>1 DEF OnGraph
  <2> QED
    BY <1>1, <1>2, <1>3, <2>1, <2>2, <2>3 DEF GrowInv
<1>5. CASE AddUp
  <2> DEFINE s == [from |-> parent[cur], to |-> cur, edge |-> came_edge[cur]]
             A == Segments(graph)
  <2>1. /\ pc = "rebuild" /\ pc' = "rebuild" /\ cur # from /\ cur' = parent[cur] /\ pq' = pq
        /\ segments' = <<s>> \o segments
    BY <1>5 DEF AddUp, Rebuild
  <2>2. /\ cur \in DOMAIN dist /\ segments \in Seq(A)
        /\ \A k \in 1..Len(segments) :
             Joins(graph, FALSE, segments[k].edge, segments[k].from, segments[k].to)
    BY <2>1 DEF GrowInv, OnGraph
  <2>3. /\ parent[cur] \in DOMAIN dist /\ cur \in DOMAIN graph.nodes
        /\ parent[cur] \in DOMAIN graph.nodes
        /\ Joins(graph, FALSE, came_edge[cur], parent[cur], cur)
    BY <1>3, <2>1, <2>2 DEF Grown
  <2>4. s \in A /\ Joins(graph, FALSE, s.edge, s.from, s.to)
    BY <2>3 DEF Joins, Positions, Segments
  <2> HIDE DEF s, A
  <2>5. /\ segments' \in Seq(A) /\ Len(segments') = Len(segments) + 1 /\ segments'[1] = s
        /\ \A k \in 1..Len(segments) : segments'[k + 1] = segments[k]
    BY <2>1, <2>2, <2>4
  <2>6. ASSUME NEW k \in 1..Len(segments')
        PROVE  Joins(graph, FALSE, segments'[k].edge, segments'[k].from, segments'[k].to)
    <3>1. CASE k = 1
      BY <2>4, <2>5, <3>1
    <3>2. CASE k # 1
      <4>1. k - 1 \in 1..Len(segments) /\ k = (k - 1) + 1
        BY <2>2, <2>5, <3>2
      <4>2. segments'[k] = segments[k - 1]
        BY <2>5, <4>1
      <4> QED
        BY <2>2, <4>1, <4>2
    <3> QED
      BY <3>1, <3>2
  <2>7. OnGraph(graph, segments')
    BY <2>5, <2>6 DEF OnGraph, A
  <2> QED
    BY <1>1, <1>2, <1>3, <2>1, <2>3, <2>7 DEF GrowInv
<1>6. CASE Finish
  <2>1. pc = "rebuild" /\ segments' = segments /\ pc' \in {"found", "NOT_FOUND"}
    BY <1>6 DEF Finish, fill_path, walkVars
  <2> QED
    BY <1>2, <2>1 DEF GrowInv
<1> QED
  BY <1>4, <1>5, <1>6

-----------------------------------------------------------------------------
(* The steps of a call.                                                    *)

LEMMA RankInvInit == Init => RankInv
<1> SUFFICES ASSUME Init PROVE RankInv
  OBVIOUS
<1>1. request \in Requests /\ w \in Weights /\ stage # "cost"
  BY DEF Init, CostInit
<1>2. query = [graph |-> request.graph, from |-> from, to |-> to]
  BY DEF Init, from, to
<1> QED
  BY <1>1, <1>2 DEF RankInv

\* What the assumption on the calls says of the snapshot of this one.
LEMMA SnapshotMeasured == RankInv => Measured(graph)
<1> SUFFICES ASSUME RankInv PROVE Measured(graph)
  OBVIOUS
<1>1. request \in Requests /\ graph = request.graph
  BY DEF RankInv, graph
<1> QED
  BY <1>1, RequestsAssumption DEF Measured

\* A step outside the cost search.
LEMMA OtherSteps ==
  ASSUME RankInv,
         Call \/ Skip \/ LeaveOut \/ Measure \/ SearchHops \/ Enter \/ Throw \/ Deliver
  PROVE  RankInv'
<1>1. query' = query
  BY DEF Call, Skip, LeaveOut, Measure, Enter, Throw, Deliver, costVars, SearchHops, Hops!Next,
         Hops!Return, Hops!Answered, Hops!Start, Hops!Visit, Hops!Arrive, Hops!GiveUp,
         Hops!WalkBack, Hops!Rebuild, Hops!fill_path
<1>2. w' = w /\ request' = request /\ stage' # "cost"
  BY DEF Call, Skip, LeaveOut, Measure, Enter, Throw, Deliver, costVars, SearchHops, rankVars
<1>3. from' = from /\ to' = to
  BY <1>1 DEF from, to
<1> QED
  BY <1>1, <1>2, <1>3 DEF RankInv

LEMMA PickStep ==
  ASSUME RankInv, Pick
  PROVE  RankInv'
<1>1. /\ query = [graph |-> request.graph, from |-> from, to |-> to]
      /\ query' = [query EXCEPT !.to = Head(left)]
      /\ w' = w /\ request' = request
  BY DEF RankInv, Pick
<1>2. query' = [graph |-> request'.graph, from |-> from', to |-> to']
  BY <1>1 DEF from, to
<1>3. CostInv' /\ GrowInv'
  BY DEF Pick, NewSearch, CostInv, GrowInv
<1> QED
  BY <1>1, <1>2, <1>3 DEF RankInv

LEMMA SearchCostStep ==
  ASSUME RankInv, SearchCost
  PROVE  RankInv'
<1>1. /\ stage = "cost" /\ stage' = stage /\ request' = request /\ CostNext
  BY DEF SearchCost, rankVars
<1>2. query' = query /\ w' = w
  BY <1>1 DEF CostNext, Return, Answered, Start, Settle, SkipStale, Arrive, GiveUp, AddUp, Rebuild,
         Finish, fill_path
<1>3. from' = from /\ to' = to
  BY <1>2 DEF from, to
<1>4. w \in Weights /\ Measured(graph) /\ GrowInv
  BY <1>1, SnapshotMeasured DEF RankInv
<1>5. ASSUME NoNegativeEdge' PROVE CostInv'
  <2>1. NoNegativeEdge /\ CostInv
    BY <1>1, <1>2, <1>5, Stays DEF RankInv
  <2> QED
    BY <1>1, <1>4, <2>1, CostStarts, CostSettles, CostSkips, CostArrives, CostRetraces
       DEF CostNext
<1>6. GrowInv'
  BY <1>1, <1>4, GrowStarts, GrowSettles, GrowEnds DEF CostNext
<1> QED
  BY <1>1, <1>2, <1>3, <1>5, <1>6 DEF RankInv

LEMMA RankInvariant == Spec => []RankInv
<1>1. ASSUME RankInv, [Next]_vars PROVE RankInv'
  <2>1. CASE UNCHANGED vars
    <3>1. /\ query' = query /\ w' = w /\ request' = request /\ stage' = stage
          /\ pc' = pc /\ parent' = parent /\ came_edge' = came_edge /\ cur' = cur
          /\ segments' = segments /\ pq' = pq /\ dist' = dist /\ total_cost' = total_cost
      BY <2>1 DEF vars, costVars, rankVars
    <3>2. /\ graph' = graph /\ from' = from /\ to' = to
          /\ Searchable' = Searchable /\ Costs' = Costs
          /\ NumaPenalty(from, to)' = NumaPenalty(from, to)
          /\ NoNegativeEdge' <=> NoNegativeEdge
      BY <3>1, Stays
    <3>3. Searching' = Searching /\ Retracing(cur)' = Retracing(cur)
          /\ Retracing(from)' = Retracing(from)
      BY <3>1, <3>2 DEF Searching, Retracing
    <3>4. CostInv' = CostInv
      BY <3>1, <3>2, <3>3 DEF CostInv
    <3>5. GrowInv => GrowInv'
      BY <3>1, <3>2 DEF GrowInv
    <3> QED
      BY <1>1, <3>1, <3>2, <3>4, <3>5 DEF RankInv
  <2> QED
    BY <1>1, <2>1, OtherSteps, PickStep, SearchCostStep DEF Next
<1> QED
  BY <1>1, RankInvInit, PTL DEF Spec

-----------------------------------------------------------------------------
(* The result.                                                             *)

\* C gives each node that can be reached from s the least cost of a way to it.
CheapestFrom(g, s, K, C) ==
  \E B : /\ C = B[Cardinality(DOMAIN g.nodes)]
        /\ Bests(g, s, Cardinality(DOMAIN g.nodes), K, B)

\* Cheapest, the reference of the properties, does.
LEMMA CheapestIs ==
  ASSUME NoNegativeEdge, Measured(graph), from \in DOMAIN graph.nodes
  PROVE  CheapestFrom(graph, from, Costs, Cheapest)
<1> DEFINE N == Cardinality(DOMAIN graph.nodes)
<1>1. \E B : Cheapest = B[N] /\ Bests(graph, from, N, Costs, B)
  BY CheapestIsBest
<1> QED
  BY <1>1, Zenon DEF CheapestFrom

\* The label of the destination is the least cost of a way to it.
LEMMA LabelIsCheapest ==
  ASSUME NoNegativeEdge, Measured(graph), Retracing(from),
         NEW C, CheapestFrom(graph, from, Costs, C)
  PROVE  to \in DOMAIN C /\ dist[to] = C[to]
<1> DEFINE N == Cardinality(DOMAIN graph.nodes)
<1>1. PICK d : Tree(graph, FALSE, from, DOMAIN dist, parent, came_edge, d)
  BY DEF Retracing
<1>2. /\ to \in DOMAIN dist
      /\ Costed(from, DOMAIN dist, parent, came_edge, dist, Costs)
      /\ FinalBelow(graph, DOMAIN dist, dist, Costs, dist[to])
  BY DEF Retracing, Optimal
<1>3. /\ dist \in [DOMAIN dist -> Nat] /\ dist[from] = 0 /\ dist[to] \in Nat
      /\ from \in DOMAIN dist
  BY <1>1, <1>2 DEF Costed, Tree
<1>4. from \in DOMAIN graph.nodes /\ DOMAIN dist \subseteq DOMAIN graph.nodes
  BY DEF Retracing, Searchable
<1>5. N \in Nat
  BY FS_CardinalityType DEF Measured
<1>6. PICK B : C = B[N] /\ Bests(graph, from, N, Costs, B)
  BY DEF CheapestFrom
<1>7. Priced(graph, Costs)
  BY CostsAreNat
<1>8. d[to] <= N
  BY <1>1, <1>2, <1>4, DepthBound DEF Measured
<1> HIDE DEF N
<1>9. N \in 0..N
  BY <1>5
<1>10. \A k \in 0..N : \A v \in DOMAIN dist : d[v] <= k => v \in DOMAIN B[k] /\ B[k][v] <= dist[v]
  BY <1>1, <1>2, <1>4, <1>5, <1>6, <1>7, LabelsReached
<1>11. to \in DOMAIN B[N] /\ B[N][to] <= dist[to]
  BY <1>2, <1>8, <1>9, <1>10
<1>12. \A k \in 0..N : \A v \in DOMAIN B[k] :
         dist[to] <= B[k][v] \/ (v \in DOMAIN dist /\ dist[v] <= B[k][v])
  BY <1>2, <1>3, <1>4, <1>5, <1>6, <1>7, LabelsLeast
<1>13. dist[to] <= B[N][to]
  BY <1>9, <1>11, <1>12
<1>14. B[N][to] \in Nat
  <2>1. CASE N = 0
    BY <1>6, <1>11, <2>1 DEF Bests
  <2>2. CASE N # 0
    <3>1. N \in 1..N
      BY <1>5, <2>2
    <3> QED
      BY <1>6, <1>11, <3>1 DEF Bests
  <2> QED
    BY <2>1, <2>2
<1> QED
  BY <1>3, <1>6, <1>11, <1>13, <1>14

\* When the queue has run out, what has no label has no way to it.
LEMMA NoWayWithoutLabel ==
  ASSUME Measured(graph), Searching, pq = {}, NEW C, CheapestFrom(graph, from, Costs, C)
  PROVE  to \notin DOMAIN C
<1> DEFINE N == Cardinality(DOMAIN graph.nodes)
<1>1. from \in DOMAIN graph.nodes
  BY DEF Searching, Searchable
<1>2. N \in Nat
  BY FS_CardinalityType DEF Measured
<1>3. PICK B : C = B[N] /\ Bests(graph, from, N, Costs, B)
  BY DEF CheapestFrom
<1> HIDE DEF N
<1>4. /\ from \in DOMAIN dist
      /\ \A v \in DOMAIN dist : v # to /\ Final(graph, DOMAIN dist, dist, Costs, v)
  <2>1. Queue(graph, from, to, DOMAIN dist, parent, dist, {}, Costs)
    BY DEF Searching, Dijkstra
  <2>2. from \in DOMAIN dist
    BY DEF Searching, Dijkstra, Tree
  <2> QED
    BY <2>1, <2>2 DEF Queue, Settled
<1> DEFINE S == {k \in 0..N : ~(DOMAIN B[k] \subseteq DOMAIN dist)}
<1>5. S = {}
  <2> SUFFICES ASSUME S # {} PROVE FALSE
    OBVIOUS
  <2>1. PICK k \in S : \A j \in S : k <= j
    <3>1. S \subseteq Nat
      OBVIOUS
    <3> HIDE DEF S
    <3> QED
      BY <3>1, LeastExists
  <2>2. k # 0
    BY <1>3, <1>4, <2>1 DEF Bests
  <2>3. k \in 1..N /\ k - 1 \in 0..N /\ ~(k <= k - 1)
    BY <1>2, <2>1, <2>2
  <2>4. DOMAIN B[k - 1] \subseteq DOMAIN dist
    BY <2>1, <2>3
  <2>5. ASSUME NEW v \in DOMAIN B[k] PROVE v \in DOMAIN dist
    <3>1. \/ v \in DOMAIN B[k - 1]
          \/ \E u \in DOMAIN B[k - 1], i \in Nat : Joins(graph, FALSE, i, u, v)
      BY <1>3, <2>3 DEF Bests
    <3> QED
      BY <1>4, <2>4, <3>1 DEF Final
  <2> QED
    BY <2>1, <2>5
<1>6. DOMAIN B[N] \subseteq DOMAIN dist
  BY <1>2, <1>5
<1> QED
  BY <1>3, <1>4, <1>6

\* lowest_cost_path, in whatever call, where no edge has a negative cost: the path
\* it reports is a route, its cost is the least of all routes plus the NUMA penalty
\* of the endpoints, and it finds no route only when there is none. Edges may be
\* free, guarded, parallel or dangling, and the penalty need not be finite.
THEOREM LowestCostPathMinimal == Spec => []CostMinimal
<1>1. RankInv => CostMinimal
  <2> SUFFICES ASSUME RankInv, stage = "cost", NoNegativeEdge
               PROVE  /\ (pc = "found" /\ from # to) =>
                           IsRoute(FALSE) /\ total_cost = Cheapest[to] ++ NumaPenalty(from, to)
                      /\ pc = "no_route" => to \notin DOMAIN Cheapest
    BY DEF CostMinimal
  <2>1. NoNegativeEdge /\ Measured(graph) /\ CostInv
    BY SnapshotMeasured DEF RankInv
  <2>2. ASSUME pc = "no_route" PROVE to \notin DOMAIN Cheapest
    <3>1. Searching /\ pq = {}
      BY <2>1, <2>2 DEF CostInv
    <3>2. CheapestFrom(graph, from, Costs, Cheapest)
      BY <2>1, <3>1, CheapestIs DEF Searching, Searchable
    <3> QED
      BY <2>1, <3>1, <3>2, NoWayWithoutLabel
  <2>3. ASSUME pc = "found", from # to
        PROVE  IsRoute(FALSE) /\ total_cost = Cheapest[to] ++ NumaPenalty(from, to)
    <3>1. Retracing(from) /\ total_cost = dist[to] ++ NumaPenalty(from, to)
      BY <2>1, <2>3 DEF CostInv
    <3>2. dist[to] = Cheapest[to]
      <4>1. CheapestFrom(graph, from, Costs, Cheapest)
        BY <2>1, <3>1, CheapestIs DEF Retracing, Searchable
      <4> QED
        BY <2>1, <3>1, <4>1, LabelIsCheapest
    <3>3. PICK d : /\ Tree(graph, FALSE, from, DOMAIN dist, parent, came_edge, d)
                   /\ Trace(graph, FALSE, to, DOMAIN dist, d, from, segments)
      BY <3>1 DEF Retracing
    <3>4. /\ Len(segments) \in Nat /\ DOMAIN segments = 1..Len(segments)
          /\ Len(segments) # 0
      BY <2>3, <3>3 DEF Trace
    <3>5. segments[1].from = from /\ segments[Len(segments)].to = to
      <4>1. 1 \in 1..Len(segments)
        BY <3>4
      <4> QED
        BY <3>3, <3>4, <4>1 DEF Trace
    <3>6. ASSUME NEW i \in DOMAIN segments
          PROVE  /\ segments[i].edge \in Links(segments[i].from, segments[i].to, FALSE)
                 /\ i > 1 => segments[i].from = segments[i - 1].to
      <4>1. i \in 1..Len(segments)
        BY <3>4
      <4>2. /\ Joins(graph, FALSE, segments[i].edge, segments[i].from, segments[i].to)
            /\ segments[i].from = IF i = 1 THEN from ELSE segments[i - 1].to
        BY <3>3, <4>1 DEF Trace
      <4>3. segments[i].edge \in Links(segments[i].from, segments[i].to, FALSE)
        BY <4>2, JoinsIsAdjacent
      <4>4. i > 1 => i # 1
        BY <4>1
      <4>5. i > 1 => segments[i].from = segments[i - 1].to
        BY <4>2, <4>4, Zenon
      <4> QED
        BY <4>3, <4>5
    <3>7. IsRoute(FALSE)
      BY <3>5, <3>6 DEF IsRoute
    <3> QED
      BY <3>1, <3>2, <3>7
  <2> QED
    BY <2>2, <2>3
<1> QED
  BY <1>1, RankInvariant, PTL
-----------------------------------------------------------------------------
(* cost_breakdown.                                                         *)

\* T[k] is the cost of the first k segments; x is the cost of all of them.
Summed(K, segs, x) ==
  \E T \in [0..Len(segs) -> Int] :
    /\ T[0] = 0 /\ T[Len(segs)] = x
    /\ \A k \in 1..Len(segs) : /\ K[segs[k].from][segs[k].edge] \in Int
                              /\ T[k] = T[k - 1] + K[segs[k].from][segs[k].edge]

\* A segment in front adds its cost.
LEMMA SummedInFront ==
  ASSUME NEW K, NEW A, NEW segs \in Seq(A), NEW s \in A, NEW x \in Int, Summed(K, segs, x),
         K[s.from][s.edge] \in Int, NEW out, out = <<s>> \o segs
  PROVE  Summed(K, out, x + K[s.from][s.edge])
<1> DEFINE n == Len(segs)
           c == K[s.from][s.edge]
<1>1. PICK T \in [0..n -> Int] :
        /\ T[0] = 0 /\ T[n] = x
        /\ \A k \in 1..n : /\ K[segs[k].from][segs[k].edge] \in Int
                           /\ T[k] = T[k - 1] + K[segs[k].from][segs[k].edge]
  BY DEF Summed
<1>2. n \in Nat /\ Len(out) = n + 1 /\ out[1] = s /\ \A k \in 1..n : out[k + 1] = segs[k]
  OBVIOUS
<1> DEFINE S == [k \in 0..(n + 1) |-> IF k = 0 THEN 0 ELSE T[k - 1] + c]
<1>3. c \in Int
  OBVIOUS
<1> HIDE DEF c, n
<1>4. \A k \in 1..(n + 1) : k - 1 \in 0..n /\ T[k - 1] \in Int /\ k # 0 /\ k \in 0..(n + 1)
  BY <1>1, <1>2
<1>5. S[0] = 0 /\ \A k \in 1..(n + 1) : S[k] = T[k - 1] + c
  BY <1>2, <1>4
<1>6. S \in [0..(n + 1) -> Int]
  <2>1. ASSUME NEW k \in 0..(n + 1) PROVE (IF k = 0 THEN 0 ELSE T[k - 1] + c) \in Int
    <3>1. CASE k = 0
      BY <3>1
    <3>2. CASE k # 0
      <4>1. k \in 1..(n + 1)
        BY <1>2, <3>2
      <4> QED
        BY <1>3, <1>4, <3>2, <4>1
    <3> QED
      BY <3>1, <3>2
  <2> QED
    BY <2>1
<1>7. S[n + 1] = x + c
  <2>1. n + 1 \in 1..(n + 1) /\ (n + 1) - 1 = n
    BY <1>2
  <2>2. S[n + 1] = T[n] + c
    BY <1>5, <2>1
  <2> QED
    BY <1>1, <2>2
<1>8. ASSUME NEW k \in 1..(n + 1)
      PROVE  /\ K[out[k].from][out[k].edge] \in Int
             /\ S[k] = S[k - 1] + K[out[k].from][out[k].edge]
  <2>1. CASE k = 1
    <3>1. S[1] = T[0] + c
      BY <1>5, <2>1
    <3>2. K[out[k].from][out[k].edge] = c
      BY <1>2, <2>1 DEF c
    <3> QED
      BY <1>1, <1>3, <1>5, <2>1, <3>1, <3>2
  <2>2. CASE k # 1
    <3> DEFINE j == k - 1
    <3>1. j \in 1..n /\ j + 1 = k /\ j \in 1..(n + 1) /\ j - 1 \in 0..n
      BY <1>2, <2>2
    <3>2. out[k] = segs[j]
      BY <1>2, <3>1
    <3> DEFINE e == K[segs[j].from][segs[j].edge]
    <3>3. T[j] = T[j - 1] + e /\ S[k] = T[j] + c /\ S[j] = T[j - 1] + c
      BY <1>1, <1>5, <3>1
    <3>4. T[j] \in Int /\ T[j - 1] \in Int /\ e \in Int
      <4>1. j \in 0..n
        BY <1>2, <3>1
      <4> QED
        BY <1>1, <3>1, <4>1
    <3>5. e = K[out[k].from][out[k].edge]
      BY <3>2
    <3> HIDE DEF j, S
    <3> HIDE DEF e
    <3>6. S[k] = S[j] + e
      BY <1>3, <3>3, <3>4
    <3> QED
      BY <3>4, <3>5, <3>6 DEF j
  <2> QED
    BY <2>1, <2>2
<1> HIDE DEF S
<1>9. Summed(K, out, x + c)
  <2> DEFINE m == Len(out)
  <2>1. m = n + 1
    BY <1>2
  <2> HIDE DEF m
  <2>2. S \in [0..m -> Int] /\ S[0] = 0 /\ S[m] = x + c
    BY <1>5, <1>6, <1>7, <2>1
  <2>3. \A k \in 1..m : /\ K[out[k].from][out[k].edge] \in Int
                       /\ S[k] = S[k - 1] + K[out[k].from][out[k].edge]
    BY <1>8, <2>1
  <2> QED
    BY <2>2, <2>3, Zenon DEF Summed, m
<1> QED
  BY <1>9 DEF c

\* There is one sum.
LEMMA SummedOnce ==
  ASSUME NEW K, NEW segs, Len(segs) \in Nat, NEW x, NEW y, Summed(K, segs, x), Summed(K, segs, y)
  PROVE  x = y
<1> DEFINE n == Len(segs)
           c(k) == K[segs[k].from][segs[k].edge]
<1>1. PICK T \in [0..n -> Int] : T[0] = 0 /\ T[n] = x /\ \A k \in 1..n : T[k] = T[k - 1] + c(k)
  BY Zenon DEF Summed
<1>2. PICK S \in [0..n -> Int] : S[0] = 0 /\ S[n] = y /\ \A k \in 1..n : S[k] = S[k - 1] + c(k)
  BY Zenon DEF Summed
<1> DEFINE Off == {k \in 0..n : T[k] # S[k]}
<1>3. Off = {}
  <2> SUFFICES ASSUME Off # {} PROVE FALSE
    OBVIOUS
  <2>1. PICK k \in Off : \A j \in Off : k <= j
    <3>1. Off \subseteq Nat
      OBVIOUS
    <3> HIDE DEF Off
    <3> QED
      BY <3>1, LeastExists
  <2>2. k \in 1..n /\ k - 1 \in 0..n /\ ~(k <= k - 1)
    BY <1>1, <1>2, <2>1
  <2>3. T[k - 1] = S[k - 1]
    BY <2>1, <2>2
  <2>4. T[k] = T[k - 1] + c(k) /\ S[k] = S[k - 1] + c(k)
    BY <1>1, <1>2, <2>2
  <2> QED
    BY <2>1, <2>3, <2>4
<1>4. n \in 0..n
  OBVIOUS
<1>5. n \notin Off
  BY <1>3
<1> QED
  BY <1>1, <1>2, <1>4, <1>5

\* What a segment costs before the guard.
SegmentCost(x) == UnguardedCost(graph.nodes[x.from], graph.nodes[x.to], graph.edges[x.edge])

\* The total of a breakdown, in the order cost_breakdown adds it up in.
Shown(b, p) ==
     b["hop"] ++ p ++ b["bridge"] ++ b["root"] ++ b["latency"]
  ++ b["bandwidth"] ++ b["uncertainty"] ++ b["policy"] ++ b["transition"]

\* The order does not matter.
LEMMA ShownIs ==
  ASSUME NEW b, \A t \in Terms : b[t] \in Double, NEW p \in Double
  PROVE  Shown(b, p) = Total(b) ++ p
<1> DEFINE c1 == b["hop"]
           c2 == b["bridge"]
           c3 == b["root"]
           c4 == b["latency"]
           c5 == b["bandwidth"]
           c6 == b["uncertainty"]
           c7 == b["policy"]
           c8 == b["transition"]
           s1 == c1 ++ p
           s2 == s1 ++ c2
           s3 == s2 ++ c3
           s4 == s3 ++ c4
           s5 == s4 ++ c5
           s6 == s5 ++ c6
           s7 == s6 ++ c7
           s8 == s7 ++ c8
           all == Total(b)
<1>1. /\ c1 \in Double /\ c2 \in Double /\ c3 \in Double /\ c4 \in Double
      /\ c5 \in Double /\ c6 \in Double /\ c7 \in Double /\ c8 \in Double
  BY DEF Terms
<1>2. Shown(b, p) = s8
  BY Zenon DEF Shown
<1>3. IntTotal(b) = c1 + c4 + c5 + c2 + c3 + c8 + c6 + c7
  BY Zenon DEF IntTotal
<1>4. (\E t \in Terms : b[t] = NaN)
        <=> \/ c1 = NaN \/ c2 = NaN \/ c3 = NaN \/ c4 = NaN
            \/ c5 = NaN \/ c6 = NaN \/ c7 = NaN \/ c8 = NaN
  BY DEF Terms
<1>5. /\ all \in Double
      /\ all = NaN <=> \E t \in Terms : b[t] = NaN
      /\ all # NaN => all = IntTotal(b)
  BY TotalIs
<1> HIDE DEF c1, c2, c3, c4, c5, c6, c7, c8, all
<1>6. s1 \in Double /\ (s1 = NaN <=> c1 = NaN \/ p = NaN) /\ (s1 # NaN => s1 = c1 + p)
  BY <1>1, PlusIs
<1> HIDE DEF s1
<1>7. s2 \in Double /\ (s2 = NaN <=> s1 = NaN \/ c2 = NaN) /\ (s2 # NaN => s2 = s1 + c2)
  BY <1>1, <1>6, PlusIs
<1> HIDE DEF s2
<1>8. s3 \in Double /\ (s3 = NaN <=> s2 = NaN \/ c3 = NaN) /\ (s3 # NaN => s3 = s2 + c3)
  BY <1>1, <1>7, PlusIs
<1> HIDE DEF s3
<1>9. s4 \in Double /\ (s4 = NaN <=> s3 = NaN \/ c4 = NaN) /\ (s4 # NaN => s4 = s3 + c4)
  BY <1>1, <1>8, PlusIs
<1> HIDE DEF s4
<1>10. s5 \in Double /\ (s5 = NaN <=> s4 = NaN \/ c5 = NaN) /\ (s5 # NaN => s5 = s4 + c5)
  BY <1>1, <1>9, PlusIs
<1> HIDE DEF s5
<1>11. s6 \in Double /\ (s6 = NaN <=> s5 = NaN \/ c6 = NaN) /\ (s6 # NaN => s6 = s5 + c6)
  BY <1>1, <1>10, PlusIs
<1> HIDE DEF s6
<1>12. s7 \in Double /\ (s7 = NaN <=> s6 = NaN \/ c7 = NaN) /\ (s7 # NaN => s7 = s6 + c7)
  BY <1>1, <1>11, PlusIs
<1> HIDE DEF s7
<1>13. s8 \in Double /\ (s8 = NaN <=> s7 = NaN \/ c8 = NaN) /\ (s8 # NaN => s8 = s7 + c8)
  BY <1>1, <1>12, PlusIs
<1> HIDE DEF s8
<1>14. all ++ p \in Double /\ (all ++ p = NaN <=> all = NaN \/ p = NaN)
       /\ (all # NaN /\ p # NaN => all ++ p = all + p)
  BY <1>5, PlusIs
<1>15. s8 = NaN <=> all ++ p = NaN
  <2>1. /\ s1 = NaN <=> c1 = NaN \/ p = NaN
        /\ s2 = NaN <=> s1 = NaN \/ c2 = NaN
        /\ s3 = NaN <=> s2 = NaN \/ c3 = NaN
        /\ s4 = NaN <=> s3 = NaN \/ c4 = NaN
        /\ s5 = NaN <=> s4 = NaN \/ c5 = NaN
        /\ s6 = NaN <=> s5 = NaN \/ c6 = NaN
        /\ s7 = NaN <=> s6 = NaN \/ c7 = NaN
        /\ s8 = NaN <=> s7 = NaN \/ c8 = NaN
    BY <1>6, <1>7, <1>8, <1>9, <1>10, <1>11, <1>12, <1>13
  <2>2. s8 = NaN <=> \/ c1 = NaN \/ p = NaN \/ c2 = NaN \/ c3 = NaN \/ c4 = NaN
                     \/ c5 = NaN \/ c6 = NaN \/ c7 = NaN \/ c8 = NaN
    BY <2>1
  <2>3. /\ all = NaN <=> \/ c1 = NaN \/ c2 = NaN \/ c3 = NaN \/ c4 = NaN
                        \/ c5 = NaN \/ c6 = NaN \/ c7 = NaN \/ c8 = NaN
        /\ all ++ p = NaN <=> all = NaN \/ p = NaN
    BY <1>4, <1>5, <1>14
  <2> QED
    BY <2>2, <2>3
<1>16. ASSUME s8 # NaN PROVE s8 = all ++ p
  <2>1. /\ s8 = c1 + p + c2 + c3 + c4 + c5 + c6 + c7 + c8
        /\ all ++ p = (c1 + c4 + c5 + c2 + c3 + c8 + c6 + c7) + p
    BY <1>3, <1>5, <1>6, <1>7, <1>8, <1>9, <1>10, <1>11, <1>12, <1>13, <1>14, <1>15, <1>16
  <2>2. /\ c1 # NaN /\ c2 # NaN /\ c3 # NaN /\ c4 # NaN /\ c5 # NaN /\ c6 # NaN /\ c7 # NaN
        /\ c8 # NaN /\ p # NaN
    BY <1>6, <1>7, <1>8, <1>9, <1>10, <1>11, <1>12, <1>13, <1>16
  <2>3. /\ c1 \in Int /\ c2 \in Int /\ c3 \in Int /\ c4 \in Int /\ c5 \in Int /\ c6 \in Int
        /\ c7 \in Int /\ c8 \in Int /\ p \in Int
    BY <1>1, <2>2 DEF Double
  <2> QED
    BY <2>1, <2>3
<1> QED
  BY <1>2, <1>15, <1>16 DEF all

\* The penalty of the endpoints is a double.
LEMMA NumaIs ==
  ASSUME w \in Weights, NEW u, NEW v
  PROVE  NumaPenalty(u, v) \in Double /\ (w.numa_penalty # NaN => NumaPenalty(u, v) \in Int)
<1>1. w.numa_penalty \in Double
  BY WeightsAssumption DEF WeightNames
<1> QED
  BY <1>1 DEF NumaPenalty, When, Double

\* cost_breakdown sums up the costs of the edges, unless one was guarded.
LEMMA BreakdownIs ==
  ASSUME w \in Weights, Measured(graph), OnGraph(graph, segments)
  PROVE  IF \E k \in DOMAIN segments : SegmentCost(segments[k]) = NaN
         THEN cost_breakdown = NaN
         ELSE \E x \in Int :
                Summed(Costs, segments, x) /\ cost_breakdown = x ++ NumaPenalty(from, to)
<1> DEFINE n == Len(segments)
           U == [Terms -> Double]
           zero == [t \in Terms |-> 0]
           more(k) == accumulate(graph.nodes[segments[k].from], graph.nodes[segments[k].to],
                                 graph.edges[segments[k].edge])
           plus(b, k) == [t \in Terms |-> b[t] ++ more(k)[t]]
           Is(f) == f = [k \in 0..n |-> IF k = 0 THEN zero ELSE plus(f[k - 1], k)]
           G == [p \in Nat \X U |-> IF p[1] \in 1..n THEN plus(p[2], p[1]) ELSE p[2]]
           c(k) == Costs[segments[k].from][segments[k].edge]
           sc(k) == SegmentCost(segments[k])
<1>1. n \in Nat /\ DOMAIN segments = 1..n
  BY DEF OnGraph
<1>2. ASSUME NEW k \in 1..n
      PROVE  /\ \A t \in Terms : more(k)[t] \in Double
             /\ sc(k) = Total(more(k)) /\ c(k) \in Int
             /\ sc(k) # NaN => c(k) = sc(k)
  <2> DEFINE i == segments[k].edge
             u == segments[k].from
             v == segments[k].to
  <2>1. u \in DOMAIN graph.nodes /\ Joins(graph, FALSE, i, u, v)
    <3>1. segments[k] \in Segments(graph)
      BY DEF OnGraph
    <3> QED
      BY <3>1 DEF OnGraph, Segments
  <2>2. i \in Positions(graph.edges) /\ Neighbor(i, u) = v
    BY <2>1, JoinsIsAdjacent DEF Joins
  <2>3. c(k) = Cost(i, u) /\ Cost(i, u) \in Int
    BY <2>1, CostsAre
  <2>4. Cost(i, u) = IF sc(k) = NaN THEN DegenerateCost ELSE sc(k)
    BY <2>2 DEF Cost, edge_traversal_cost, SegmentCost
  <2>5. (\A t \in Terms : more(k)[t] \in Double) /\ sc(k) = Total(more(k))
    <3> DEFINE a == graph.nodes[u]
               b == graph.nodes[v]
               m == more(k)
    <3>1. m = accumulate(a, b, graph.edges[i])
      OBVIOUS
    <3>2. sc(k) = UnguardedCost(a, b, graph.edges[i])
      BY DEF SegmentCost
    <3> HIDE DEF a, b, m, i, sc
    <3>3. (\A t \in Terms : m[t] \in Double) /\ sc(k) = Total(m)
      BY <2>2, <3>1, <3>2, TermsAddUp
    <3> QED
      BY <3>3 DEF m
  <2> HIDE DEF c, sc, more, i, u
  <2> QED
    BY <2>3, <2>4, <2>5
<1> HIDE DEF more, sc
<1>3. ASSUME NEW b \in U, NEW k \in 1..n PROVE plus(b, k) \in U
  <2>1. \A t \in Terms : b[t] \in Double /\ more(k)[t] \in Double
    BY <1>2
  <2>2. \A t \in Terms : b[t] ++ more(k)[t] \in Double
    BY <2>1, PlusIs
  <2> QED
    BY <2>2
<1>4. zero \in U
  BY DEF Double
<1>5. G \in [Nat \X U -> U]
  <2> HIDE DEF U, plus
  <2> QED
    BY <1>3
<1>6. PICK f \in [0..n -> U] : Steps(f, G, zero, n)
  <2> HIDE DEF G, U, n, zero
  <2> QED
    BY <1>1, <1>4, <1>5, StepsExist
<1>7. Is(f)
  <2>1. ASSUME NEW k \in 1..n PROVE f[k] = plus(f[k - 1], k)
    <3>1. k - 1 \in 0..n /\ k \in Nat
      BY <1>1
    <3>2. f[k - 1] \in U /\ f[k] = G[<<k, f[k - 1]>>]
      BY <1>6, <3>1 DEF Steps
    <3> HIDE DEF U, plus
    <3> QED
      BY <3>1, <3>2
  <2> HIDE DEF plus, U, zero
  <2>2. \A k \in 0..n : f[k] = IF k = 0 THEN zero ELSE plus(f[k - 1], k)
    BY <1>1, <1>6, <2>1 DEF Steps
  <2> HIDE DEF n
  <2>3. f = [k \in 0..n |-> f[k]]
    BY <1>6
  <2> QED
    BY <2>2, <2>3
<1> DEFINE B == CHOOSE g : Is(g)
<1>8. cost_breakdown = Shown(B[n], NumaPenalty(from, to))
  BY DEF cost_breakdown, more, Shown
<1>9. Is(B)
  <2> HIDE DEF Is
  <2> QED
    BY <1>7
<1> HIDE DEF B
<1>10. B[0] = zero /\ \A k \in 1..n : B[k] = plus(B[k - 1], k)
  <2> HIDE DEF plus, zero, n
  <2>1. B = [k \in 0..n |-> IF k = 0 THEN zero ELSE plus(B[k - 1], k)]
    BY <1>9
  <2>2. \A k \in 0..n : B[k] = IF k = 0 THEN zero ELSE plus(B[k - 1], k)
    BY <2>1, Zenon
  <2>3. 0 \in 0..n /\ \A k \in 1..n : k \in 0..n /\ k # 0
    BY <1>1
  <2> QED
    BY <2>2, <2>3
<1>11. \A k \in 0..n : B[k] \in U
  <2> HIDE DEF U, plus, n
  <2> DEFINE S == {k \in 0..n : B[k] \notin U}
  <2> SUFFICES ASSUME S # {} PROVE FALSE
    OBVIOUS
  <2>1. PICK k \in S : \A j \in S : k <= j
    <3>1. S \subseteq Nat
      OBVIOUS
    <3> HIDE DEF S
    <3> QED
      BY <3>1, LeastExists
  <2>2. k # 0
    BY <1>4, <1>10, <2>1
  <2>3. k \in 1..n /\ k - 1 \in 0..n /\ ~(k <= k - 1)
    BY <1>1, <2>1, <2>2
  <2>4. B[k - 1] \in U
    BY <2>1, <2>3
  <2>5. B[k] \in U
    BY <1>3, <1>10, <2>3, <2>4
  <2> QED
    BY <2>1, <2>5
<1>12. ASSUME NEW k \in 1..n, NEW t \in Terms
       PROVE  /\ B[k][t] = B[k - 1][t] ++ more(k)[t]
              /\ B[k - 1][t] \in Double /\ more(k)[t] \in Double
  <2>1. k - 1 \in 0..n
    BY <1>1
  <2>2. B[k - 1] \in U /\ more(k)[t] \in Double
    <3> HIDE DEF n, U
    <3> QED
      BY <1>2, <1>11, <2>1
  <2>3. B[k] = plus(B[k - 1], k)
    <3> HIDE DEF n, plus
    <3> QED
      BY <1>10
  <2>4. B[k][t] = B[k - 1][t] ++ more(k)[t]
    <3> HIDE DEF n, U
    <3> QED
      BY <2>3
  <2>5. B[k - 1][t] \in Double
    BY <2>2
  <2> QED
    BY <2>2, <2>4, <2>5
<1> HIDE DEF plus, Is, G
<1> DEFINE p == NumaPenalty(from, to)
<1>13. p \in Double
  BY NumaIs
<1>14. n \in 0..n /\ \A t \in Terms : B[n][t] \in Double
  BY <1>1, <1>11
<1> DEFINE all == Total(B[n])
<1>15. cost_breakdown = all ++ p
  <2> DEFINE b == B[n]
  <2>1. \A t \in Terms : b[t] \in Double
    BY <1>14
  <2> HIDE DEF b
  <2>2. Shown(b, p) = Total(b) ++ p
    BY <1>13, <2>1, ShownIs
  <2> QED
    BY <1>8, <2>2 DEF b
<1> HIDE DEF p
<1>16. CASE \E k \in DOMAIN segments : SegmentCost(segments[k]) = NaN
  <2>1. PICK h \in 1..n : sc(h) = NaN
    BY <1>1, <1>16 DEF sc
  <2>2. PICK t \in Terms : more(h)[t] = NaN
    <3> DEFINE m == more(h)
    <3>1. (\A t \in Terms : m[t] \in Double) /\ Total(m) = NaN
      BY <1>2, <2>1
    <3> HIDE DEF m
    <3>2. \E t \in Terms : m[t] = NaN
      BY <3>1, TotalIs
    <3> QED
      BY <3>2 DEF m
  <2> HIDE DEF n, U
  <2> DEFINE S == {k \in h..n : B[k][t] # NaN}
  <2>3. S = {}
    <3> SUFFICES ASSUME S # {} PROVE FALSE
      OBVIOUS
    <3>1. PICK k \in S : \A j \in S : k <= j
      <4>1. S \subseteq Nat
        BY <1>1
      <4> HIDE DEF S
      <4> QED
        BY <4>1, LeastExists
    <3>2. k \in 1..n /\ k \in h..n
      BY <1>1, <3>1
    <3>3. /\ B[k][t] = B[k - 1][t] ++ more(k)[t]
          /\ B[k - 1][t] \in Double /\ more(k)[t] \in Double
      BY <1>12, <3>2
    <3>4. CASE k = h
      <4>1. B[k][t] = NaN
        BY <2>2, <3>3, <3>4, PlusIs
      <4> QED
        BY <3>1, <4>1
    <3>5. CASE k # h
      <4>1. k - 1 \in h..n /\ ~(k <= k - 1)
        BY <1>1, <3>2, <3>5
      <4>2. B[k - 1][t] = NaN
        BY <3>1, <4>1
      <4>3. B[k][t] = NaN
        BY <3>3, <4>2, PlusIs
      <4> QED
        BY <3>1, <4>3
    <3> QED
      BY <3>4, <3>5
  <2>4. n \in h..n
    BY <1>1
  <2>5. B[n][t] = NaN
    BY <2>3, <2>4
  <2>6. all = NaN /\ all \in Double
    <3> DEFINE b == B[n]
    <3>1. (\A x \in Terms : b[x] \in Double) /\ \E x \in Terms : b[x] = NaN
      BY <1>14, <2>5
    <3> HIDE DEF b
    <3>2. Total(b) = NaN /\ Total(b) \in Double
      BY <3>1, TotalIs
    <3> QED
      BY <3>2 DEF b
  <2> HIDE DEF all
  <2>7. all ++ p = NaN
    BY <1>13, <2>6, PlusIs
  <2> QED
    BY <1>15, <1>16, <2>7
<1>17. CASE \A k \in DOMAIN segments : SegmentCost(segments[k]) # NaN
  <2>1. ASSUME NEW k \in 1..n
        PROVE  /\ \A t \in Terms : more(k)[t] \in Int
               /\ c(k) = IntTotal(more(k)) /\ c(k) \in Int
    <3> DEFINE m == more(k)
    <3>1. sc(k) # NaN
      BY <1>1, <1>17 DEF sc
    <3>2. (\A t \in Terms : m[t] \in Double) /\ Total(m) # NaN /\ c(k) = Total(m) /\ c(k) \in Int
      BY <1>2, <3>1
    <3> HIDE DEF m, c
    <3>3. (\A t \in Terms : m[t] \in Int) /\ Total(m) = IntTotal(m)
      BY <3>2, TotalIs
    <3> QED
      BY <3>2, <3>3 DEF m
  <2>2. \A k \in 0..n : \A t \in Terms : B[k][t] \in Int
    <3> HIDE DEF n, U, c
    <3> DEFINE S == {k \in 0..n : ~ \A t \in Terms : B[k][t] \in Int}
    <3> SUFFICES ASSUME S # {} PROVE FALSE
      OBVIOUS
    <3>1. PICK k \in S : \A j \in S : k <= j
      <4>1. S \subseteq Nat
        OBVIOUS
      <4> HIDE DEF S
      <4> QED
        BY <4>1, LeastExists
    <3>2. k # 0
      BY <1>10, <3>1
    <3>3. k \in 1..n /\ k - 1 \in 0..n /\ ~(k <= k - 1)
      BY <1>1, <3>1, <3>2
    <3>4. \A t \in Terms : B[k - 1][t] \in Int
      BY <3>1, <3>3
    <3>5. ASSUME NEW t \in Terms PROVE B[k][t] \in Int
      <4>1. /\ B[k][t] = B[k - 1][t] ++ more(k)[t]
            /\ B[k - 1][t] \in Double /\ more(k)[t] \in Double
        BY <1>12, <3>3
      <4>2. B[k - 1][t] \in Int /\ more(k)[t] \in Int
        BY <2>1, <3>3, <3>4
      <4> DEFINE x == B[k - 1][t]
                 y == more(k)[t]
      <4> HIDE DEF x, y
      <4>3. x \in Int /\ y \in Int /\ B[k][t] = x ++ y /\ x \in Double /\ y \in Double
        BY <4>1, <4>2 DEF x, y
      <4>4. x ++ y \in Int
        BY <4>3, PlusIs, NumbersAssumption
      <4> QED
        BY <4>3, <4>4
    <3> QED
      BY <3>1, <3>5
  <2>3. ASSUME NEW k \in 1..n PROVE IntTotal(B[k]) = IntTotal(B[k - 1]) + c(k)
    <3> DEFINE b == B[k - 1]
               d == B[k]
               m == more(k)
    <3>1. k - 1 \in 0..n
      BY <1>1
    <3>2. \A t \in Terms : b[t] \in Int /\ m[t] \in Int /\ d[t] = b[t] ++ m[t]
      <4> HIDE DEF n
      <4> QED
        BY <1>12, <2>1, <2>2, <3>1
    <3>3. c(k) = IntTotal(m)
      BY <2>1
    <3> HIDE DEF b, d, m, c
    <3>4. ASSUME NEW t \in Terms PROVE d[t] = b[t] + m[t]
      <4> DEFINE x == b[t]
                 y == m[t]
      <4>1. x \in Int /\ y \in Int /\ d[t] = x ++ y
        BY <3>2
      <4> HIDE DEF x, y
      <4>2. x ++ y = x + y
        BY <4>1, PlusIs, NumbersAssumption DEF Double
      <4> QED
        BY <4>1, <4>2 DEF x, y
    <3>5. IntTotal(d) = IntTotal(b) + IntTotal(m)
      BY <3>2, <3>4, TotalsAdd
    <3> QED
      BY <3>3, <3>5 DEF b, d
  <2>4. ASSUME NEW k \in 0..n PROVE IntTotal(B[k]) \in Int
    <3> DEFINE b == B[k]
    <3>1. \A t \in Terms : b[t] \in Int
      BY <2>2
    <3> HIDE DEF b
    <3>2. \A t \in Terms : b[t] \in Double /\ b[t] # NaN
      BY <3>1, NumbersAssumption DEF Double
    <3>3. Total(b) # NaN /\ Total(b) = IntTotal(b) /\ Total(b) \in Int
      BY <3>2, TotalIs
    <3> QED
      BY <3>3 DEF b
  <2> DEFINE T == [k \in 0..n |-> IntTotal(B[k])]
             x == T[n]
  <2>5. T \in [0..n -> Int]
    BY <2>4
  <2>6. T[0] = 0
    <3>1. IntTotal(zero) = 0
      BY DEF Terms, IntTotal
    <3> HIDE DEF zero
    <3> QED
      BY <1>1, <1>10, <3>1
  <2>7. \A k \in 1..n : c(k) \in Int /\ T[k] = T[k - 1] + c(k)
    <3> SUFFICES ASSUME NEW k \in 1..n PROVE c(k) \in Int /\ T[k] = T[k - 1] + c(k)
      OBVIOUS
    <3>1. k \in 0..n /\ k - 1 \in 0..n
      BY <1>1
    <3> HIDE DEF c
    <3> QED
      BY <2>1, <2>3, <3>1
  <2>8. x \in Int
    BY <1>14, <2>5
  <2>9. Summed(Costs, segments, x)
    <3> HIDE DEF T
    <3> QED
      BY <2>5, <2>6, <2>7, Zenon DEF Summed
  <2>10. x = all
    <3> DEFINE b == B[n]
    <3>1. (\A t \in Terms : b[t] \in Int) /\ x = IntTotal(b)
      BY <1>14, <2>2
    <3> HIDE DEF b, x, T
    <3>2. \A t \in Terms : b[t] \in Double /\ b[t] # NaN
      BY <3>1, NumbersAssumption DEF Double
    <3>3. Total(b) = IntTotal(b)
      BY <3>2, TotalIs
    <3> QED
      BY <3>1, <3>3 DEF b
  <2> HIDE DEF x, all, T
  <2>11. cost_breakdown = x ++ NumaPenalty(from, to)
    BY <1>15, <2>10 DEF p
  <2> QED
    BY <1>17, <2>8, <2>9, <2>11
<1> QED
  BY <1>16, <1>17

\* What has been added up is the cost of the segments so far, and the penalty of
\* the endpoints in the end.
SumInv ==
  stage = "cost" =>
    /\ pc \in {"start", "search"} => total_cost = 0
    /\ pc = "rebuild" => total_cost \in Int /\ Summed(Costs, segments, total_cost)
    /\ pc = "found" =>
         \E x \in Int : Summed(Costs, segments, x) /\ total_cost = x ++ NumaPenalty(from, to)

\* No segments cost nothing.
LEMMA SummedNothing ==
  ASSUME NEW K, NEW segs, segs = << >>
  PROVE  Summed(K, segs, 0)
<1> DEFINE T == [k \in {0} |-> 0]
<1>1. Len(segs) = 0 /\ 0..0 = {0} /\ 1..0 = {}
  OBVIOUS
<1>2. T \in [0..0 -> Int] /\ T[0] = 0
  BY <1>1
<1> HIDE DEF T
<1> QED
  BY <1>1, <1>2 DEF Summed

LEMMA SumSearchStep ==
  ASSUME RankInv, SumInv, SearchCost
  PROVE  SumInv'
<1>1. /\ stage = "cost" /\ stage' = stage /\ CostNext
  BY DEF SearchCost, rankVars
<1>2. query' = query /\ w' = w
  BY <1>1 DEF CostNext, Return, Answered, Start, Settle, SkipStale, Arrive, GiveUp, AddUp, Rebuild,
         Finish, fill_path
<1>3. /\ graph' = graph /\ from' = from /\ to' = to /\ Costs' = Costs
      /\ NumaPenalty(from, to)' = NumaPenalty(from, to)
  BY <1>2, Stays
<1>4. w \in Weights /\ Measured(graph) /\ GrowInv
  BY <1>1, SnapshotMeasured DEF RankInv
<1>5. CASE Return
  <2>1. /\ pc = "start" /\ segments' = segments /\ total_cost' = total_cost
        /\ \/ pc' = "found" /\ from = to
           \/ pc' = "absent"
    BY <1>5 DEF Return, Answered, walkVars
  <2>2. segments = << >> /\ total_cost = 0
    BY <1>1, <1>4, <2>1 DEF SumInv, GrowInv
  <2>3. ASSUME from = to
        PROVE  Summed(Costs, segments, 0) /\ total_cost = 0 ++ NumaPenalty(from, to)
    <3>1. NumaPenalty(from, to) = 0
      BY <2>3 DEF NumaPenalty, When
    <3>2. 0 ++ 0 = 0
      BY PlusIs, NumbersAssumption DEF Double
    <3> QED
      BY <2>2, <3>1, <3>2, SummedNothing
  <2>4. from = to => Summed(Costs, segments, 0)' /\ total_cost' = 0 ++ NumaPenalty(from, to)'
    BY <1>3, <2>1, <2>3
  <2> QED
    BY <1>1, <1>3, <2>1, <2>4 DEF SumInv
<1>6. CASE Start \/ Settle \/ SkipStale \/ GiveUp
  <2>1. /\ pc \in {"start", "search"} /\ total_cost' = total_cost
        /\ pc' \in {"search", "no_route", "NOT_FOUND"}
    BY <1>6 DEF Start, Settle, SkipStale, GiveUp
  <2> QED
    BY <1>1, <2>1 DEF SumInv
<1>7. CASE Arrive
  <2>1. /\ pc = "search" /\ segments' = segments /\ total_cost' = total_cost /\ pc' = "rebuild"
    BY <1>7 DEF Arrive
  <2>2. segments = << >> /\ total_cost = 0
    BY <1>1, <1>4, <2>1 DEF SumInv, GrowInv
  <2>3. Summed(Costs, segments, 0)
    BY <2>2, SummedNothing
  <2>4. Summed(Costs, segments, total_cost)' /\ total_cost' \in Int
    BY <1>3, <2>1, <2>2, <2>3
  <2> QED
    BY <1>1, <2>1, <2>4 DEF SumInv
<1>8. CASE AddUp
  <2> DEFINE s == [from |-> parent[cur], to |-> cur, edge |-> came_edge[cur]]
             k == Cost(came_edge[cur], parent[cur])
             A == Segments(graph)
  <2>1. /\ pc = "rebuild" /\ pc' = "rebuild" /\ cur # from /\ segments' = <<s>> \o segments
        /\ total_cost' = total_cost + k
    BY <1>8 DEF AddUp, Rebuild
  <2>2. total_cost \in Int /\ Summed(Costs, segments, total_cost)
    BY <1>1, <2>1 DEF SumInv
  <2>3. /\ cur \in DOMAIN dist /\ segments \in Seq(A)
        /\ Grown(graph, from, DOMAIN dist, parent, came_edge, dist, pq)
    BY <1>4, <2>1 DEF GrowInv, OnGraph
  <2>4. /\ cur \in DOMAIN graph.nodes /\ parent[cur] \in DOMAIN graph.nodes
        /\ Joins(graph, FALSE, came_edge[cur], parent[cur], cur)
    BY <2>1, <2>3 DEF Grown
  <2>5. s \in A
    BY <2>4 DEF Joins, Positions, Segments
  <2>6. Costs[s.from][s.edge] = k /\ k \in Int
    BY <1>4, <2>4, CostsAre
  <2> HIDE DEF s, k, A
  <2>7. Summed(Costs, segments', total_cost + k)
    BY <2>1, <2>2, <2>3, <2>5, <2>6, SummedInFront
  <2>8. Summed(Costs, segments, total_cost)' /\ total_cost' \in Int
    BY <1>3, <2>1, <2>2, <2>6, <2>7
  <2> QED
    BY <1>1, <2>1, <2>8 DEF SumInv
<1>9. CASE Finish
  <2>1. /\ pc = "rebuild" /\ segments' = segments /\ pc' \in {"found", "NOT_FOUND"}
        /\ total_cost' = total_cost ++ NumaPenalty(from, to)
    BY <1>9 DEF Finish, fill_path, walkVars
  <2>2. total_cost \in Int /\ Summed(Costs, segments, total_cost)
    BY <1>1, <2>1 DEF SumInv
  <2>3. Summed(Costs, segments, total_cost)
        /\ Costs' = Costs /\ segments' = segments
        /\ total_cost' = total_cost ++ NumaPenalty(from, to)'
    BY <1>3, <2>1, <2>2
  <2> QED
    BY <1>3, <2>1, <2>2, <2>3 DEF SumInv
<1> QED
  BY <1>1, <1>5, <1>6, <1>7, <1>8, <1>9 DEF CostNext

LEMMA SumInvariant == Spec => []SumInv
<1>1. Init => SumInv
  BY DEF Init, SumInv
<1>2. ASSUME RankInv, SumInv, [Next]_vars PROVE SumInv'
  <2>1. CASE UNCHANGED vars
    <3>1. /\ query' = query /\ w' = w /\ stage' = stage
          /\ pc' = pc /\ segments' = segments /\ total_cost' = total_cost
      BY <2>1 DEF vars, costVars, rankVars
    <3>2. Costs' = Costs /\ NumaPenalty(from, to)' = NumaPenalty(from, to)
      BY <3>1, Stays
    <3> QED
      BY <1>2, <3>1, <3>2 DEF SumInv
  <2>2. CASE Call \/ Skip \/ LeaveOut \/ Measure \/ SearchHops \/ Enter \/ Throw \/ Deliver
    <3>1. stage' # "cost"
      BY <2>2 DEF Call, Skip, LeaveOut, Measure, Enter, Throw, Deliver, costVars, SearchHops,
             rankVars
    <3> QED
      BY <3>1 DEF SumInv
  <2>3. CASE Pick
    BY <2>3 DEF Pick, NewSearch, SumInv
  <2> QED
    BY <1>2, <2>1, <2>2, <2>3, SumSearchStep DEF Next
<1> QED
  BY <1>1, <1>2, RankInvariant, PTL DEF Spec

\* cost_breakdown knows nothing of the guard of edge_traversal_cost: what it shows
\* is NaN if an edge of the path had to be guarded, and adds up to the cost the
\* path was chosen by otherwise. So for every snapshot, policy and call, with
\* negative weights, weights that are not numbers and unmeasured edges.
THEOREM CostBreakdownAddsUp == Spec => []BreakdownAddsUp
<1>1. RankInv /\ SumInv => BreakdownAddsUp
  <2> SUFFICES ASSUME RankInv, SumInv, stage = "cost", pc = "found"
               PROVE  cost_breakdown =
                        IF \E k \in DOMAIN segments : SegmentCost(segments[k]) = NaN
                        THEN NaN ELSE total_cost
    BY DEF BreakdownAddsUp, SegmentCost
  <2>1. w \in Weights /\ Measured(graph) /\ OnGraph(graph, segments)
    BY SnapshotMeasured DEF RankInv, GrowInv
  <2>2. CASE \E k \in DOMAIN segments : SegmentCost(segments[k]) = NaN
    <3>1. cost_breakdown = NaN
      BY <2>1, <2>2, BreakdownIs
    <3> QED
      BY <2>2, <3>1
  <2>3. CASE ~ \E k \in DOMAIN segments : SegmentCost(segments[k]) = NaN
    <3>1. PICK x \in Int : Summed(Costs, segments, x) /\ total_cost = x ++ NumaPenalty(from, to)
      BY DEF SumInv
    <3>2. PICK y \in Int : Summed(Costs, segments, y) /\ cost_breakdown = y ++ NumaPenalty(from, to)
      BY <2>1, <2>3, BreakdownIs
    <3>3. Len(segments) \in Nat
      BY <2>1 DEF OnGraph
    <3>4. x = y
      BY <3>1, <3>2, <3>3, SummedOnce
    <3> QED
      BY <2>3, <3>1, <3>2, <3>4
  <2> QED
    BY <2>2, <2>3
<1> QED
  BY <1>1, RankInvariant, SumInvariant, PTL

-----------------------------------------------------------------------------
(* The distance of an entry: the hop search of Ranking is ShortestPath, so   *)
(* what is proved of that search holds of this one.                          *)

\* The searches distance_between can make: from the source of a call to any id.
HopQueries ==
  {[graph |-> r.graph, from |-> r.source, to |-> n] : r \in Requests, n \in Nat}

\* What is proved of shortest_path, for these searches.
Bfs == INSTANCE ShortestPathProofs WITH Queries <- HopQueries

\* Bfs has its own copy of FiniteSets.
LEMMA SameSizes ==
  ASSUME NEW S
  PROVE  (Bfs!IsFiniteSet(S) <=> IsFiniteSet(S)) /\ Bfs!Cardinality(S) = Cardinality(S)
BY DEF Bfs!IsFiniteSet, IsFiniteSet, Bfs!Cardinality, Cardinality

\* The assumption ShortestPath makes of its queries.
LEMMA HopQueriesFinite ==
  \A c \in HopQueries :
    Bfs!IsFiniteSet(DOMAIN c.graph.nodes) /\ Bfs!IsFiniteSet(DOMAIN c.graph.edges)
<1> SUFFICES ASSUME NEW c \in HopQueries
             PROVE  Bfs!IsFiniteSet(DOMAIN c.graph.nodes) /\ Bfs!IsFiniteSet(DOMAIN c.graph.edges)
  OBVIOUS
<1>1. PICK r \in Requests : c.graph = r.graph
  BY DEF HopQueries
<1> QED
  BY <1>1, RequestsAssumption, SameSizes

\* The searches run on the same graph, between the same nodes.
LEMMA SameEnds ==
  /\ Hops!graph = Bfs!graph /\ Hops!from = Bfs!from /\ Hops!to = Bfs!to
  /\ Bfs!graph = graph /\ Bfs!from = from /\ Bfs!to = to
BY DEF Hops!graph, Hops!from, Hops!to, Bfs!graph, Bfs!from, Bfs!to, graph, from, to

\* Dangling edges are the same in both.
LEMMA SameGraph ==
  ASSUME NEW g
  PROVE  Bfs!DanglingEnds(g) = DanglingEnds(g)
BY DEF Bfs!DanglingEnds, DanglingEnds, Bfs!Positions, Positions

\* So are the edges that join two nodes.
LEMMA SameJoins ==
  ASSUME NEW g, NEW c, NEW i, NEW u, NEW v
  PROVE  Bfs!Joins(g, c, i, u, v) <=> Joins(g, c, i, u, v)
BY DEF Bfs!Joins, Joins, Bfs!Positions, Positions

\* So are the trees a search leaves, and the paths traced back in them.
LEMMA SameTree ==
  ASSUME NEW g, NEW c, NEW s, NEW t, NEW V, NEW P, NEW E, NEW d, NEW x, NEW segs
  PROVE  /\ Tree(g, c, s, V, P, E, d) => Bfs!Tree(g, c, s, V, P, E, d)
         /\ Trace(g, c, t, V, d, x, segs) => Bfs!Trace(g, c, t, V, d, x, segs)
<1>1. \A i, u, v : Bfs!Joins(g, c, i, u, v) <=> Joins(g, c, i, u, v)
  BY SameJoins
<1>2. Tree(g, c, s, V, P, E, d) => Bfs!Tree(g, c, s, V, P, E, d)
  BY <1>1 DEF Bfs!Tree, Tree
<1>3. Trace(g, c, t, V, d, x, segs) => Bfs!Trace(g, c, t, V, d, x, segs)
  BY <1>1 DEF Bfs!Trace, Trace
<1> QED
  BY <1>2, <1>3

\* A step of distance_between is a step of shortest_path.
LEMMA SameSteps == Hops!Next => Bfs!Next
<1> SUFFICES ASSUME Hops!Next PROVE Bfs!Next
  OBVIOUS
<1>1. Hops!graph = Bfs!graph /\ Hops!from = Bfs!from /\ Hops!to = Bfs!to
  BY SameEnds
<1>2. Hops!Searchable <=> Bfs!Searchable
  BY <1>1 DEF Hops!Searchable, Bfs!Searchable
<1>3. CASE Hops!Return
  BY <1>1, <1>3 DEF Hops!Return, Bfs!Return, Hops!Answered, Bfs!Answered, Bfs!Next,
         Hops!searchVars, Bfs!searchVars, Hops!walkVars, Bfs!walkVars
<1>4. CASE Hops!Start
  BY <1>1, <1>2, <1>4 DEF Hops!Start, Bfs!Start, Bfs!Next, Hops!searchVars, Bfs!searchVars,
         Hops!walkVars, Bfs!walkVars
<1>5. CASE Hops!Visit
  <2>1. \A u, c : Hops!Adjacency(u, c) = Bfs!Adjacency(u, c)
    BY <1>1 DEF Hops!Adjacency, Bfs!Adjacency, Hops!Positions, Bfs!Positions, Hops!traverse_edge,
           Bfs!traverse_edge, Hops!collocation_edge, Bfs!collocation_edge
  <2>2. \A i, u : Hops!Neighbor(i, u) = Bfs!Neighbor(i, u)
    BY <1>1 DEF Hops!Neighbor, Bfs!Neighbor
  <2>3. \A I : Hops!Earliest(I) = Bfs!Earliest(I)
    BY DEF Hops!Earliest, Bfs!Earliest
  <2>4. \A u : Hops!Discovered(u) = Bfs!Discovered(u)
    BY <2>1, <2>2, <2>3 DEF Hops!Discovered, Bfs!Discovered
  <2>5. \A f : Hops!ByEdge(f) = Bfs!ByEdge(f)
    BY DEF Hops!ByEdge, Bfs!ByEdge, Hops!InOrder, Bfs!InOrder, Hops!Cardinality, Bfs!Cardinality
  <2>6. \A r, f : Hops!Queued(r, f) = Bfs!Queued(r, f)
    BY <2>5 DEF Hops!Queued, Bfs!Queued
  <2>7. Bfs!Visit
    BY <1>1, <1>5, <2>4, <2>6 DEF Hops!Visit, Bfs!Visit, Hops!walkVars, Bfs!walkVars
  <2> QED
    BY <2>7 DEF Bfs!Next
<1>6. CASE Hops!Arrive
  BY <1>1, <1>6 DEF Hops!Arrive, Bfs!Arrive, Bfs!Next, Hops!searchVars, Bfs!searchVars
<1>7. CASE Hops!GiveUp
  BY <1>1, <1>7 DEF Hops!GiveUp, Bfs!GiveUp, Bfs!Next, Hops!searchVars, Bfs!searchVars,
         Hops!walkVars, Bfs!walkVars
<1>8. CASE Hops!WalkBack
  <2>1. Hops!ContainsEdges(graph.edges) = Bfs!ContainsEdges(graph.edges)
    BY DEF Hops!ContainsEdges, Bfs!ContainsEdges, Hops!Positions, Bfs!Positions
  <2>2. Hops!DecidingEdges(graph, from, to) = Bfs!DecidingEdges(graph, from, to)
    BY <2>1 DEF Hops!DecidingEdges, Bfs!DecidingEdges
  <2>3. Hops!BothPci(graph.nodes[from], graph.nodes[to])
        <=> Bfs!BothPci(graph.nodes[from], graph.nodes[to])
    BY DEF Hops!BothPci, Bfs!BothPci, Hops!is_pci_endpoint, Bfs!is_pci_endpoint
  <2>4. Hops!ClassifyThrows(graph, from, to) <=> Bfs!ClassifyThrows(graph, from, to)
    BY <2>2, <2>3 DEF Hops!ClassifyThrows, Bfs!ClassifyThrows
  <2>5. Hops!Rebuild => Bfs!Rebuild
    BY <1>1 DEF Hops!Rebuild, Bfs!Rebuild, Hops!searchVars, Bfs!searchVars
  <2>6. Hops!fill_path => Bfs!fill_path
    BY <1>1, <2>4, SameEnds DEF Hops!fill_path, Bfs!fill_path, Hops!searchVars, Bfs!searchVars,
           Hops!walkVars, Bfs!walkVars
  <2>7. Bfs!WalkBack
    BY <1>8, <2>5, <2>6 DEF Hops!WalkBack, Bfs!WalkBack
  <2> QED
    BY <2>7 DEF Bfs!Next
<1> QED
  BY <1>3, <1>4, <1>5, <1>6, <1>7, <1>8 DEF Hops!Next

\* So the invariant of shortest_path holds throughout distance_between.
LEMMA HopStep == Bfs!SearchInv /\ Hops!Next => Bfs!SearchInv'
<1>1. Bfs!SearchInv /\ Bfs!Return => Bfs!SearchInv'
  BY HopQueriesFinite, Bfs!ReturnKeeps
<1>2. Bfs!SearchInv /\ Bfs!Start => Bfs!SearchInv'
  BY HopQueriesFinite, Bfs!StartKeeps
<1>3. Bfs!SearchInv /\ Bfs!Visit => Bfs!SearchInv'
  BY HopQueriesFinite, Bfs!VisitInv
<1>4. Bfs!SearchInv /\ (Bfs!Arrive \/ Bfs!GiveUp) => Bfs!SearchInv'
  BY HopQueriesFinite, Bfs!SearchEnds
<1>5. Bfs!SearchInv /\ Bfs!WalkBack => Bfs!SearchInv'
  BY HopQueriesFinite, Bfs!WalkBackKeeps
<1> QED
  BY <1>1, <1>2, <1>3, <1>4, <1>5, SameSteps DEF Bfs!Next

\* It also holds while other code runs.
LEMMA HopsStutter ==
  ASSUME Bfs!SearchInv, UNCHANGED Bfs!vars
  PROVE  Bfs!SearchInv'
BY HopQueriesFinite, Bfs!SearchStutters

-----------------------------------------------------------------------------
(* Collecting, sorting and cutting.                                          *)

\* What candidate n costs: the cheapest route, and the penalty.
Price(C, P, n) == C[n] + P[n]

\* m may come before n in a ranking.
Before(C, P, m, n) ==
  Price(C, P, m) < Price(C, P, n) \/ (Price(C, P, m) = Price(C, P, n) /\ m <= n)

\* e is the entry of candidate n, which has a route.
Entered(n, C, s, P, e) ==
  /\ n \in DOMAIN C \ {s}
  /\ e.id = n
  /\ e.cost = Price(C, P, n)
  /\ e.hops <= e.hop_count

\* The entries R are those of the first m candidates of L, entry k that of
\* candidate b[k].
Listing(L, m, C, s, P, R, b) ==
  /\ b \in [1..Len(R) -> 1..m]
  /\ \A j, k \in 1..Len(R) : b[j] = b[k] => j = k
  /\ \A i \in 1..m : L[i] \in DOMAIN C \ {s} => \E k \in 1..Len(R) : b[k] = i
  /\ \A k \in 1..Len(R) : Entered(L[b[k]], C, s, P, R[k])

\* A candidate without a route adds no entry.
LEMMA ListingPasses ==
  ASSUME NEW L, NEW m \in Nat, NEW C, NEW s, NEW P, NEW R, NEW b, Listing(L, m, C, s, P, R, b),
         L[m + 1] \notin DOMAIN C \ {s}
  PROVE  Listing(L, m + 1, C, s, P, R, b)
<1>1. \A i \in 1..(m + 1) : i = m + 1 \/ i \in 1..m
  OBVIOUS
<1>2. b \in [1..Len(R) -> 1..(m + 1)]
  BY DEF Listing
<1> QED
  BY <1>1, <1>2 DEF Listing

\* A candidate with a route adds one.
LEMMA ListingGrows ==
  ASSUME NEW L, NEW m \in Nat, NEW C, NEW s, NEW P, NEW S, NEW R \in Seq(S), NEW b,
         Listing(L, m, C, s, P, R, b),
         NEW e, Entered(L[m + 1], C, s, P, e), NEW out, out = Append(R, e)
  PROVE  \E c : Listing(L, m + 1, C, s, P, out, c)
<1> DEFINE n == Len(R)
           c == [k \in 1..(n + 1) |-> IF k = n + 1 THEN m + 1 ELSE b[k]]
<1>1. /\ n \in Nat /\ Len(out) = n + 1 /\ out[n + 1] = e
      /\ \A k \in 1..n : out[k] = R[k]
  OBVIOUS
<1>2. /\ b \in [1..n -> 1..m]
      /\ \A j, k \in 1..n : b[j] = b[k] => j = k
      /\ \A i \in 1..m : L[i] \in DOMAIN C \ {s} => \E k \in 1..n : b[k] = i
      /\ \A k \in 1..n : Entered(L[b[k]], C, s, P, R[k])
  BY DEF Listing
<1> HIDE DEF n
<1>3. /\ c \in [1..(n + 1) -> 1..(m + 1)] /\ c[n + 1] = m + 1
      /\ \A k \in 1..n : c[k] = b[k] /\ c[k] \in 1..m
  BY <1>1, <1>2
<1> HIDE DEF c
<1>4. \A k \in 1..(n + 1) : k = n + 1 \/ k \in 1..n
  BY <1>1
<1>5. \A j, k \in 1..(n + 1) : c[j] = c[k] => j = k
  <2>1. \A k \in 1..n : c[k] # m + 1
    BY <1>3
  <2> QED
    BY <1>2, <1>3, <1>4, <2>1
<1>6. ASSUME NEW i \in 1..(m + 1), L[i] \in DOMAIN C \ {s} PROVE \E k \in 1..(n + 1) : c[k] = i
  <2>1. CASE i = m + 1
    <3>1. n + 1 \in 1..(n + 1)
      BY <1>1
    <3> QED
      BY <1>3, <2>1, <3>1
  <2>2. CASE i # m + 1
    <3>1. i \in 1..m
      BY <2>2
    <3>2. PICK k \in 1..n : b[k] = i
      BY <1>2, <1>6, <3>1
    <3>3. k \in 1..(n + 1)
      BY <1>1, <3>2
    <3> QED
      BY <1>3, <3>2, <3>3
  <2> QED
    BY <2>1, <2>2
<1>7. \A k \in 1..(n + 1) : Entered(L[c[k]], C, s, P, out[k])
  BY <1>1, <1>2, <1>3, <1>4
<1>8. Listing(L, m + 1, C, s, P, out, c)
  BY <1>1, <1>3, <1>5, <1>6, <1>7 DEF Listing
<1> QED
  BY <1>8

\* No candidates have no entries.
LEMMA ListingBegins ==
  ASSUME NEW L, NEW C, NEW s, NEW P, NEW R, R = << >>
  PROVE  \E b : Listing(L, 0, C, s, P, R, b)
<1> DEFINE b == [k \in 1..0 |-> 0]
<1>1. Len(R) = 0 /\ 1..0 = {} /\ b \in [1..0 -> 1..0]
  OBVIOUS
<1> HIDE DEF b
<1>2. Listing(L, 0, C, s, P, R, b)
  BY <1>1 DEF Listing
<1> QED
  BY <1>2

\* What a caller gets: r of the candidates A have a route, h[k] is the k-th in
\* order, and R holds the first of them, at most max.
DeliveredAs(A, C, s, P, R, max, f, r, h) ==
  /\ h \in [1..r -> DOMAIN A]
  /\ \A i \in 1..r : A[h[i]] \in DOMAIN C \ {s}
  /\ \A i, j \in 1..r : h[i] = h[j] => i = j
  /\ \A x \in DOMAIN A : A[x] \in DOMAIN C \ {s} => \E i \in 1..r : h[i] = x
  /\ \A i, j \in 1..r : i < j => Before(C, P, A[h[i]], A[h[j]])
  /\ f <=> r # 0
  /\ DOMAIN R = 1..Len(R) /\ Len(R) = IF max \in 1..r THEN max ELSE r
  /\ \A k \in 1..Len(R) : Entered(A[h[k]], C, s, P, R[k])

\* The count and the order exist.
Delivered(A, C, s, P, R, max, f) ==
  \E r \in Nat : \E h : DeliveredAs(A, C, s, P, R, max, f, r, h)

\* Ids and prices are numbers.
Numbers(C, P) == \A n \in DOMAIN C : n \in Nat /\ C[n] \in Nat /\ P[n] \in Int

\* An order that is left by the sort is one of prices.
LEMMA NotCheaper ==
  ASSUME NEW C, NEW s, NEW P, Numbers(C, P), NEW m, NEW n, NEW a, NEW b,
         Entered(m, C, s, P, a), Entered(n, C, s, P, b), ~Cheaper(b, a)
  PROVE  Before(C, P, m, n)
<1> DEFINE x == Price(C, P, m)
           y == Price(C, P, n)
<1>1. x \in Int /\ y \in Int /\ m \in Nat /\ n \in Nat
  BY DEF Entered, Numbers, Price
<1>2. a.cost = x /\ b.cost = y /\ a.id = m /\ b.id = n
  BY DEF Entered
<1> HIDE DEF x, y
<1>3. ~(y < x \/ (y = x /\ n < m))
  BY <1>2 DEF Cheaper
<1>4. x < y \/ (x = y /\ m <= n)
  BY <1>1, <1>3
<1> QED
  BY <1>4 DEF Before, x, y

\* The entries of all candidates, sorted and cut, are what a caller gets.
LEMMA SortDelivers ==
  ASSUME NEW n \in Nat, NEW L, DOMAIN L = 1..n, NEW C, NEW s, NEW P, Numbers(C, P),
         NEW S, NEW R \in Seq(S), NEW b, Listing(L, n, C, s, P, R, b),
         NEW T \in Sorted(R), NEW out, NEW max \in Nat,
         out = IF 0 < max /\ max < Len(T) THEN SubSeq(T, 1, max) ELSE T
  PROVE  Delivered(L, C, s, P, out, max, R # << >>)
<1> DEFINE r == Len(R)
           D == 1..r
<1>1. r \in Nat /\ DOMAIN R = D /\ (R # << >> <=> r # 0) /\ \A k \in D : R[k] \in S
  OBVIOUS
<1>2. IsFiniteSet(D) /\ Cardinality(D) = r
  <2> HIDE DEF r
  <2> QED
    BY <1>1, FS_Interval
<1>3. /\ b \in [D -> 1..n]
      /\ \A j, k \in D : b[j] = b[k] => j = k
      /\ \A i \in 1..n : L[i] \in DOMAIN C \ {s} => \E k \in D : b[k] = i
      /\ \A k \in D : Entered(L[b[k]], C, s, P, R[k])
  BY DEF Listing
<1> HIDE DEF r
<1>0. \A k \in D : R[k].cost # NaN
  <2> SUFFICES ASSUME NEW k \in D PROVE R[k].cost # NaN
    OBVIOUS
  <2>1. R[k].cost \in Int
    BY <1>3 DEF Entered, Numbers, Price
  <2> QED
    BY <2>1, NumbersAssumption
<1>4. PICK o \in SetToSeqs(D) :
        /\ \A i, j \in DOMAIN o : i < j => ~Cheaper(R[o[j]], R[o[i]])
        /\ T = [k \in D |-> R[o[k]]]
  BY <1>0, <1>1 DEF Sorted
<1>5. o \in [D -> D] /\ \A i, j \in D : i # j => o[i] # o[j]
  BY <1>2, <1>4 DEF SetToSeqs
<1>6. \A j \in D : \E k \in D : o[k] = j
  <2>1. o \in Injection(D, D)
    BY <1>5 DEF Injection, IsInjective
  <2>2. o \in Surjection(D, D)
    BY <1>2, <2>1, FS_Injection
  <2> QED
    BY <2>2 DEF Surjection
<1>7. T \in Seq(S) /\ Len(T) = r /\ \A k \in D : T[k] = R[o[k]]
  BY <1>1, <1>4, <1>5
<1> DEFINE h == [k \in D |-> b[o[k]]]
<1>8. h \in [D -> 1..n] /\ \A k \in D : h[k] = b[o[k]] /\ o[k] \in D
  BY <1>3, <1>5
<1> HIDE DEF h
<1>9. \A i \in D : L[h[i]] \in DOMAIN C \ {s}
  BY <1>3, <1>8 DEF Entered
<1>10. \A i, j \in D : h[i] = h[j] => i = j
  BY <1>3, <1>5, <1>8
<1>11. \A x \in 1..n : L[x] \in DOMAIN C \ {s} => \E i \in D : h[i] = x
  <2> SUFFICES ASSUME NEW x \in 1..n, L[x] \in DOMAIN C \ {s} PROVE \E i \in D : h[i] = x
    OBVIOUS
  <2>1. PICK j \in D : b[j] = x
    BY <1>3
  <2>2. PICK i \in D : o[i] = j
    BY <1>6
  <2> QED
    BY <1>8, <2>1, <2>2
<1>12. ASSUME NEW i \in D, NEW j \in D, i < j PROVE Before(C, P, L[h[i]], L[h[j]])
  <2>1. DOMAIN o = D
    BY <1>5
  <2>2. ~Cheaper(R[o[j]], R[o[i]])
    BY <1>4, <1>12, <2>1
  <2>3. Entered(L[h[i]], C, s, P, R[o[i]]) /\ Entered(L[h[j]], C, s, P, R[o[j]])
    BY <1>3, <1>8
  <2> QED
    BY <2>2, <2>3, NotCheaper
<1>13. /\ DOMAIN out = 1..Len(out) /\ Len(out) = (IF max \in 1..r THEN max ELSE r)
       /\ \A k \in 1..Len(out) : k \in D /\ out[k] = T[k]
  <2>1. CASE 0 < max /\ max < r
    <3>1. out = SubSeq(T, 1, max)
      BY <1>7, <2>1
    <3>2. Len(out) = max /\ DOMAIN out = 1..max /\ \A k \in 1..max : out[k] = T[k]
      <4>1. 1 \in 1..(Len(T) + 1) /\ max \in 0..Len(T)
        BY <1>1, <1>7, <2>1
      <4> QED
        BY <1>7, <2>1, <3>1, <4>1
    <3> QED
      BY <1>1, <2>1, <3>2
  <2>2. CASE ~(0 < max /\ max < r)
    <3>1. out = T
      BY <1>7, <2>2
    <3>2. max \in 1..r => max = r
      BY <1>1, <2>2
    <3>3. DOMAIN out = D /\ Len(out) = r
      BY <1>4, <1>7, <3>1
    <3> QED
      BY <3>1, <3>2, <3>3
  <2> QED
    BY <2>1, <2>2
<1>14. \A k \in 1..Len(out) : Entered(L[h[k]], C, s, P, out[k])
  <2> SUFFICES ASSUME NEW k \in 1..Len(out) PROVE Entered(L[h[k]], C, s, P, out[k])
    OBVIOUS
  <2>1. k \in D /\ out[k] = R[o[k]] /\ h[k] = b[o[k]] /\ o[k] \in D
    BY <1>7, <1>8, <1>13
  <2> QED
    BY <1>3, <2>1
<1>15. h \in [1..r -> DOMAIN L]
  BY <1>8
<1>16. DeliveredAs(L, C, s, P, out, max, R # << >>, r, h)
  BY <1>1, <1>9, <1>10, <1>11, <1>12, <1>13, <1>14, <1>15 DEF DeliveredAs
<1> QED
  BY <1>1, <1>16 DEF Delivered

\* The order in which the nodes of a type were walked does not show.
LEMMA OrderForgotten ==
  ASSUME NEW X, IsFiniteSet(X), NEW L \in SetToSeqs(X), NEW C, NEW s, NEW P, NEW R, NEW max, NEW f,
         Delivered(L, C, s, P, R, max, f), NEW A, A = [n \in X |-> n]
  PROVE  Delivered(A, C, s, P, R, max, f)
<1> DEFINE c == Cardinality(X)
           D == 1..c
<1>1. c \in Nat
  BY FS_CardinalityType
<1>2. L \in [D -> X] /\ \A i, j \in D : i # j => L[i] # L[j]
  BY DEF SetToSeqs
<1>3. \A x \in X : \E i \in D : L[i] = x
  <2>1. IsFiniteSet(D) /\ Cardinality(D) = c
    <3> HIDE DEF c
    <3> QED
      BY <1>1, FS_Interval
  <2>2. L \in Injection(D, X)
    BY <1>2 DEF Injection, IsInjective
  <2>3. L \in Surjection(D, X)
    BY <2>1, <2>2, FS_Injection
  <2> QED
    BY <2>3 DEF Surjection
<1> HIDE DEF D
<1>4. PICK r \in Nat : \E h : DeliveredAs(L, C, s, P, R, max, f, r, h)
  BY DEF Delivered
<1>5. PICK h : DeliveredAs(L, C, s, P, R, max, f, r, h)
  BY <1>4
<1>6. DOMAIN L = D
  BY <1>2
<1> DEFINE g == [k \in 1..r |-> L[h[k]]]
<1>7. g \in [1..r -> X] /\ \A k \in 1..r : g[k] = L[h[k]] /\ g[k] \in X /\ h[k] \in D
  BY <1>2, <1>5, <1>6 DEF DeliveredAs
<1> HIDE DEF g
<1>8. DOMAIN A = X /\ \A k \in 1..r : A[g[k]] = L[h[k]]
  BY <1>7
<1>9. \A i, j \in 1..r : g[i] = g[j] => i = j
  BY <1>2, <1>5, <1>7 DEF DeliveredAs
<1>10. ASSUME NEW x \in X, A[x] \in DOMAIN C \ {s} PROVE \E i \in 1..r : g[i] = x
  <2>1. PICK y \in D : L[y] = x
    BY <1>3
  <2>2. PICK i \in 1..r : h[i] = y
    BY <1>5, <1>6, <1>10, <2>1 DEF DeliveredAs
  <2> QED
    BY <1>7, <2>1, <2>2
<1>11. \A k \in 1..Len(R) : k \in 1..r
  BY <1>5 DEF DeliveredAs
<1>12. \A i \in 1..r : A[g[i]] \in DOMAIN C \ {s}
  BY <1>5, <1>8 DEF DeliveredAs
<1>13. \A i, j \in 1..r : i < j => Before(C, P, A[g[i]], A[g[j]])
  BY <1>5, <1>8 DEF DeliveredAs
<1>14. \A k \in 1..Len(R) : Entered(A[g[k]], C, s, P, R[k])
  BY <1>5, <1>8, <1>11 DEF DeliveredAs
<1>15. g \in [1..r -> DOMAIN A]
  BY <1>7, <1>8
<1>16. \A x \in DOMAIN A : A[x] \in DOMAIN C \ {s} => \E i \in 1..r : g[i] = x
  BY <1>8, <1>10
<1>17. DeliveredAs(A, C, s, P, R, max, f, r, g)
  BY <1>5, <1>9, <1>12, <1>13, <1>14, <1>15, <1>16 DEF DeliveredAs
<1> QED
  BY <1>17 DEF Delivered

\* The places in A of candidates that have a route.
Routed(A, C, s) == {i \in DOMAIN A : A[i] \in DOMAIN C \ {s}}

\* Those of them that name n.
Named(A, I, n) == {i \in I : A[i] = n}

\* The places in R of entries for n.
Holding(R, n) == {k \in DOMAIN R : R[k].id = n}

\* As many candidates have a route as were counted.
LEMMA RoutedCount ==
  ASSUME NEW A, NEW C, NEW s, NEW P, NEW R, NEW max, NEW f, NEW r \in Nat, NEW h,
         DeliveredAs(A, C, s, P, R, max, f, r, h)
  PROVE  /\ IsFiniteSet(Routed(A, C, s)) /\ Cardinality(Routed(A, C, s)) = r
         /\ r = 0 <=> Routed(A, C, s) = {}
<1> DEFINE I == Routed(A, C, s)
           D == 1..r
<1>1. IsFiniteSet(D) /\ Cardinality(D) = r
  BY FS_Interval
<1>2. h \in [D -> I]
  BY DEF DeliveredAs, Routed
<1>3. \A x \in I : \E i \in D : h[i] = x
  BY DEF DeliveredAs, Routed
<1>4. \A i, j \in D : h[i] = h[j] => i = j
  BY DEF DeliveredAs
<1> HIDE DEF I
<1>5. h \in Bijection(D, I)
  BY <1>2, <1>3, <1>4 DEF Bijection, Injection, IsInjective, Surjection
<1>6. IsFiniteSet(I) /\ Cardinality(I) = r
  BY <1>1, <1>5, FS_Bijection DEF ExistsBijection
<1>7. r = 0 <=> I = {}
  BY <1>1, <1>6, FS_EmptySet
<1> QED
  BY <1>6, <1>7 DEF I

\* No candidate is ranked more often than it was named, and one that was named
\* more often than it is ranked comes after all that are.
LEMMA RankedCount ==
  ASSUME NEW A, NEW C, NEW s, NEW P, NEW R, NEW max, NEW f, NEW r \in Nat, NEW h,
         DeliveredAs(A, C, s, P, R, max, f, r, h), NEW n
  PROVE  /\ Cardinality(Holding(R, n)) <= Cardinality(Named(A, Routed(A, C, s), n))
         /\ Cardinality(Holding(R, n)) < Cardinality(Named(A, Routed(A, C, s), n)) =>
              \A k \in DOMAIN R : Before(C, P, R[k].id, n)
<1> DEFINE I == Routed(A, C, s)
           T == Holding(R, n)
           W == Named(A, I, n)
           D == DOMAIN R
           g == [k \in T |-> h[k]]
<1>1. /\ D = 1..Len(R) /\ D \subseteq 1..r
      /\ \A k \in D : R[k].id = A[h[k]] /\ h[k] \in I
  BY DEF DeliveredAs, Entered, Routed
<1>2. IsFiniteSet(I)
  BY RoutedCount
<1>3. W \in SUBSET I /\ T \in SUBSET D
  BY DEF Named, Holding
<1> HIDE DEF I
<1>4. g \in [T -> W]
  BY <1>1 DEF Named, Holding
<1> HIDE DEF T, W
<1>5. IsFiniteSet(W)
  BY <1>2, <1>3, FS_Subset
<1>6. \A i, j \in T : g[i] = g[j] => i = j
  BY <1>1, <1>3 DEF DeliveredAs
<1> HIDE DEF g
<1>7. g \in Injection(T, W)
  BY <1>4, <1>6 DEF Injection, IsInjective
<1>8. IsFiniteSet(T) /\ Cardinality(T) <= Cardinality(W)
  BY <1>5, <1>7, FS_Injection
<1>9. ASSUME Cardinality(T) < Cardinality(W), NEW k \in D PROVE Before(C, P, R[k].id, n)
  <2>1. PICK x \in W : \A i \in T : g[i] # x
    <3> SUFFICES ASSUME \A x \in W : \E i \in T : g[i] = x PROVE FALSE
      OBVIOUS
    <3>1. g \in Surjection(T, W)
      BY <1>4 DEF Surjection
    <3>2. Cardinality(T) = Cardinality(W)
      BY <1>5, <1>7, <3>1, FS_Injection
    <3>3. Cardinality(T) \in Nat
      BY <1>8, FS_CardinalityType
    <3> QED
      BY <1>9, <3>2, <3>3
  <2>2. x \in I /\ A[x] = n
    BY DEF W, Named
  <2>3. PICK j \in 1..r : h[j] = x
    BY <2>2 DEF DeliveredAs, I, Routed
  <2>4. j \notin D
    <3> SUFFICES ASSUME j \in D PROVE FALSE
      OBVIOUS
    <3>1. j \in T
      BY <1>1, <2>2, <2>3 DEF T, Holding
    <3>2. g[j] = x
      BY <2>3, <3>1 DEF g
    <3> QED
      BY <2>1, <3>1, <3>2
  <2>5. k < j /\ k \in 1..r
    BY <1>1, <2>4
  <2>6. Before(C, P, A[h[k]], A[h[j]])
    BY <2>5 DEF DeliveredAs
  <2> QED
    BY <1>1, <2>2, <2>3, <2>6
<1> QED
  BY <1>8, <1>9 DEF T, W, I

-----------------------------------------------------------------------------
(* The loop of rank_candidates.                                              *)

\* The NUMA penalty of every node.
Penalties == [n \in DOMAIN graph.nodes |-> NumaPenalty(from, n)]

\* The ids a caller names: the nodes of a type, or a list.
Asked == IF request.call = "type" THEN [n \in OfType |-> n] ELSE request.candidates

\* What is left of the list L after its first m candidates.
Rest(rest, L, m) ==
  /\ rest \in Seq(Nat) /\ L \in Seq(Nat)
  /\ m + Len(rest) = Len(L)
  /\ \A i \in 1..Len(rest) : rest[i] = L[m + i]

\* R holds the entries of the first m candidates of L.
Collected(L, m, g, s, K, P, R) ==
  /\ \E S : R \in Seq(S)
  /\ \A C : CheapestFrom(g, s, K, C) => \E b : Listing(L, m, C, s, P, R, b)

\* n has a route, and c is what the cheapest costs.
PricedAt(g, s, K, P, n, c) ==
  \A C : CheapestFrom(g, s, K, C) => n \in DOMAIN C /\ c = Price(C, P, n)

\* The caller gets what the costs K call for.
DeliveredAll(A, g, s, K, P, R, max, f) ==
  \A C : CheapestFrom(g, s, K, C) => Delivered(A, C, s, P, R, max, f)

\* m candidates of L are done with; the next is being searched for, unless the
\* loop is about to pick it.
AtCandidate(L, m) ==
  /\ Rest(left, L, IF stage = "pick" THEN m ELSE m + 1)
  /\ Collected(L, m, graph, from, Costs, Penalties, ranked)
  /\ stage # "pick" => to = L[m + 1] /\ to \in DOMAIN graph.nodes \ {from}

\* The searches of a call.
CallInv ==
  /\ from = request.source
  /\ in_collocation = FALSE
  /\ left \in Seq(Nat)
  /\ stage \in {"cost", "distance"} => to \in Nat
  /\ stage \in {"pick", "cost", "distance"} => from \in DOMAIN graph.nodes
  /\ stage = "call" => ranked = << >>
  /\ stage = "distance" => Bfs!SearchInv
  /\ stage = "NOT_FOUND" \/ (stage = "cost" /\ pc = "NOT_FOUND") => DanglingEnds(graph) # {}

\* The prices are numbers, and a cheapest route has one.
HasPrices == w.numa_penalty # NaN /\ NoNegativeEdge

\* The list of a ranking, the entry being made, and the result.
ListInv ==
  (request.call # "explain" /\ HasPrices) =>
    /\ stage \in {"pick", "cost", "distance"} => \E L \in Candidates, m \in Nat : AtCandidate(L, m)
    /\ stage = "distance" =>
         /\ entry.id = to
         /\ PricedAt(graph, from, Costs, Penalties, to, entry.cost)
         /\ entry.hop_count \in 0..Cardinality(DOMAIN graph.nodes)
         /\ Bfs!Near(graph, FALSE, from, to, entry.hop_count)
    /\ (stage = "done" /\ request.source \in DOMAIN graph.nodes) =>
         DeliveredAll(Asked, graph, from, Costs, Penalties, ranked, request.max_candidates, found)

-----------------------------------------------------------------------------
\* Costs, penalties and candidates are the same throughout a call.
LEMMA SamePrices ==
  ASSUME graph' = graph, from' = from, w' = w
  PROVE  Costs' = Costs /\ Penalties' = Penalties /\ (HasPrices' <=> HasPrices)
<1>1. \A i, u : Cost(i, u)' = Cost(i, u)
  BY DEF Cost, Neighbor, edge_traversal_cost, UnguardedCost, LatencyTerm, InverseBandwidthTerm
<1>2. Costs' = Costs
  BY <1>1 DEF Costs
<1>3. \A u, v : NumaPenalty(u, v)' = NumaPenalty(u, v)
  BY DEF NumaPenalty
<1>4. Penalties' = Penalties
  BY <1>3 DEF Penalties
<1>5. HasPrices' <=> HasPrices
  BY <1>1 DEF HasPrices, NoNegativeEdge, Adjacency, Neighbor
<1> QED
  BY <1>2, <1>4, <1>5

\* Prices are integers, and only nodes have one.
LEMMA PricesAre ==
  ASSUME w \in Weights, HasPrices, Measured(graph), from \in DOMAIN graph.nodes,
         NEW C, CheapestFrom(graph, from, Costs, C)
  PROVE  DOMAIN C \subseteq DOMAIN graph.nodes /\ Numbers(C, Penalties)
<1> DEFINE N == Cardinality(DOMAIN graph.nodes)
<1>1. N \in Nat
  BY FS_CardinalityType DEF Measured
<1>2. PICK B : C = B[N] /\ Bests(graph, from, N, Costs, B)
  BY DEF CheapestFrom
<1> HIDE DEF N
<1>3. DOMAIN C \subseteq DOMAIN graph.nodes /\ \A n \in DOMAIN C : C[n] \in Nat
  <2>1. CASE N = 0
    BY <1>2, <2>1 DEF Bests
  <2>2. CASE N # 0
    <3>1. N \in 1..N
      BY <1>1, <2>2
    <3> QED
      BY <1>2, <3>1 DEF Bests
  <2> QED
    BY <2>1, <2>2
<1>4. \A n \in DOMAIN graph.nodes : NumaPenalty(from, n) \in Int
  BY NumaIs DEF HasPrices
<1>5. \A n \in DOMAIN graph.nodes : n \in Nat /\ Penalties[n] \in Int
  BY <1>4 DEF Penalties, Measured
<1> QED
  BY <1>3, <1>5 DEF Numbers

\* The candidates are lists of ids.
LEMMA CandidatesAre ==
  ASSUME RankInv
  PROVE  /\ \A L \in Candidates : L \in Seq(Nat)
         /\ IsFiniteSet(OfType)
<1>1. request \in Requests
  BY DEF RankInv
<1>2. IsFiniteSet(DOMAIN request.graph.nodes) /\ DOMAIN request.graph.nodes \subseteq Nat
      /\ request.candidates \in Seq(Nat)
  BY <1>1, RequestsAssumption
<1>3. OfType \in SUBSET DOMAIN request.graph.nodes
  BY DEF OfType
<1>4. IsFiniteSet(OfType)
  BY <1>2, <1>3, FS_Subset
<1>5. Cardinality(OfType) \in Nat
  BY <1>4, FS_CardinalityType
<1>6. ASSUME NEW L \in SetToSeqs(OfType) PROVE L \in Seq(Nat)
  <2>1. L \in [1..Cardinality(OfType) -> OfType]
    BY DEF SetToSeqs
  <2>2. L \in [1..Cardinality(OfType) -> Nat]
    BY <1>2, <1>3, <2>1
  <2> QED
    BY <1>5, <2>2
<1> QED
  BY <1>2, <1>4, <1>6 DEF Candidates

-----------------------------------------------------------------------------
\* Taking the next candidate off the list.
LEMMA RestAdvances ==
  ASSUME NEW rest, NEW L, NEW m \in Nat, Rest(rest, L, m), rest # << >>, NEW more, more = Tail(rest)
  PROVE  Rest(more, L, m + 1) /\ Head(rest) = L[m + 1] /\ Head(rest) \in Nat
<1>1. /\ rest \in Seq(Nat) /\ L \in Seq(Nat) /\ Len(rest) \in Nat /\ Len(rest) # 0
      /\ m + Len(rest) = Len(L)
      /\ \A i \in 1..Len(rest) : rest[i] = L[m + i]
  BY DEF Rest
<1>2. /\ more \in Seq(Nat) /\ Len(more) = Len(rest) - 1
      /\ \A i \in 1..Len(more) : more[i] = rest[i + 1]
  BY <1>1
<1>3. Head(rest) = rest[1] /\ rest[1] = L[m + 1] /\ rest[1] \in Nat
  BY <1>1
<1>4. (m + 1) + Len(more) = Len(L)
  BY <1>1, <1>2
<1>5. ASSUME NEW i \in 1..Len(more) PROVE more[i] = L[(m + 1) + i]
  <2>1. i + 1 \in 1..Len(rest) /\ m + (i + 1) = (m + 1) + i
    BY <1>1, <1>2
  <2>2. rest[i + 1] = L[m + (i + 1)]
    BY <1>1, <2>1
  <2> QED
    BY <1>2, <2>1, <2>2
<1> QED
  BY <1>1, <1>2, <1>3, <1>4, <1>5 DEF Rest

\* At first there are no entries.
LEMMA CollectedBegins ==
  ASSUME NEW L, NEW g, NEW s, NEW K, NEW P, NEW R, R = << >>
  PROVE  Collected(L, 0, g, s, K, P, R)
<1>1. R \in Seq({})
  OBVIOUS
<1> QED
  BY <1>1, ListingBegins DEF Collected

\* A candidate that is passed over has no price.
LEMMA CollectedPasses ==
  ASSUME NEW L, NEW m \in Nat, NEW g, NEW s, NEW K, NEW P, NEW R, Collected(L, m, g, s, K, P, R),
         \A C : CheapestFrom(g, s, K, C) => L[m + 1] \notin DOMAIN C \ {s}
  PROVE  Collected(L, m + 1, g, s, K, P, R)
<1>1. ASSUME NEW C, CheapestFrom(g, s, K, C) PROVE \E b : Listing(L, m + 1, C, s, P, R, b)
  BY <1>1, ListingPasses DEF Collected
<1> QED
  BY <1>1 DEF Collected

\* A candidate that is entered at its price belongs there.
LEMMA CollectedGrows ==
  ASSUME NEW L, NEW m \in Nat, NEW g, NEW s, NEW K, NEW P, NEW R, Collected(L, m, g, s, K, P, R),
         L[m + 1] # s, NEW e, e.id = L[m + 1], e.hops <= e.hop_count,
         PricedAt(g, s, K, P, L[m + 1], e.cost), NEW out, out = Append(R, e)
  PROVE  Collected(L, m + 1, g, s, K, P, out)
<1>1. PICK S : R \in Seq(S)
  BY DEF Collected
<1>2. ASSUME NEW C, CheapestFrom(g, s, K, C) PROVE \E b : Listing(L, m + 1, C, s, P, out, b)
  <2>1. PICK b : Listing(L, m, C, s, P, R, b)
    BY <1>2 DEF Collected
  <2>2. Entered(L[m + 1], C, s, P, e)
    BY <1>2 DEF PricedAt, Entered
  <2> QED
    BY <1>1, <2>1, <2>2, ListingGrows
<1>3. out \in Seq(S \cup {e})
  <2>1. R \in Seq(S \cup {e})
    BY <1>1
  <2> QED
    BY <2>1
<1> QED
  BY <1>2, <1>3 DEF Collected

\* lowest_cost_path throws only at a dangling edge.
LEMMA CostThrows ==
  ASSUME RankInv, stage = "cost", CostNext, pc' = "NOT_FOUND"
  PROVE  DanglingEnds(graph) # {}
<1>1. Measured(graph) /\ GrowInv
  BY SnapshotMeasured DEF RankInv
<1>2. CASE Settle
  <2>1. pc = "search" /\ pq # {}
    BY <1>2 DEF Settle
  <2>2. Grown(graph, from, DOMAIN dist, parent, came_edge, dist, pq)
    BY <1>1, <2>1 DEF GrowInv
  <2> DEFINE u == Top[2]
  <2>3. u \in DOMAIN graph.nodes
    BY <1>1, <2>1, <2>2, GrownTop
  <2>4. PICK i \in Adjacency(u, FALSE) : Neighbor(i, u) \notin DOMAIN graph.nodes
    BY <1>2, <2>1 DEF Settle
  <2>5. Joins(graph, FALSE, i, u, Neighbor(i, u))
    BY <2>4, JoinsIsAdjacent
  <2> HIDE DEF u
  <2> QED
    BY <2>4, <2>5, JoinsDangling
<1>3. CASE Finish
  <2>1. pc = "rebuild" /\ cur = from
    BY <1>3 DEF Finish, fill_path
  <2>2. OnGraph(graph, segments)
    BY <1>1, <2>1 DEF GrowInv
  <2>3. \A i \in DOMAIN segments : {segments[i].from, segments[i].to} \subseteq DOMAIN graph.nodes
    <3> SUFFICES ASSUME NEW i \in DOMAIN segments
                 PROVE  {segments[i].from, segments[i].to} \subseteq DOMAIN graph.nodes
      OBVIOUS
    <3>1. segments[i] \in Segments(graph)
      BY <2>2 DEF OnGraph
    <3> QED
      BY <3>1 DEF Segments
  <2>4. ClassifyThrows(graph, from, to)
    BY <1>3, <2>3 DEF Finish, fill_path
  <2>5. PICK i \in ContainsEdges(graph.edges) : graph.edges[i].source \notin DOMAIN graph.nodes
    BY <2>4 DEF ClassifyThrows, DecidingEdges
  <2>6. <<i, "source">> \in DanglingEnds(graph)
    BY <2>5 DEF DanglingEnds, ContainsEdges
  <2> QED
    BY <2>6
<1> QED
  BY <1>2, <1>3 DEF CostNext, Return, Answered, Start, SkipStale, Arrive, GiveUp, AddUp, Rebuild

\* The hop search begins.
LEMMA HopsBegin ==
  ASSUME RankInv, CallInv, Measure
  PROVE  Bfs!SearchInv'
<1>1. /\ query' = query /\ in_collocation' = FALSE /\ pc' = "start"
      /\ parent' = << >> /\ came_edge' = << >> /\ segments' = << >>
  BY DEF Measure, NewSearch, CallInv
<1>2. query \in HopQueries
  <2>1. request \in Requests /\ to \in Nat
        /\ query = [graph |-> request.graph, from |-> request.source, to |-> to]
    BY DEF RankInv, CallInv, Measure
  <2> QED
    BY <2>1 DEF HopQueries
<1>3. pc' \in Bfs!PC
  BY <1>1 DEF Bfs!PC
<1> QED
  BY <1>1, <1>2, <1>3 DEF Bfs!SearchInv

\* Every step keeps the invariant of the searches.
LEMMA CallInvStep ==
  ASSUME RankInv, CallInv, [Next]_vars
  PROVE  CallInv'
<1>1. graph' = graph => DanglingEnds(graph)' = DanglingEnds(graph)
  BY DEF DanglingEnds
<1>2. CASE UNCHANGED vars
  <2>1. /\ query' = query /\ request' = request /\ stage' = stage /\ left' = left /\ ranked' = ranked
        /\ pc' = pc /\ in_collocation' = in_collocation /\ parent' = parent /\ came_edge' = came_edge
        /\ segments' = segments /\ cur' = cur /\ q' = q /\ visited' = visited
    BY <1>2 DEF vars, costVars, hopVars, rankVars
  <2>2. graph' = graph /\ from' = from /\ to' = to
    BY <2>1 DEF graph, from, to
  <2>3. Bfs!SearchInv => Bfs!SearchInv'
    <3>1. UNCHANGED Bfs!vars
      BY <2>1 DEF Bfs!vars
    <3> QED
      BY <3>1, HopsStutter
  <2> QED
    BY <1>1, <2>1, <2>2, <2>3 DEF CallInv
<1>3. CASE Call
  <2>1. /\ query' = query /\ request' = request /\ in_collocation' = in_collocation
        /\ \/ stage' = "pick" /\ left' \in Candidates /\ request.source \in DOMAIN graph.nodes
           \/ stage' = "done" /\ left' = left
    BY <1>3 DEF Call, costVars, hopVars
  <2>2. graph' = graph /\ from' = from /\ to' = to
    BY <2>1 DEF graph, from, to
  <2>3. left' \in Seq(Nat)
    BY <2>1, CandidatesAre DEF CallInv
  <2> QED
    BY <2>1, <2>2, <2>3 DEF CallInv
<1>4. CASE Skip \/ LeaveOut \/ Enter \/ Deliver
  <2>1. /\ query' = query /\ request' = request /\ in_collocation' = in_collocation
        /\ left' = left \/ (left # << >> /\ left' = Tail(left))
        /\ stage' \in {"pick", "done"}
        /\ stage \in {"pick", "cost", "distance"}
    BY <1>4 DEF Skip, LeaveOut, Enter, Deliver, costVars, hopVars
  <2>2. graph' = graph /\ from' = from /\ to' = to
    BY <2>1 DEF graph, from, to
  <2>3. left' \in Seq(Nat)
    BY <2>1 DEF CallInv
  <2> QED
    BY <2>1, <2>2, <2>3 DEF CallInv
<1>5. CASE Pick
  <2>1. /\ query' = [query EXCEPT !.to = Head(left)] /\ request' = request
        /\ in_collocation' = in_collocation /\ left # << >> /\ left' = Tail(left)
        /\ stage' = "cost" /\ stage = "pick" /\ pc' = "start"
    BY <1>5 DEF Pick, hopVars, NewSearch
  <2>2. graph' = graph /\ from' = from /\ to' = Head(left)
    BY <2>1 DEF graph, from, to, RankInv
  <2>3. left' \in Seq(Nat) /\ Head(left) \in Nat
    BY <2>1 DEF CallInv
  <2> QED
    BY <2>1, <2>2, <2>3 DEF CallInv
<1>6. CASE SearchCost
  <2>1. /\ request' = request /\ in_collocation' = in_collocation /\ left' = left
        /\ stage = "cost" /\ stage' = "cost" /\ CostNext
    BY <1>6 DEF SearchCost, hopVars, rankVars
  <2>2. query' = query
    BY <2>1 DEF CostNext, Return, Answered, Start, Settle, SkipStale, Arrive, GiveUp, AddUp,
           Rebuild,
         Finish, fill_path
  <2>3. graph' = graph /\ from' = from /\ to' = to
    BY <2>2 DEF graph, from, to
  <2>4. pc' = "NOT_FOUND" => DanglingEnds(graph) # {}
    BY <2>1, CostThrows
  <2> QED
    BY <1>1, <2>1, <2>3, <2>4 DEF CallInv
<1>7. CASE Measure
  <2>1. /\ query' = query /\ request' = request /\ in_collocation' = in_collocation /\ left' = left
        /\ stage = "cost" /\ stage' = "distance"
    BY <1>7 DEF Measure
  <2>2. graph' = graph /\ from' = from /\ to' = to
    BY <2>1 DEF graph, from, to
  <2> QED
    BY <1>7, <2>1, <2>2, HopsBegin DEF CallInv
<1>8. CASE SearchHops
  <2>1. /\ request' = request /\ left' = left /\ stage = "distance" /\ stage' = "distance"
        /\ Hops!Next
    BY <1>8 DEF SearchHops, rankVars
  <2>2. query' = query /\ in_collocation' = in_collocation
    BY <2>1 DEF Hops!Next, Hops!Return, Hops!Answered, Hops!Start, Hops!Visit, Hops!Arrive,
         Hops!GiveUp, Hops!WalkBack, Hops!Rebuild, Hops!fill_path
  <2>3. graph' = graph /\ from' = from /\ to' = to
    BY <2>2 DEF graph, from, to
  <2>4. Bfs!SearchInv'
    BY <2>1, HopStep DEF CallInv
  <2> QED
    BY <2>1, <2>2, <2>3, <2>4 DEF CallInv
<1>9. CASE Throw
  <2>1. /\ query' = query /\ request' = request /\ in_collocation' = in_collocation /\ left' = left
        /\ stage \in {"cost", "distance"} /\ stage' = "NOT_FOUND" /\ pc = "NOT_FOUND"
    BY <1>9 DEF Throw, costVars, hopVars
  <2>2. graph' = graph /\ from' = from /\ to' = to
    BY <2>1 DEF graph, from, to
  <2>3. DanglingEnds(graph) # {}
    <3>1. CASE stage = "cost"
      BY <2>1, <3>1 DEF CallInv
    <3>2. CASE stage = "distance"
      <4>1. Bfs!DanglingEnds(Bfs!graph) # {}
        BY <2>1, <3>2 DEF CallInv, Bfs!SearchInv
      <4> QED
        BY <4>1, SameEnds, SameGraph
    <3> QED
      BY <2>1, <3>1, <3>2
  <2> QED
    BY <1>1, <2>1, <2>2, <2>3 DEF CallInv
<1> QED
  BY <1>2, <1>3, <1>4, <1>5, <1>6, <1>7, <1>8, <1>9 DEF Next

\* The arguments of the call stay, and with them all that is computed from them.
LEMMA CallStays ==
  ASSUME RankInv, [Next]_vars
  PROVE  /\ graph' = graph /\ from' = from /\ w' = w /\ request' = request
         /\ ~Pick => query' = query
<1>1. w' = w /\ request' = request
  BY DEF Next, vars, costVars, rankVars, Call, Skip, Pick, SearchCost, LeaveOut, Measure,
         SearchHops,
         Enter, Throw, Deliver, CostNext, Return, Start, Settle, SkipStale, Arrive, GiveUp, AddUp, Finish
<1>2. CASE Pick
  BY <1>1, <1>2 DEF Pick, RankInv, graph, from
<1>3. ASSUME ~Pick PROVE query' = query
  BY <1>3 DEF Next, vars, costVars, rankVars, Call, Skip, SearchCost, LeaveOut, Measure, SearchHops,
         Enter, Throw, Deliver, CostNext, Return, Answered, Start, Settle, SkipStale, Arrive, GiveUp,
         AddUp, Rebuild, Finish, fill_path, Hops!Next, Hops!Return, Hops!Answered, Hops!Start,
         Hops!Visit, Hops!Arrive, Hops!GiveUp, Hops!WalkBack, Hops!Rebuild, Hops!fill_path
<1> QED
  BY <1>1, <1>2, <1>3 DEF graph, from

\* Between the steps of the loop, nothing that ListInv is about changes.
LEMMA LoopWaits ==
  ASSUME RankInv, ListInv, [Next]_vars, ~Pick,
         stage' = stage, left' = left, entry' = entry, ranked' = ranked, found' = found
  PROVE  ListInv'
<1>1. /\ graph' = graph /\ from' = from /\ w' = w /\ request' = request /\ to' = to
  BY CallStays DEF to
<1>2. Costs' = Costs /\ Penalties' = Penalties /\ (HasPrices' <=> HasPrices)
  BY <1>1, SamePrices
<1>3. OfType' = OfType /\ Candidates' = Candidates /\ Asked' = Asked
  BY <1>1 DEF OfType, Candidates, Asked
<1>4. \A L, m : AtCandidate(L, m) => AtCandidate(L, m)'
  BY <1>1, <1>2 DEF AtCandidate
<1> QED
  BY <1>1, <1>2, <1>3, <1>4 DEF ListInv

\* The loop begins with all candidates, in any order, and no entry.
LEMMA CallListInv ==
  ASSUME RankInv, CallInv, ListInv, Call
  PROVE  ListInv'
<1> SUFFICES ASSUME request'.call # "explain", HasPrices' PROVE ListInv'
  BY DEF ListInv
<1>1. /\ graph' = graph /\ from' = from /\ w' = w /\ request' = request
  BY CallStays DEF Next
<1>2. Candidates' = Candidates
  BY <1>1 DEF OfType, Candidates
<1>3. CASE stage' = "pick"
  <2>1. PICK L \in Candidates : left' = L
    BY <1>3 DEF Call
  <2>2. L \in Seq(Nat) /\ ranked' = << >>
    BY CandidatesAre DEF Call, CallInv
  <2>3. Rest(L, L, 0)
    BY <2>2 DEF Rest
  <2>4. Collected(L, 0, graph', from', Costs', Penalties', ranked')
    BY <2>2, CollectedBegins
  <2>5. AtCandidate(L, 0)'
    BY <1>3, <2>1, <2>3, <2>4 DEF AtCandidate
  <2>6. \E l \in Candidates, m \in Nat : AtCandidate(l, m)'
    BY <2>5
  <2> QED
    BY <1>2, <1>3, <2>6 DEF ListInv
<1>4. CASE stage' # "pick"
  <2>1. stage' = "done" /\ request.source \notin DOMAIN graph.nodes
    BY <1>1, <1>4 DEF Call
  <2> QED
    BY <1>1, <2>1 DEF ListInv
<1> QED
  BY <1>3, <1>4

\* The candidate at the head is passed over.
LEMMA SkipListInv ==
  ASSUME RankInv, CallInv, ListInv, Skip
  PROVE  ListInv'
<1> SUFFICES ASSUME request'.call # "explain", HasPrices' PROVE ListInv'
  BY DEF ListInv
<1>1. /\ graph' = graph /\ from' = from /\ w' = w /\ request' = request
  BY CallStays DEF Next
<1>2. /\ Candidates' = Candidates /\ Costs' = Costs /\ Penalties' = Penalties
      /\ HasPrices
  BY <1>1, SamePrices DEF OfType, Candidates
<1>3. /\ stage = "pick" /\ stage' = "pick" /\ left # << >> /\ left' = Tail(left) /\ ranked' = ranked
      /\ Head(left) \notin DOMAIN graph.nodes \ {from}
  BY <1>1 DEF Skip, Skipped, CallInv
<1>4. PICK L \in Candidates, m \in Nat : AtCandidate(L, m)
  BY <1>1, <1>2, <1>3 DEF ListInv
<1>5. Rest(left, L, m) /\ Collected(L, m, graph, from, Costs, Penalties, ranked)
  BY <1>3, <1>4 DEF AtCandidate
<1>6. Rest(left', L, m + 1) /\ Head(left) = L[m + 1]
  BY <1>3, <1>5, RestAdvances
<1>7. ASSUME NEW C, CheapestFrom(graph, from, Costs, C) PROVE L[m + 1] \notin DOMAIN C \ {from}
  <2>1. w \in Weights /\ Measured(graph) /\ from \in DOMAIN graph.nodes
    BY <1>3, SnapshotMeasured DEF RankInv, CallInv
  <2>2. DOMAIN C \subseteq DOMAIN graph.nodes
    BY <1>2, <1>7, <2>1, PricesAre
  <2> QED
    BY <1>3, <1>6, <2>2
<1>8. Collected(L, m + 1, graph, from, Costs, Penalties, ranked)
  BY <1>5, <1>7, CollectedPasses
<1>9. AtCandidate(L, m + 1)'
  BY <1>1, <1>2, <1>3, <1>6, <1>8 DEF AtCandidate
<1>10. m + 1 \in Nat
  OBVIOUS
<1>11. \E l \in Candidates, k \in Nat : AtCandidate(l, k)'
  BY <1>9, <1>10
<1> QED
  BY <1>2, <1>3, <1>11 DEF ListInv

\* The candidate at the head is searched for.
LEMMA PickListInv ==
  ASSUME RankInv, CallInv, ListInv, Pick
  PROVE  ListInv'
<1> SUFFICES ASSUME request'.call # "explain", HasPrices' PROVE ListInv'
  BY DEF ListInv
<1>1. /\ graph' = graph /\ from' = from /\ w' = w /\ request' = request
  BY CallStays DEF Next
<1>2. /\ Candidates' = Candidates /\ Costs' = Costs /\ Penalties' = Penalties
      /\ HasPrices
  BY <1>1, SamePrices DEF OfType, Candidates
<1>3. /\ stage = "pick" /\ stage' = "cost" /\ left # << >> /\ left' = Tail(left) /\ ranked' = ranked
      /\ Head(left) \in DOMAIN graph.nodes \ {from} /\ to' = Head(left)
  BY <1>1 DEF Pick, Skipped, CallInv, RankInv, to
<1>4. PICK L \in Candidates, m \in Nat : AtCandidate(L, m)
  BY <1>1, <1>2, <1>3 DEF ListInv
<1>5. Rest(left, L, m) /\ Collected(L, m, graph, from, Costs, Penalties, ranked)
  BY <1>3, <1>4 DEF AtCandidate
<1>6. Rest(left', L, m + 1) /\ Head(left) = L[m + 1]
  BY <1>3, <1>5, RestAdvances
<1>7. AtCandidate(L, m)'
  BY <1>1, <1>2, <1>3, <1>5, <1>6 DEF AtCandidate
<1>8. \E l \in Candidates, k \in Nat : AtCandidate(l, k)'
  BY <1>7
<1> QED
  BY <1>2, <1>3, <1>8 DEF ListInv

\* A candidate without a route has no price.
LEMMA LeaveOutListInv ==
  ASSUME RankInv, CallInv, ListInv, LeaveOut
  PROVE  ListInv'
<1> SUFFICES ASSUME request'.call # "explain", HasPrices' PROVE ListInv'
  BY DEF ListInv
<1>1. /\ graph' = graph /\ from' = from /\ w' = w /\ request' = request
  BY CallStays DEF Next, LeaveOut, Pick
<1>2. /\ Candidates' = Candidates /\ Costs' = Costs /\ Penalties' = Penalties
      /\ HasPrices
  BY <1>1, SamePrices DEF OfType, Candidates
<1>3. /\ stage = "cost" /\ stage' = "pick" /\ pc = "no_route" /\ left' = left /\ ranked' = ranked
      /\ request.call # "explain"
  BY DEF LeaveOut
<1>4. PICK L \in Candidates, m \in Nat : AtCandidate(L, m)
  BY <1>2, <1>3 DEF ListInv
<1>5. /\ Rest(left, L, m + 1) /\ Collected(L, m, graph, from, Costs, Penalties, ranked)
      /\ to = L[m + 1]
  BY <1>3, <1>4 DEF AtCandidate
<1>6. Measured(graph) /\ Searching /\ pq = {}
  BY <1>2, <1>3, SnapshotMeasured DEF RankInv, CostInv, HasPrices
<1>7. ASSUME NEW C, CheapestFrom(graph, from, Costs, C) PROVE L[m + 1] \notin DOMAIN C \ {from}
  <2>1. to \notin DOMAIN C
    BY <1>6, <1>7, NoWayWithoutLabel
  <2> QED
    BY <1>5, <2>1
<1>8. Collected(L, m + 1, graph, from, Costs, Penalties, ranked)
  BY <1>5, <1>7, CollectedPasses
<1>9. AtCandidate(L, m + 1)'
  BY <1>1, <1>2, <1>3, <1>5, <1>8 DEF AtCandidate
<1>10. m + 1 \in Nat
  OBVIOUS
<1>11. \E l \in Candidates, k \in Nat : AtCandidate(l, k)'
  BY <1>9, <1>10
<1> QED
  BY <1>2, <1>3, <1>11 DEF ListInv

\* The path found becomes the entry.
LEMMA MeasureListInv ==
  ASSUME RankInv, CallInv, ListInv, Measure
  PROVE  ListInv'
<1> SUFFICES ASSUME request'.call # "explain", HasPrices' PROVE ListInv'
  BY DEF ListInv
<1>1. /\ graph' = graph /\ from' = from /\ w' = w /\ request' = request /\ to' = to
  BY CallStays DEF Next, Measure, Pick, to
<1>2. /\ Candidates' = Candidates /\ Costs' = Costs /\ Penalties' = Penalties
      /\ HasPrices
  BY <1>1, SamePrices DEF OfType, Candidates
<1>3. /\ stage = "cost" /\ stage' = "distance" /\ pc = "found" /\ left' = left /\ ranked' = ranked
      /\ entry'.id = to /\ entry'.cost = total_cost /\ entry'.hop_count = Len(segments)
  BY <1>1 DEF Measure
<1>4. PICK L \in Candidates, m \in Nat : AtCandidate(L, m)
  BY <1>1, <1>2, <1>3 DEF ListInv
<1>5. /\ Rest(left, L, m + 1) /\ Collected(L, m, graph, from, Costs, Penalties, ranked)
      /\ to = L[m + 1] /\ to \in DOMAIN graph.nodes \ {from}
  BY <1>3, <1>4 DEF AtCandidate
<1>6. AtCandidate(L, m)'
  BY <1>1, <1>2, <1>3, <1>5 DEF AtCandidate
<1>7. /\ w \in Weights /\ NoNegativeEdge /\ Measured(graph) /\ from \in DOMAIN graph.nodes
      /\ Retracing(from) /\ total_cost = dist[to] ++ NumaPenalty(from, to)
  BY <1>2, <1>3, <1>5, SnapshotMeasured DEF RankInv, CostInv, CallInv, HasPrices
<1>8. PricedAt(graph, from, Costs, Penalties, to, total_cost)
  <2>1. ASSUME NEW C, CheapestFrom(graph, from, Costs, C)
        PROVE  to \in DOMAIN C /\ total_cost = Price(C, Penalties, to)
    <3>1. to \in DOMAIN C /\ dist[to] = C[to]
      BY <1>7, <2>1, LabelIsCheapest
    <3>2. Penalties[to] = NumaPenalty(from, to)
      BY <1>5 DEF Penalties
    <3>3. dist[to] \in Int /\ NumaPenalty(from, to) \in Int
      <4>1. dist[to] \in Nat
        BY <1>7 DEF Retracing, Optimal, Costed
      <4> QED
        BY <1>2, <1>7, <4>1, NumaIs DEF HasPrices
    <3>4. total_cost = dist[to] + NumaPenalty(from, to)
      BY <1>7, <3>3, PlusIs, NumbersAssumption DEF Double
    <3> QED
      BY <3>1, <3>2, <3>4 DEF Price
  <2> QED
    BY <2>1 DEF PricedAt
<1>9. /\ Len(segments) \in 0..Cardinality(DOMAIN graph.nodes)
      /\ Bfs!Near(graph, FALSE, from, to, Len(segments))
  <2>1. PICK d : /\ Tree(graph, FALSE, from, DOMAIN dist, parent, came_edge, d)
                 /\ Trace(graph, FALSE, to, DOMAIN dist, d, from, segments)
    BY <1>7 DEF Retracing
  <2>2. /\ Bfs!Tree(graph, FALSE, from, DOMAIN dist, parent, came_edge, d)
        /\ Bfs!Trace(graph, FALSE, to, DOMAIN dist, d, from, segments)
    BY <2>1, SameTree
  <2>3. segments # << >>
    BY <1>5, <2>1 DEF Trace
  <2>4. Bfs!IsFiniteSet(DOMAIN graph.nodes) /\ DOMAIN dist \subseteq DOMAIN graph.nodes
    BY <1>7, SameSizes DEF Measured, Retracing
  <2>5. /\ Len(segments) \in 1..Bfs!Cardinality(DOMAIN graph.nodes)
        /\ Bfs!Near(graph, FALSE, from, to, Len(segments))
    BY <2>2, <2>3, <2>4, HopQueriesFinite, Bfs!PathShowsNear
  <2>6. Bfs!Cardinality(DOMAIN graph.nodes) = Cardinality(DOMAIN graph.nodes)
    BY SameSizes
  <2> DEFINE z == Cardinality(DOMAIN graph.nodes)
             y == Bfs!Cardinality(DOMAIN graph.nodes)
             l == Len(segments)
  <2>7. z \in Nat
    BY <1>7, FS_CardinalityType DEF Measured
  <2>8. l \in 1..y /\ y = z
    BY <2>5, <2>6
  <2> HIDE DEF l, y, z
  <2>9. l \in 0..z
    BY <2>7, <2>8
  <2> QED
    BY <2>5, <2>9 DEF l, z
<1>10. \E l \in Candidates, k \in Nat : AtCandidate(l, k)'
  BY <1>6
<1> QED
  BY <1>1, <1>2, <1>3, <1>8, <1>9, <1>10 DEF ListInv

\* The distance of the entry is no longer than its path.
LEMMA EnterListInv ==
  ASSUME RankInv, CallInv, ListInv, Enter
  PROVE  ListInv'
<1> SUFFICES ASSUME request'.call # "explain", HasPrices' PROVE ListInv'
  BY DEF ListInv
<1>1. /\ graph' = graph /\ from' = from /\ w' = w /\ request' = request
  BY CallStays DEF Next, Enter, Pick
<1>2. /\ Candidates' = Candidates /\ Costs' = Costs /\ Penalties' = Penalties
      /\ HasPrices
  BY <1>1, SamePrices DEF OfType, Candidates
<1> DEFINE n == Cardinality(DOMAIN graph.nodes)
<1>3. /\ stage = "distance" /\ stage' = "pick" /\ pc \in {"found", "no_route"} /\ left' = left
  BY DEF Enter
<1>4. PICK e : /\ ranked' = Append(ranked, e)
               /\ e.id = entry.id /\ e.cost = entry.cost
               /\ e.hop_count = entry.hop_count /\ e.hops = Len(segments)
  BY DEF Enter
<1>5. PICK L \in Candidates, m \in Nat : AtCandidate(L, m)
  BY <1>1, <1>2, <1>3 DEF ListInv
<1>6. /\ Rest(left, L, m + 1) /\ Collected(L, m, graph, from, Costs, Penalties, ranked)
      /\ to = L[m + 1] /\ to # from
  BY <1>3, <1>5 DEF AtCandidate
<1>7. /\ entry.id = to /\ PricedAt(graph, from, Costs, Penalties, to, entry.cost)
      /\ entry.hop_count \in 0..n
      /\ Bfs!Near(graph, FALSE, from, to, entry.hop_count)
  BY <1>1, <1>2, <1>3 DEF ListInv
<1>8. Bfs!SearchInv /\ in_collocation = FALSE
  BY <1>3 DEF CallInv
<1>9. Len(segments) <= entry.hop_count
  <2>1. CASE pc = "found"
    <3> DEFINE h == entry.hop_count
    <3>1. h \in 0..Bfs!Cardinality(DOMAIN Bfs!graph.nodes)
      BY <1>7, SameSizes, SameEnds
    <3>2. Bfs!Near(Bfs!graph, in_collocation, Bfs!from, Bfs!to, h)
      BY <1>7, <1>8, SameEnds
    <3> HIDE DEF h
    <3>3. Len(segments) <= h
      BY <1>8, <2>1, <3>1, <3>2, HopQueriesFinite, Bfs!FoundIsNearest
    <3> QED
      BY <3>3 DEF h
  <2>2. CASE pc = "no_route"
    <3>1. Len(segments) = 0
      BY <1>8, <2>2 DEF Bfs!SearchInv
    <3> QED
      BY <1>7, <3>1
  <2> QED
    BY <1>3, <2>1, <2>2
<1>10. Collected(L, m + 1, graph, from, Costs, Penalties, ranked')
  <2>1. e.id = L[m + 1] /\ e.hops <= e.hop_count /\ L[m + 1] # from
    BY <1>4, <1>6, <1>7, <1>9
  <2>2. PricedAt(graph, from, Costs, Penalties, L[m + 1], e.cost)
    BY <1>4, <1>6, <1>7
  <2> QED
    BY <1>4, <1>6, <2>1, <2>2, CollectedGrows
<1>11. AtCandidate(L, m + 1)'
  BY <1>1, <1>2, <1>3, <1>6, <1>10 DEF AtCandidate
<1>12. m + 1 \in Nat
  OBVIOUS
<1>13. \E l \in Candidates, k \in Nat : AtCandidate(l, k)'
  BY <1>11, <1>12
<1> QED
  BY <1>2, <1>3, <1>13 DEF ListInv

\* Sorting and cutting give the caller the cheapest.
LEMMA DeliverListInv ==
  ASSUME RankInv, CallInv, ListInv, Deliver
  PROVE  ListInv'
<1> SUFFICES ASSUME request'.call # "explain", HasPrices' PROVE ListInv'
  BY DEF ListInv
<1>1. /\ graph' = graph /\ from' = from /\ w' = w /\ request' = request
  BY CallStays DEF Next, Deliver, Pick
<1>2. Asked' = Asked /\ Costs' = Costs /\ Penalties' = Penalties /\ HasPrices
  BY <1>1, SamePrices DEF OfType, Asked
<1>3. /\ stage = "pick" /\ stage' = "done" /\ left = << >> /\ (found' <=> ranked # << >>)
  BY DEF Deliver
<1>4. PICK T \in Sorted(ranked) : ranked' = Cut(T)
  BY DEF Deliver
<1>5. PICK L \in Candidates, m \in Nat : AtCandidate(L, m)
  BY <1>1, <1>2, <1>3 DEF ListInv
<1>6. Rest(left, L, m) /\ Collected(L, m, graph, from, Costs, Penalties, ranked)
  BY <1>3, <1>5 DEF AtCandidate
<1>7. L \in Seq(Nat) /\ m = Len(L) /\ DOMAIN L = 1..m
  <2>1. L \in Seq(Nat) /\ m + Len(left) = Len(L) /\ Len(left) = 0
    BY <1>3, <1>6 DEF Rest
  <2> QED
    BY <2>1
<1>8. PICK S : ranked \in Seq(S)
  BY <1>6 DEF Collected
<1> DEFINE max == request.max_candidates
           out == ranked'
<1>9. max \in Nat
  BY RequestsAssumption DEF RankInv
<1>10. out = IF 0 < max /\ max < Len(T) THEN SubSeq(T, 1, max) ELSE T
  BY <1>4 DEF Cut
<1> HIDE DEF max, out
<1>11. ASSUME NEW C, CheapestFrom(graph, from, Costs, C)
       PROVE  Delivered(Asked, C, from, Penalties, out, max, ranked # << >>)
  <2>1. Numbers(C, Penalties)
    <3>1. w \in Weights /\ Measured(graph) /\ from \in DOMAIN graph.nodes
      BY <1>3, SnapshotMeasured DEF RankInv, CallInv
    <3> QED
      BY <1>2, <1>11, <3>1, PricesAre
  <2>2. PICK b : Listing(L, m, C, from, Penalties, ranked, b)
    BY <1>6, <1>11 DEF Collected
  <2>3. Delivered(L, C, from, Penalties, out, max, ranked # << >>)
    BY <1>4, <1>7, <1>8, <1>9, <1>10, <2>1, <2>2, SortDelivers
  <2>4. CASE request.call = "type"
    <3>1. L \in SetToSeqs(OfType) /\ Asked = [n \in OfType |-> n]
      BY <2>4 DEF Candidates, Asked
    <3>2. IsFiniteSet(OfType)
      BY CandidatesAre
    <3> QED
      BY <2>3, <3>1, <3>2, OrderForgotten
  <2>5. CASE request.call # "type"
    <3>1. Asked = L
      BY <2>5 DEF Candidates, Asked
    <3> QED
      BY <2>3, <3>1
  <2> QED
    BY <2>4, <2>5
<1>12. DeliveredAll(Asked, graph, from, Costs, Penalties, out, max, ranked # << >>)
  BY <1>11 DEF DeliveredAll
<1>13. DeliveredAll(Asked, graph, from, Costs, Penalties, ranked', request.max_candidates, found')
  BY <1>3, <1>12 DEF out, max, DeliveredAll, Delivered, DeliveredAs
<1> QED
  BY <1>1, <1>2, <1>3, <1>13 DEF ListInv

\* The list and the result are right in every state.
LEMMA ListInvariant == Spec => [](RankInv /\ CallInv /\ ListInv)
<1>1. Init => CallInv /\ ListInv
  BY DEF Init, CallInv, ListInv, CostInit, from
<1>2. ASSUME RankInv, CallInv, ListInv, [Next]_vars PROVE ListInv'
  <2>1. CASE UNCHANGED vars \/ SearchCost \/ SearchHops
    <3>1. /\ stage' = stage /\ left' = left /\ entry' = entry /\ ranked' = ranked /\ found' = found
      BY <2>1 DEF vars, rankVars, SearchCost, SearchHops
    <3>2. ~Pick
      BY <3>1 DEF Pick
    <3> QED
      BY <1>2, <3>1, <3>2, LoopWaits
  <2>2. CASE Throw
    <3>1. stage' = "NOT_FOUND"
      BY <2>2 DEF Throw
    <3> QED
      BY <3>1 DEF ListInv
  <2> QED
    BY <1>2, <2>1, <2>2, CallListInv, SkipListInv, PickListInv, LeaveOutListInv, MeasureListInv,
       EnterListInv, DeliverListInv DEF Next
<1>3. ASSUME RankInv, CallInv, ListInv, [Next]_vars PROVE CallInv' /\ ListInv'
  BY <1>2, <1>3, CallInvStep
<1> QED
  BY <1>1, <1>3, RankInvariant, PTL DEF Spec

\* Where no edge has a negative cost and the NUMA penalty is finite, a ranking
\* holds the candidates that have a route, each as often as it was named, at the
\* price of the cheapest route, cheapest first; a cap keeps the cheapest. So for
\* every such snapshot and policy, every list and order of the hash table.
THEOREM RankingIsExact == Spec => []RankingExact
<1>1. RankInv /\ CallInv /\ ListInv => RankingExact
  <2> SUFFICES ASSUME RankInv, CallInv, ListInv, stage = "done", request.call # "explain",
                      request.source \in DOMAIN graph.nodes, HasPrices
               PROVE  RankingExact
    BY DEF RankingExact, CallInv, HasPrices
  <2> DEFINE C == Cheapest
             A == Asked
             P == Penalties
             I == Routed(A, C, from)
             max == request.max_candidates
  <2>1. w \in Weights /\ NoNegativeEdge /\ Measured(graph) /\ from \in DOMAIN graph.nodes
    BY SnapshotMeasured DEF RankInv, CallInv, HasPrices
  <2>2. CheapestFrom(graph, from, Costs, C)
    BY <2>1, CheapestIs
  <2>3. Delivered(A, C, from, P, ranked, max, found)
    BY <2>2 DEF ListInv, DeliveredAll
  <2>4. DOMAIN C \subseteq DOMAIN graph.nodes
    BY <2>1, <2>2, PricesAre
  <2>5. \A n \in DOMAIN C : Price(C, P, n) = C[n] + NumaPenalty(from, n)
    BY <2>4 DEF Price, Penalties
  <2>6. PICK r \in Nat : \E h : DeliveredAs(A, C, from, P, ranked, max, found, r, h)
    BY <2>3 DEF Delivered
  <2>7. PICK h : DeliveredAs(A, C, from, P, ranked, max, found, r, h)
    BY <2>6
  <2> HIDE DEF C, A, P, I, max
  <2>8. Cardinality(I) = r /\ (found <=> I # {})
    <3>1. Cardinality(I) = r /\ (r = 0 <=> I = {})
      BY <2>7, RoutedCount DEF I
    <3>2. found <=> r # 0
      BY <2>7 DEF DeliveredAs
    <3> QED
      BY <3>1, <3>2
  <2>9. /\ DOMAIN ranked = 1..Len(ranked)
        /\ Len(ranked) = IF max \in 1..r THEN max ELSE r
        /\ DOMAIN ranked \subseteq 1..r
        /\ \A k \in DOMAIN ranked :
             /\ ranked[k].id \in DOMAIN C
             /\ ranked[k].id = A[h[k]]
             /\ ranked[k].cost = Price(C, P, ranked[k].id)
             /\ ranked[k].hops <= ranked[k].hop_count
    BY <2>7 DEF DeliveredAs, Entered
  <2>10. ASSUME NEW k \in DOMAIN ranked, k > 1
         PROVE  k - 1 \in DOMAIN ranked /\ Before(C, P, ranked[k - 1].id, ranked[k].id)
    <3>1. k \in Int /\ k - 1 \in DOMAIN ranked /\ k - 1 < k
      BY <2>9, <2>10
    <3>2. Before(C, P, A[h[k - 1]], A[h[k]])
      BY <2>7, <2>9, <3>1 DEF DeliveredAs
    <3> QED
      BY <2>9, <3>1, <3>2
  <2>11. \A n : /\ Cardinality(Holding(ranked, n)) <= Cardinality(Named(A, I, n))
                /\ Cardinality(Holding(ranked, n)) < Cardinality(Named(A, I, n)) =>
                     \A k \in DOMAIN ranked : Before(C, P, ranked[k].id, n)
    BY <2>7, RankedCount DEF I
  <2>12. I = {i \in DOMAIN A : A[i] \in DOMAIN C \ {from}} /\ \A i \in I : A[i] \in DOMAIN C
    BY DEF I, Routed
  <2> DEFINE price(n) == C[n] + NumaPenalty(from, n)
             before(m, n) == price(m) < price(n) \/ (price(m) = price(n) /\ m <= n)
             times(n) == Cardinality({k \in DOMAIN ranked : ranked[k].id = n})
             wanted(n) == Cardinality({i \in I : A[i] = n})
  <2>13. \A m, n \in DOMAIN C : Before(C, P, m, n) => before(m, n)
    BY <2>5 DEF Before
  <2>14. \A n : times(n) = Cardinality(Holding(ranked, n)) /\ wanted(n) = Cardinality(Named(A, I, n))
    BY DEF Holding, Named
  <2> HIDE DEF before, times, wanted
  <2>15. \A k \in DOMAIN ranked :
           /\ times(ranked[k].id) <= wanted(ranked[k].id)
           /\ ranked[k].cost = price(ranked[k].id)
           /\ ranked[k].hops <= ranked[k].hop_count
           /\ k > 1 => before(ranked[k - 1].id, ranked[k].id)
    BY <2>5, <2>9, <2>10, <2>11, <2>13, <2>14
  <2>16. \A i \in I : times(A[i]) < wanted(A[i]) => \A k \in DOMAIN ranked : before(ranked[k].id, A[i])
    BY <2>9, <2>11, <2>12, <2>13, <2>14
  <2> QED
    BY <2>8, <2>9, <2>12, <2>15, <2>16 DEF RankingExact, C, A, Asked, max, before, times, wanted
<1> QED
  BY <1>1, ListInvariant, PTL
=============================================================================
