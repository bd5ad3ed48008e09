----------------------------- MODULE GraphLemmas -----------------------------
(***************************************************************************)
(* Facts the proofs share. About natural numbers: sets of positions have a *)
(* least and a greatest element, the elements of a finite one are told     *)
(* apart by their rank, and a loop that computes each value from the one   *)
(* before is a function of the iteration. About the tree a path search     *)
(* grows: how the walk back turns it into a path, and how deep it can be.  *)
(* About compare_snapshots, for all graphs: material changes do not        *)
(* accumulate unseen, and without repeated edge keys it is exact.          *)
(***************************************************************************)
EXTENDS TopologyDiff, Integers, Sequences, FiniteSetTheorems, TLAPS

\* A loop over an ascending vector has a first element: every nonempty set of
\* positions has a least one.
LEMMA LeastExists ==
  ASSUME NEW S, S \subseteq Nat, S # {}
  PROVE  \E x \in S : \A y \in S : x <= y
<1>1. \E x \in S : \A y \in S : ~ (<<y, x>> \in OpToRel(<, Nat))
  BY NatLessThanWellFounded, WFMin
<1>2. PICK x \in S : \A y \in S : ~ (<<y, x>> \in OpToRel(<, Nat))
  BY <1>1
<1>3. \A y \in S : ~ (y < x)
  BY <1>2 DEF OpToRel
<1> QED
  BY <1>3

\* A bounded nonempty set of naturals has a greatest element.
LEMMA GreatestExists ==
  ASSUME NEW S, S \subseteq Nat, S # {}, NEW n \in Nat, \A x \in S : x <= n
  PROVE  \E x \in S : \A y \in S : y <= x
<1> DEFINE T == {m \in Nat : \E x \in S : m + x = n}
<1>1. T \subseteq Nat /\ T # {}
  <2>1. PICK x : x \in S
    OBVIOUS
  <2>2. n - x \in Nat /\ (n - x) + x = n
    BY <2>1
  <2>3. n - x \in T
    BY <2>1, <2>2
  <2> QED
    BY <2>3
<1>2. PICK t \in T : \A y \in T : t <= y
  <2> HIDE DEF T
  <2> QED
    BY <1>1, LeastExists
<1>3. PICK x \in S : t + x = n
  BY <1>2
<1>4. ASSUME NEW y \in S PROVE y <= x
  <2>1. n - y \in Nat /\ (n - y) + y = n /\ y \in Nat /\ x \in Nat /\ t \in Nat
    BY <1>2
  <2>2. t <= n - y
    BY <1>2, <2>1
  <2> QED
    BY <1>3, <2>1, <2>2
<1> QED
  BY <1>4

\* The number of smaller elements counts a finite set of naturals through: it
\* is 0, 1, ..., one for each element.
LEMMA Ranks ==
  ASSUME NEW I, I \subseteq Nat, IsFiniteSet(I)
  PROVE  /\ Cardinality(I) \in Nat
         /\ \A i \in I : Cardinality({j \in I : j < i}) + 1 \in 1..Cardinality(I)
         /\ \A i, k \in I : Cardinality({j \in I : j < i}) = Cardinality({j \in I : j < k}) => i = k
         /\ \A k \in 1..Cardinality(I) : \E i \in I : Cardinality({j \in I : j < i}) = k - 1
         /\ \A i, k \in I : i < k => Cardinality({j \in I : j < i}) < Cardinality({j \in I : j < k})
<1> DEFINE below(i) == {j \in I : j < i}
           n == Cardinality(I)
           rank == [i \in I |-> Cardinality(below(i)) + 1]
<1>1. n \in Nat
  BY FS_CardinalityType
<1>2. ASSUME NEW i \in I
      PROVE  Cardinality(below(i)) \in Nat /\ Cardinality(below(i)) < n /\ IsFiniteSet(below(i))
  <2>1. below(i) \in SUBSET I /\ below(i) # I
    OBVIOUS
  <2> HIDE DEF below
  <2>2. /\ IsFiniteSet(below(i))
        /\ Cardinality(below(i)) <= n
        /\ n = Cardinality(below(i)) => I = below(i)
    BY <2>1, FS_Subset
  <2>3. Cardinality(below(i)) \in Nat
    BY <2>2, FS_CardinalityType
  <2> HIDE DEF n
  <2> QED
    BY <1>1, <2>1, <2>2, <2>3
<1>3. ASSUME NEW i \in I, NEW k \in I, i < k
      PROVE  Cardinality(below(i)) < Cardinality(below(k))
  <2>1. below(i) \in SUBSET below(k) /\ i \in below(k) /\ i \notin below(i)
    <3>1. i \in Nat /\ k \in Nat /\ \A j \in I : j \in Nat
      OBVIOUS
    <3>2. \A j \in I : j < i => j < k
      BY <1>3, <3>1
    <3>3. ~ (i < i)
      BY <3>1
    <3> QED
      BY <1>3, <3>2, <3>3
  <2> HIDE DEF below
  <2>2. /\ Cardinality(below(i)) <= Cardinality(below(k))
        /\ Cardinality(below(k)) = Cardinality(below(i)) => below(k) = below(i)
    BY <1>2, <2>1, FS_Subset
  <2>3. Cardinality(below(i)) \in Nat /\ Cardinality(below(k)) \in Nat
    BY <1>2
  <2> QED
    BY <2>1, <2>2, <2>3
<1>4. \A i, k \in I : Cardinality(below(i)) = Cardinality(below(k)) => i = k
  <2> SUFFICES ASSUME NEW i \in I, NEW k \in I, i # k
               PROVE  Cardinality(below(i)) # Cardinality(below(k))
    OBVIOUS
  <2>1. i < k \/ k < i
    OBVIOUS
  <2>2. Cardinality(below(i)) \in Nat /\ Cardinality(below(k)) \in Nat
    BY <1>2
  <2> HIDE DEF below
  <2>3. Cardinality(below(i)) < Cardinality(below(k)) \/ Cardinality(below(k)) < Cardinality(below(i))
    BY <1>3, <2>1
  <2> QED
    BY <2>2, <2>3
<1>5. rank \in Injection(I, 1..n)
  <2>1. rank \in [I -> 1..n]
    <3> HIDE DEF below, n
    <3> QED
      BY <1>1, <1>2
  <2>2. \A i, k \in I : rank[i] = rank[k] => i = k
    <3> HIDE DEF below
    <3> QED
      BY <1>2, <1>4
  <2> QED
    BY <2>1, <2>2 DEF Injection, IsInjective
<1>6. IsFiniteSet(1..n) /\ Cardinality(1..n) = n
  <2> HIDE DEF n
  <2> QED
    BY <1>1, FS_Interval
<1>7. rank \in Surjection(I, 1..n)
  <2> HIDE DEF rank
  <2> QED
    BY <1>5, <1>6, FS_Injection
<1>8. \A k \in 1..n : \E i \in I : rank[i] = k
  <2> HIDE DEF rank
  <2> QED
    BY <1>7 DEF Surjection
<1>9. \A k \in 1..n : \E i \in I : Cardinality(below(i)) = k - 1
  <2> SUFFICES ASSUME NEW k \in 1..n PROVE \E i \in I : Cardinality(below(i)) = k - 1
    OBVIOUS
  <2>1. PICK i \in I : rank[i] = k
    BY <1>8
  <2> HIDE DEF below, n
  <2> QED
    BY <1>1, <1>2, <2>1
<1> HIDE DEF rank
<1>10. \A i \in I : Cardinality(below(i)) + 1 \in 1..n
  <2> HIDE DEF below, n
  <2> QED
    BY <1>1, <1>2
<1> QED
  BY <1>1, <1>3, <1>4, <1>9, <1>10

\* A finite nonempty set of naturals has a greatest element.
LEMMA FiniteGreatest ==
  ASSUME NEW I, I \subseteq Nat, IsFiniteSet(I), I # {}
  PROVE  \E x \in I : \A y \in I : y <= x
<1> DEFINE below(i) == {j \in I : j < i}
           n == Cardinality(I)
<1>1. /\ n \in Nat
      /\ \A i \in I : Cardinality(below(i)) + 1 \in 1..n
      /\ \A k \in 1..n : \E i \in I : Cardinality(below(i)) = k - 1
      /\ \A i, k \in I : i < k => Cardinality(below(i)) < Cardinality(below(k))
  BY Ranks
<1>2. \A i \in I : Cardinality(below(i)) \in Nat
  <2> SUFFICES ASSUME NEW i \in I PROVE Cardinality(below(i)) \in Nat
    OBVIOUS
  <2>1. below(i) \in SUBSET I
    OBVIOUS
  <2> HIDE DEF below
  <2> QED
    BY <2>1, FS_Subset, FS_CardinalityType
<1> HIDE DEF below, n
<1>3. PICK i0 : i0 \in I
  OBVIOUS
<1>4. n \in 1..n
  BY <1>1, <1>2, <1>3
<1>5. PICK x \in I : Cardinality(below(x)) = n - 1
  BY <1>1, <1>4
<1>6. ASSUME NEW y \in I, x < y PROVE FALSE
  <2>1. Cardinality(below(x)) < Cardinality(below(y)) /\ Cardinality(below(y)) + 1 \in 1..n
    BY <1>1, <1>5, <1>6
  <2> QED
    BY <1>1, <1>2, <1>5, <2>1
<1>7. \A y \in I : x \in Nat /\ y \in Nat
  BY <1>5
<1> QED
  BY <1>5, <1>6, <1>7

\* f[k] is the result of k iterations of G from x0.
Iterates(f, G, x0, n) == f[0] = x0 /\ \A k \in 1..n : f[k] = G[f[k - 1]]

\* There are the results of n iterations, for every n.
LEMMA IterExists ==
  ASSUME NEW U, NEW G \in [U -> U], NEW x0 \in U, NEW N \in Nat
  PROVE  \E f \in [0..N -> U] : Iterates(f, G, x0, N)
<1> USE DEF Iterates
<1> DEFINE S == {n \in Nat : ~ \E f \in [0..n -> U] : Iterates(f, G, x0, n)}
<1>1. SUFFICES ASSUME S # {} PROVE FALSE
  OBVIOUS
<1>2. PICK n \in S : \A m \in S : n <= m
  <2>1. S \subseteq Nat
    OBVIOUS
  <2> HIDE DEF S
  <2> QED
    BY <1>1, <2>1, LeastExists
<1>3. n # 0
  <2>1. [k \in 0..0 |-> x0] \in [0..0 -> U] /\ Iterates([k \in 0..0 |-> x0], G, x0, 0)
    OBVIOUS
  <2> QED
    BY <1>2, <2>1
<1>4. n - 1 \in Nat /\ n - 1 \notin S
  <2>1. n \in Nat /\ n - 1 \in Nat /\ ~ (n <= n - 1)
    BY <1>2, <1>3
  <2> HIDE DEF S
  <2> QED
    BY <1>2, <2>1
<1>5. PICK f \in [0..(n - 1) -> U] : Iterates(f, G, x0, n - 1)
  BY <1>4
<1> DEFINE h == [k \in 0..n |-> IF k = n THEN G[f[n - 1]] ELSE f[k]]
<1>6. h \in [0..n -> U]
  BY <1>4, <1>5
<1>7. Iterates(h, G, x0, n)
  <2>1. h[0] = x0
    BY <1>2, <1>3, <1>5
  <2>2. ASSUME NEW k \in 1..n PROVE h[k] = G[h[k - 1]]
    <3>1. CASE k = n
      BY <1>3, <1>4, <3>1
    <3>2. CASE k # n
      <4>1. k \in 1..(n - 1) /\ k - 1 \in 0..(n - 1) /\ k \in 0..n /\ k - 1 \in 0..n /\ k - 1 # n
        BY <1>2, <3>2
      <4> QED
        BY <1>5, <3>2, <4>1
    <3> QED
      BY <3>1, <3>2
  <2> QED
    BY <2>1, <2>2
<1> QED
  BY <1>2, <1>6, <1>7

\* f[k] is the result of k steps from x0, each a function of its number and of
\* the result before.
Steps(f, G, x0, n) == f[0] = x0 /\ \A k \in 1..n : f[k] = G[<<k, f[k - 1]>>]

\* There are the results of n steps, for every n.
LEMMA StepsExist ==
  ASSUME NEW U, NEW G \in [Nat \X U -> U], NEW x0 \in U, NEW N \in Nat
  PROVE  \E f \in [0..N -> U] : Steps(f, G, x0, N)
<1> DEFINE V == Nat \X U
           H == [p \in V |-> <<p[1] + 1, G[<<p[1] + 1, p[2]>>]>>]
           z == <<0, x0>>
<1>1. H \in [V -> V] /\ z \in V
  OBVIOUS
<1>2. PICK h \in [0..N -> V] : Iterates(h, H, z, N)
  <2> HIDE DEF V, H, z
  <2> QED
    BY <1>1, IterExists
<1>3. h[0] = z /\ \A k \in 1..N : h[k] = H[h[k - 1]]
  BY <1>2 DEF Iterates
<1> DEFINE Off == {k \in 0..N : h[k][1] # k}
<1>4. Off = {}
  <2> SUFFICES ASSUME Off # {} PROVE FALSE
    OBVIOUS
  <2>1. Off \subseteq Nat
    OBVIOUS
  <2>2. PICK k \in Off : \A j \in Off : k <= j
    <3> HIDE DEF Off
    <3> QED
      BY <2>1, LeastExists
  <2>3. k \in 1..N /\ k - 1 \in 0..N /\ ~ (k <= k - 1)
    BY <1>3, <2>2
  <2>4. h[k - 1][1] = k - 1
    BY <2>2, <2>3
  <2>5. h[k - 1] \in V /\ h[k] = H[h[k - 1]]
    BY <1>2, <1>3, <2>3
  <2>6. h[k][1] = h[k - 1][1] + 1
    BY <2>5
  <2> QED
    BY <2>2, <2>3, <2>4, <2>6
<1> DEFINE f == [k \in 0..N |-> h[k][2]]
<1>5. f \in [0..N -> U]
  BY <1>2
<1>6. f[0] = x0
  BY <1>3
<1>7. ASSUME NEW k \in 1..N PROVE f[k] = G[<<k, f[k - 1]>>]
  <2>1. k \in 0..N /\ k - 1 \in 0..N /\ k - 1 + 1 = k
    OBVIOUS
  <2>2. h[k - 1] \in V /\ h[k] = H[h[k - 1]] /\ h[k - 1][1] = k - 1
    BY <1>2, <1>3, <1>4, <2>1
  <2>3. h[k][2] = G[<<h[k - 1][1] + 1, h[k - 1][2]>>]
    <3> DEFINE p == h[k - 1]
               v == G[<<p[1] + 1, p[2]>>]
    <3>1. H[p] = <<p[1] + 1, v>>
      BY <2>2
    <3> HIDE DEF v
    <3>2. h[k] = <<p[1] + 1, v>>
      BY <2>2, <3>1
    <3>3. h[k][2] = v
      BY <3>2
    <3> QED
      BY <3>3 DEF v
  <2>4. h[k][2] = G[<<k, h[k - 1][2]>>]
    BY <2>1, <2>2, <2>3
  <2> QED
    BY <2>1, <2>4
<1> HIDE DEF f
<1> QED
  BY <1>5, <1>6, <1>7 DEF Steps

-----------------------------------------------------------------------------
(* The orders of the model.                                                *)

\* InOrder lists exactly the positions of a finite set.
LEMMA InOrderLists ==
  ASSUME NEW I, I \subseteq Nat, IsFiniteSet(I)
  PROVE  /\ Cardinality(I) \in Nat
         /\ InOrder(I) \in [1..Cardinality(I) -> I]
         /\ \A i \in I : \E k \in 1..Cardinality(I) : InOrder(I)[k] = i
         /\ \A k, l \in 1..Cardinality(I) : InOrder(I)[k] = InOrder(I)[l] => k = l
<1> DEFINE below(i) == {j \in I : j < i}
           n == Cardinality(I)
           at == [k \in 1..n |-> CHOOSE i \in I : Cardinality(below(i)) = k - 1]
<1>1. /\ n \in Nat
      /\ \A i \in I : Cardinality(below(i)) + 1 \in 1..n
      /\ \A i, k \in I : Cardinality(below(i)) = Cardinality(below(k)) => i = k
      /\ \A k \in 1..n : \E i \in I : Cardinality(below(i)) = k - 1
  BY Ranks
<1>2. InOrder(I) = at
  BY DEF InOrder
<1> HIDE DEF below, n
<1>3. \A k \in 1..n : at[k] \in I /\ Cardinality(below(at[k])) = k - 1
  BY <1>1
<1>4. at \in [1..n -> I]
  BY <1>3
<1>5. ASSUME NEW i \in I PROVE \E k \in 1..n : at[k] = i
  <2> DEFINE k == Cardinality(below(i)) + 1
  <2>1. k \in 1..n
    BY <1>1
  <2>2. Cardinality(below(at[k])) = k - 1 /\ at[k] \in I
    BY <1>3, <2>1
  <2>3. Cardinality(below(i)) \in Int
    <3>1. below(i) \in SUBSET I
      BY DEF below
    <3> QED
      BY <3>1, FS_Subset, FS_CardinalityType
  <2>4. Cardinality(below(at[k])) = Cardinality(below(i))
    BY <2>2, <2>3
  <2> HIDE DEF at, k
  <2>5. at[k] = i
    BY <1>1, <2>2, <2>4
  <2> QED
    BY <2>1, <2>5
<1> HIDE DEF at
<1>6. ASSUME NEW k \in 1..n, NEW l \in 1..n, at[k] = at[l] PROVE k = l
  <2>1. k - 1 = l - 1
    BY <1>3, <1>6
  <2> QED
    BY <1>1, <2>1
<1> QED
  BY <1>1, <1>2, <1>4, <1>5, <1>6 DEF n

\* The new nodes, each reached by an edge of its own, are all queued.
LEMMA ByEdgeLists ==
  ASSUME NEW D, NEW found \in [D -> Nat], IsFiniteSet({found[v] : v \in D}),
         \A v, w \in D : found[v] = found[w] => v = w
  PROVE  /\ ByEdge(found) \in Seq(D)
         /\ \A v \in D : \E k \in 1..Len(ByEdge(found)) : ByEdge(found)[k] = v
         /\ \A k, l \in 1..Len(ByEdge(found)) : ByEdge(found)[k] = ByEdge(found)[l] => k = l
<1> DEFINE I == {found[v] : v \in D}
           n == Cardinality(I)
           at == InOrder(I)
           out == [k \in 1..n |-> CHOOSE v \in D : found[v] = at[k]]
<1>1. /\ n \in Nat /\ at \in [1..n -> I] /\ \A i \in I : \E k \in 1..n : at[k] = i
      /\ \A k, l \in 1..n : at[k] = at[l] => k = l
  <2>1. I \subseteq Nat
    OBVIOUS
  <2> HIDE DEF I
  <2> QED
    BY <2>1, InOrderLists DEF I
<1>2. ByEdge(found) = out
  <2>1. DOMAIN found = D /\ DOMAIN at = 1..n
    BY <1>1
  <2> HIDE DEF n
  <2> QED
    BY <2>1 DEF ByEdge
<1> HIDE DEF at, n
<1>3. \A k \in 1..n : \E v \in D : found[v] = at[k]
  BY <1>1
<1>4. \A k \in 1..n : out[k] \in D /\ found[out[k]] = at[k]
  BY <1>3
<1>5. out \in Seq(D) /\ Len(out) = n
  BY <1>1, <1>4
<1>6. ASSUME NEW v \in D PROVE \E k \in 1..n : out[k] = v
  <2>1. PICK k \in 1..n : at[k] = found[v]
    BY <1>1
  <2> HIDE DEF out
  <2>2. found[out[k]] = found[v] /\ out[k] \in D
    BY <1>4, <2>1
  <2> QED
    BY <2>2
<1> HIDE DEF out
<1>7. ASSUME NEW k \in 1..n, NEW l \in 1..n, out[k] = out[l] PROVE k = l
  BY <1>1, <1>4, <1>7
<1> QED
  BY <1>2, <1>5, <1>6, <1>7

-----------------------------------------------------------------------------
(* The tree of a search on a graph g from s, with or without collocation    *)
(* edges (c): the nodes V it has reached, their parents P along edges E.    *)

\* Edge i leads from u to v or back, and the search may take it.
Joins(g, c, i, u, v) ==
  /\ i \in Positions(g.edges)
  /\ {g.edges[i].source, g.edges[i].target} = {u, v}
  /\ g.edges[i].type \in {"SHARES_PARENT", "SHARES_NUMA"} => c

Tree(g, c, s, V, P, E, d) ==
  /\ s \in V
  /\ d \in [V -> Nat]
  /\ d[s] = 0
  /\ DOMAIN P = V \ {s}
  /\ DOMAIN E = V \ {s}
  /\ \A v \in V \ {s} :
       /\ P[v] \in V
       /\ Joins(g, c, E[v], P[v], v)
       /\ d[v] = d[P[v]] + 1

\* The segments lead from node x to t, one level down each.
Trace(g, c, t, V, d, x, segs) ==
  /\ x \in V
  /\ segs \in Seq([from : V, to : V, edge : Nat])
  /\ Len(segs) + d[x] = d[t]
  /\ \A i \in 1..Len(segs) :
       /\ Joins(g, c, segs[i].edge, segs[i].from, segs[i].to)
       /\ d[segs[i].to] = d[x] + i
       /\ segs[i].from = IF i = 1 THEN x ELSE segs[i - 1].to
  /\ IF Len(segs) = 0 THEN x = t ELSE segs[Len(segs)].to = t

\* One iteration of the walk back puts one more segment in front.
LEMMA RebuildKeeps ==
  ASSUME NEW g, NEW c, NEW s, NEW t, NEW V, NEW P, NEW E, NEW d, NEW x, NEW segs,
         Tree(g, c, s, V, P, E, d), Trace(g, c, t, V, d, x, segs), t \in V, x # s
  PROVE  Trace(g, c, t, V, d, P[x], <<[from |-> P[x], to |-> x, edge |-> E[x]]>> \o segs)
<1> DEFINE first == [from |-> P[x], to |-> x, edge |-> E[x]]
           out == <<first>> \o segs
           Segment == [from : V, to : V, edge : Nat]
           n == Len(segs)
<1>1. /\ x \in V /\ P[x] \in V /\ Joins(g, c, E[x], P[x], x)
      /\ d[x] = d[P[x]] + 1 /\ d[x] \in Nat /\ d[P[x]] \in Nat /\ d[t] \in Nat
  BY DEF Tree, Trace
<1>2. E[x] \in Nat
  BY <1>1 DEF Joins, Positions
<1>3. first \in Segment
  BY <1>1, <1>2
<1>4. segs \in Seq(Segment) /\ n \in Nat
  BY DEF Trace
<1> HIDE DEF Segment
<1>5. /\ out \in Seq(Segment) /\ Len(out) = n + 1
      /\ out[1] = first
      /\ \A i \in 1..n : out[i + 1] = segs[i]
  <2> HIDE DEF first
  <2> QED
    BY <1>3, <1>4
<1> HIDE DEF out
<1>6. Len(out) + d[P[x]] = d[t]
  BY <1>1, <1>4, <1>5 DEF Trace
<1>7. ASSUME NEW i \in 1..Len(out)
      PROVE  /\ Joins(g, c, out[i].edge, out[i].from, out[i].to)
             /\ d[out[i].to] = d[P[x]] + i
             /\ out[i].from = IF i = 1 THEN P[x] ELSE out[i - 1].to
  <2>1. CASE i = 1
    BY <1>1, <1>5, <2>1
  <2>2. CASE i # 1
    <3> DEFINE k == i - 1
    <3>1. k \in 1..n /\ k + 1 = i /\ k \in Nat
      BY <1>4, <1>5, <2>2
    <3>2. out[i] = segs[k]
      BY <1>5, <3>1
    <3>3. /\ Joins(g, c, segs[k].edge, segs[k].from, segs[k].to)
          /\ d[segs[k].to] = d[x] + k
          /\ segs[k].from = IF k = 1 THEN x ELSE segs[k - 1].to
      BY <3>1 DEF Trace
    <3>4. segs[k].from = out[i - 1].to
      <4>1. CASE k = 1
        BY <1>5, <3>3, <4>1
      <4>2. CASE k # 1
        <5>1. k - 1 \in 1..n /\ (k - 1) + 1 = i - 1
          BY <3>1, <4>2
        <5>2. out[i - 1] = segs[k - 1]
          BY <1>5, <5>1
        <5> QED
          BY <3>3, <4>2, <5>2
      <4> QED
        BY <4>1, <4>2
    <3>5. d[x] + k = d[P[x]] + i
      BY <1>1, <3>1
    <3> HIDE DEF k
    <3> QED
      BY <2>2, <3>2, <3>3, <3>4, <3>5
  <2> QED
    BY <2>1, <2>2
<1>8. Len(out) # 0 /\ out[Len(out)].to = t
  <2>1. CASE n = 0
    BY <1>5, <2>1 DEF Trace
  <2>2. CASE n # 0
    <3>1. n \in 1..n
      BY <1>4, <2>2
    <3>2. out[n + 1] = segs[n]
      BY <1>5, <3>1
    <3> QED
      BY <1>4, <1>5, <2>2, <3>2 DEF Trace
  <2> QED
    BY <2>1, <2>2
<1>9. Trace(g, c, t, V, d, P[x], out)
  BY <1>1, <1>5, <1>6, <1>7, <1>8 DEF Trace, Segment
<1> QED
  BY <1>9 DEF out

\* An edge with an end that is no node dangles.
LEMMA JoinsDangling ==
  ASSUME NEW g, NEW c, NEW i, NEW u, NEW v, Joins(g, c, i, u, v),
         ~({u, v} \subseteq DOMAIN g.nodes)
  PROVE  DanglingEnds(g) # {}
<1>1. i \in Positions(g.edges)
  BY DEF Joins
<1>2. g.edges[i].source \notin DOMAIN g.nodes \/ g.edges[i].target \notin DOMAIN g.nodes
  BY DEF Joins
<1>3. CASE g.edges[i].source \notin DOMAIN g.nodes
  <2>1. <<i, "source">> \in DanglingEnds(g)
    BY <1>1, <1>3 DEF DanglingEnds
  <2> QED
    BY <2>1
<1>4. CASE g.edges[i].target \notin DOMAIN g.nodes
  <2>1. <<i, "target">> \in DanglingEnds(g)
    BY <1>1, <1>4 DEF DanglingEnds
  <2> QED
    BY <2>1
<1> QED
  BY <1>2, <1>3, <1>4

\* There is a node of every smaller depth, so no depth exceeds the number of nodes.
LEMMA DepthBound ==
  ASSUME NEW g, NEW c, NEW s, NEW V, NEW P, NEW E, NEW d, NEW t \in V, NEW X,
         Tree(g, c, s, V, P, E, d), V \subseteq X, IsFiniteSet(X)
  PROVE  d[t] <= Cardinality(X)
<1>1. d[t] \in Nat /\ \A v \in V : d[v] \in Nat
  BY DEF Tree
<1>2. \A k \in 0..d[t] : \E v \in V : d[v] = k
  <2> DEFINE S == {k \in 0..d[t] : ~ \E v \in V : d[v] = k}
  <2> SUFFICES ASSUME S # {} PROVE FALSE
    OBVIOUS
  <2>1. PICK k \in S : \A j \in S : j <= k
    <3>1. S \subseteq Nat /\ \A j \in S : j <= d[t]
      BY <1>1
    <3> HIDE DEF S
    <3> QED
      BY <1>1, <3>1, GreatestExists
  <2>2. k # d[t]
    BY <2>1
  <2>3. k + 1 \in 0..d[t] /\ ~(k + 1 <= k) /\ k \in Nat
    BY <1>1, <2>1, <2>2
  <2>4. PICK v \in V : d[v] = k + 1
    BY <2>1, <2>3
  <2>5. v # s
    BY <2>3, <2>4 DEF Tree
  <2>6. P[v] \in V /\ d[v] = d[P[v]] + 1
    BY <2>5 DEF Tree
  <2>7. d[P[v]] = k
    BY <1>1, <2>3, <2>4, <2>6
  <2> QED
    BY <2>1, <2>6, <2>7
<1> DEFINE at == [k \in 0..d[t] |-> CHOOSE v \in V : d[v] = k]
<1>3. \A k \in 0..d[t] : at[k] \in V /\ d[at[k]] = k
  BY <1>2
<1>4. at \in Injection(0..d[t], X)
  <2>1. at \in [0..d[t] -> X]
    BY <1>3
  <2>2. \A j, k \in 0..d[t] : at[j] = at[k] => j = k
    <3> HIDE DEF at
    <3> QED
      BY <1>3
  <2> QED
    BY <2>1, <2>2 DEF Injection, IsInjective
<1>5. Cardinality(0..d[t]) = d[t] + 1
  BY <1>1, FS_Interval
<1>6. Cardinality(0..d[t]) <= Cardinality(X)
  <2> HIDE DEF at
  <2> QED
    BY <1>4, FS_Injection
<1>7. Cardinality(X) \in Nat
  BY FS_CardinalityType
<1> QED
  BY <1>1, <1>5, <1>6, <1>7

-----------------------------------------------------------------------------
(* The laws of compare_snapshots. Nothing is assumed of the graphs but that  *)
(* their edge vectors are indexed by naturals.                              *)

\* A scan of an edge vector for a key that occurs in it stops at a first match.
LEMMA FirstMatchExists ==
  ASSUME NEW edges, NEW i \in Positions(edges)
  PROVE  \E j \in Positions(edges) :
           IsFirst(edges, j) /\ EdgeKey(edges[j]) = EdgeKey(edges[i])
<1> DEFINE T == {j \in Positions(edges) : EdgeKey(edges[j]) = EdgeKey(edges[i])}
<1>1. T \subseteq Nat /\ T # {}
  BY DEF Positions
<1>2. PICK x \in T : \A y \in T : x <= y
  <2> HIDE DEF T
  <2> QED
    BY <1>1, LeastExists
<1>3. IsFirst(edges, x)
  BY <1>1, <1>2 DEF IsFirst
<1> QED
  BY <1>2, <1>3

\* compare_snapshots without a material event is transitive.
LEMMA MaterialChangeTransitive ==
  ASSUME NEW a, NEW b, NEW c, ~MaterialChange(a, b), ~MaterialChange(b, c)
  PROVE  ~MaterialChange(a, c)
<1>1. DOMAIN a.nodes = DOMAIN b.nodes /\ DOMAIN b.nodes = DOMAIN c.nodes
  BY DEF MaterialChange, NodeAdded, NodeRemoved
<1>2. NodeAdded(a, c) = {} /\ NodeRemoved(a, c) = {}
  BY <1>1 DEF NodeAdded, NodeRemoved
<1>3. CapabilityChanged(a, c) = {}
  BY <1>1 DEF MaterialChange, CapabilityChanged, CommonNodes
<1>4. LocalityChanged(a, c) = {}
  BY <1>1 DEF MaterialChange, LocalityChanged, CommonNodes
<1>5. ProviderChanged(a, c) = {}
  BY <1>1 DEF MaterialChange, ProviderChanged, CommonNodes
<1>6. EdgeKeys(a.edges) = EdgeKeys(b.edges) /\ EdgeKeys(b.edges) = EdgeKeys(c.edges)
  BY DEF MaterialChange, EdgeAdded, EdgeRemoved
<1>7. EdgeAdded(a, c) = {} /\ EdgeRemoved(a, c) = {}
  BY <1>6 DEF EdgeAdded, EdgeRemoved
<1>8. EdgePropertyChanged(a, c) = {}
  <2> SUFFICES ASSUME NEW j \in Positions(c.edges), NEW i \in Positions(a.edges),
                      EdgeKey(a.edges[i]) = EdgeKey(c.edges[j]), IsFirst(a.edges, i)
               PROVE  a.edges[i].link = c.edges[j].link
    BY DEF EdgePropertyChanged
  <2>1. EdgeKey(c.edges[j]) \in EdgeKeys(b.edges)
    BY <1>6 DEF EdgeKeys
  <2>2. PICK h \in Positions(b.edges) : EdgeKey(b.edges[h]) = EdgeKey(c.edges[j])
    BY <2>1 DEF EdgeKeys
  <2>3. PICK k \in Positions(b.edges) :
          IsFirst(b.edges, k) /\ EdgeKey(b.edges[k]) = EdgeKey(b.edges[h])
    BY FirstMatchExists
  <2>4. a.edges[i].link = b.edges[k].link
    BY <2>2, <2>3 DEF MaterialChange, EdgePropertyChanged
  <2>5. b.edges[k].link = c.edges[j].link
    BY <2>2, <2>3 DEF MaterialChange, EdgePropertyChanged
  <2> QED
    BY <2>4, <2>5
<1> QED
  BY <1>2, <1>3, <1>4, <1>5, <1>7, <1>8 DEF MaterialChange

\* Graphs with unique edge keys and no material change have the same content.
LEMMA QuietMeansSameView ==
  ASSUME NEW a, NEW b, UniqueKeys(a), UniqueKeys(b), ~MaterialChange(a, b)
  PROVE  MaterialView(a) = MaterialView(b)
<1> DEFINE NodeFacts(g) == [n \in DOMAIN g.nodes |->
                              <<g.nodes[n].caps, g.nodes[n].numa, g.nodes[n].provider>>]
           Links(g) == {<<EdgeKey(g.edges[i]), g.edges[i].link>> : i \in Positions(g.edges)}
<1>1. DOMAIN a.nodes = DOMAIN b.nodes
  BY DEF MaterialChange, NodeAdded, NodeRemoved
<1>2. \A n \in DOMAIN a.nodes :
        /\ a.nodes[n].caps = b.nodes[n].caps
        /\ a.nodes[n].numa = b.nodes[n].numa
        /\ a.nodes[n].provider = b.nodes[n].provider
  BY <1>1 DEF MaterialChange, CapabilityChanged, LocalityChanged, ProviderChanged, CommonNodes
<1>3. NodeFacts(a) = NodeFacts(b)
  BY <1>1, <1>2
<1>4. EdgeKeys(a.edges) = EdgeKeys(b.edges)
  BY DEF MaterialChange, EdgeAdded, EdgeRemoved
<1>5. \A i \in Positions(a.edges), j \in Positions(b.edges) :
        EdgeKey(a.edges[i]) = EdgeKey(b.edges[j]) => a.edges[i].link = b.edges[j].link
  BY DEF MaterialChange, EdgePropertyChanged, UniqueKeys
<1>6. Links(a) = Links(b)
  <2>1. ASSUME NEW i \in Positions(a.edges)
        PROVE  <<EdgeKey(a.edges[i]), a.edges[i].link>> \in Links(b)
    <3>1. PICK j \in Positions(b.edges) : EdgeKey(b.edges[j]) = EdgeKey(a.edges[i])
      BY <1>4 DEF EdgeKeys
    <3> QED
      BY <1>5, <3>1
  <2>2. ASSUME NEW j \in Positions(b.edges)
        PROVE  <<EdgeKey(b.edges[j]), b.edges[j].link>> \in Links(a)
    <3>1. PICK i \in Positions(a.edges) : EdgeKey(b.edges[j]) = EdgeKey(a.edges[i])
      BY <1>4 DEF EdgeKeys
    <3> QED
      BY <1>5, <3>1
  <2> QED
    BY <2>1, <2>2
<1> QED
  BY <1>3, <1>6 DEF MaterialView

\* Graphs with unique edge keys and the same content show no material change.
LEMMA SameViewMeansQuiet ==
  ASSUME NEW a, NEW b, UniqueKeys(a), UniqueKeys(b), MaterialView(a) = MaterialView(b)
  PROVE  ~MaterialChange(a, b)
<1> DEFINE NodeFacts(g) == [n \in DOMAIN g.nodes |->
                              <<g.nodes[n].caps, g.nodes[n].numa, g.nodes[n].provider>>]
           Links(g) == {<<EdgeKey(g.edges[i]), g.edges[i].link>> : i \in Positions(g.edges)}
<1>1. NodeFacts(a) = NodeFacts(b) /\ Links(a) = Links(b)
  BY DEF MaterialView
<1>2. DOMAIN a.nodes = DOMAIN b.nodes
  BY <1>1
<1>3. \A n \in DOMAIN a.nodes :
        /\ a.nodes[n].caps = b.nodes[n].caps
        /\ a.nodes[n].numa = b.nodes[n].numa
        /\ a.nodes[n].provider = b.nodes[n].provider
  <2> SUFFICES ASSUME NEW n \in DOMAIN a.nodes
               PROVE  <<a.nodes[n].caps, a.nodes[n].numa, a.nodes[n].provider>> =
                      <<b.nodes[n].caps, b.nodes[n].numa, b.nodes[n].provider>>
    OBVIOUS
  <2>1. NodeFacts(a)[n] = NodeFacts(b)[n]
    BY <1>1
  <2> QED
    BY <1>2, <2>1
<1>4. \A i \in Positions(a.edges) : \E j \in Positions(b.edges) :
        EdgeKey(a.edges[i]) = EdgeKey(b.edges[j]) /\ a.edges[i].link = b.edges[j].link
  <2> TAKE i \in Positions(a.edges)
  <2>1. <<EdgeKey(a.edges[i]), a.edges[i].link>> \in Links(a)
    OBVIOUS
  <2>2. PICK j \in Positions(b.edges) :
          <<EdgeKey(a.edges[i]), a.edges[i].link>> = <<EdgeKey(b.edges[j]), b.edges[j].link>>
    BY <1>1, <2>1
  <2> QED
    BY <2>2
<1>5. \A j \in Positions(b.edges) : \E i \in Positions(a.edges) :
        EdgeKey(a.edges[i]) = EdgeKey(b.edges[j]) /\ a.edges[i].link = b.edges[j].link
  <2> TAKE j \in Positions(b.edges)
  <2>1. <<EdgeKey(b.edges[j]), b.edges[j].link>> \in Links(b)
    OBVIOUS
  <2>2. PICK i \in Positions(a.edges) :
          <<EdgeKey(a.edges[i]), a.edges[i].link>> = <<EdgeKey(b.edges[j]), b.edges[j].link>>
    BY <1>1, <2>1
  <2> QED
    BY <2>2
<1>6. EdgeAdded(a, b) = {} /\ EdgeRemoved(a, b) = {}
  BY <1>4, <1>5 DEF EdgeAdded, EdgeRemoved, EdgeKeys
<1>7. EdgePropertyChanged(a, b) = {}
  <2> SUFFICES ASSUME NEW j \in Positions(b.edges), NEW i \in Positions(a.edges),
                      EdgeKey(a.edges[i]) = EdgeKey(b.edges[j])
               PROVE  a.edges[i].link = b.edges[j].link
    BY DEF EdgePropertyChanged
  <2>1. PICK h \in Positions(a.edges) :
          EdgeKey(a.edges[h]) = EdgeKey(b.edges[j]) /\ a.edges[h].link = b.edges[j].link
    BY <1>5
  <2>2. h \in Nat /\ i \in Nat
    BY DEF Positions
  <2>3. h = i
    BY <2>1, <2>2 DEF UniqueKeys, IsFirst
  <2> QED
    BY <2>1, <2>3
<1> QED
  BY <1>2, <1>3, <1>6, <1>7 DEF MaterialChange, NodeAdded, NodeRemoved, CommonNodes,
     CapabilityChanged, LocalityChanged, ProviderChanged
=============================================================================
