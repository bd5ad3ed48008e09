------------------------ MODULE SnapshotImportProofs -------------------------
(***************************************************************************)
(* An import is right for every document: the topological sort of take()   *)
(* reports a cycle exactly when containment has one, what is accepted is   *)
(* complete and within the bounds, every call is counted once, and a       *)
(* snapshot exported and imported again is the same topology.              *)
(***************************************************************************)
EXTENDS SnapshotImport, GraphLemmas

-----------------------------------------------------------------------------
(* Kahn's algorithm on an edge vector es, when the nodes X have been        *)
(* visited.                                                                 *)

Ends(es) == UNION {{es[i].source, es[i].target} : i \in ContainsEdges(es)}

\* The edges into n from nodes that have not been visited.
Into(es, n, X) == {i \in ContainsEdges(es) : es[i].target = n /\ es[i].source \notin X}

\* indeg counts those, a node without any is visited or stacked, and no set in
\* which every node has a parent holds a node that was visited.
Sorting(es, X, indeg, stack) ==
  /\ X \subseteq Ends(es)
  /\ DOMAIN indeg = Ends(es)
  /\ \A n \in Ends(es) : indeg[n] = Cardinality(Into(es, n, X))
  /\ stack \in Seq(Ends(es) \ X)
  /\ \A i, j \in 1..Len(stack) : stack[i] = stack[j] => i = j
  /\ \A n \in Ends(es) :
       (n \in X \/ \E i \in 1..Len(stack) : stack[i] = n) <=> Into(es, n, X) = {}
  /\ \A S \in SUBSET Ends(es) : Rootless(es, S) => S \cap X = {}

LEMMA EndsFinite ==
  ASSUME NEW es, IsFiniteSet(ContainsEdges(es))
  PROVE  IsFiniteSet(Ends(es))
<1> DEFINE C == ContainsEdges(es)
           A == {es[i].source : i \in C}
           B == {es[i].target : i \in C}
           f == [i \in C |-> es[i].source]
           h == [i \in C |-> es[i].target]
<1>1. f \in Surjection(C, A)
  BY DEF Surjection
<1>2. h \in Surjection(C, B)
  BY DEF Surjection
<1>3. Ends(es) = A \cup B
  BY DEF Ends
<1> HIDE DEF A, B, C, f, h
<1>4. IsFiniteSet(A) /\ IsFiniteSet(B)
  BY <1>1, <1>2, FS_Surjection DEF C
<1> QED
  BY <1>3, <1>4, FS_Union

\* No counter, or a counter of zero, means no edge.
LEMMA IntoFinite ==
  ASSUME NEW es, IsFiniteSet(ContainsEdges(es)), NEW n, NEW X
  PROVE  /\ IsFiniteSet(Into(es, n, X)) /\ Cardinality(Into(es, n, X)) \in Nat
         /\ Cardinality(Into(es, n, X)) = 0 <=> Into(es, n, X) = {}
<1>1. Into(es, n, X) \in SUBSET ContainsEdges(es)
  BY DEF Into
<1>2. IsFiniteSet(Into(es, n, X))
  BY <1>1, FS_Subset
<1> QED
  BY <1>2, FS_CardinalityType, FS_EmptySet

\* An order of all elements of a finite set leaves none out.
LEMMA SeqsHoldAll ==
  ASSUME NEW S, IsFiniteSet(S), NEW s \in SetToSeqs(S)
  PROVE  /\ s \in Seq(S) /\ Len(s) = Cardinality(S)
         /\ \A i, j \in 1..Len(s) : s[i] = s[j] => i = j
         /\ \A n \in S : \E i \in 1..Len(s) : s[i] = n
<1> DEFINE N == Cardinality(S)
<1>1. N \in Nat
  BY FS_CardinalityType
<1>2. s \in [1..N -> S] /\ \A i, j \in 1..N : i # j => s[i] # s[j]
  BY DEF SetToSeqs
<1> HIDE DEF N
<1>3. s \in Seq(S) /\ Len(s) = N
  BY <1>1, <1>2
<1>4. s \in Injection(1..N, S)
  BY <1>2 DEF Injection, IsInjective
<1>5. Cardinality(1..N) = N
  BY <1>1, FS_Interval
<1>6. s \in Surjection(1..N, S)
  BY <1>4, <1>5, FS_Injection DEF N
<1>7. \A n \in S : \E i \in 1..N : s[i] = n
  BY <1>6 DEF Surjection
<1> QED
  BY <1>2, <1>3, <1>7 DEF N

\* The roots are stacked first.
LEMMA SortBegins ==
  ASSUME NEW es, IsFiniteSet(ContainsEdges(es)), NEW indeg,
         indeg = [n \in Ends(es) |-> Cardinality({i \in ContainsEdges(es) : es[i].target = n})],
         NEW stack \in SetToSeqs({n \in Ends(es) : indeg[n] = 0})
  PROVE  Sorting(es, {}, indeg, stack)
<1> DEFINE S == {n \in Ends(es) : indeg[n] = 0}
<1>1. ASSUME NEW n \in Ends(es)
      PROVE  indeg[n] = Cardinality(Into(es, n, {})) /\ (indeg[n] = 0 <=> Into(es, n, {}) = {})
  <2>1. Into(es, n, {}) = {i \in ContainsEdges(es) : es[i].target = n}
    BY DEF Into
  <2>2. indeg[n] = Cardinality(Into(es, n, {}))
    BY <2>1
  <2> QED
    BY <2>2, IntoFinite
<1>2. IsFiniteSet(S)
  <2>1. S \in SUBSET Ends(es)
    OBVIOUS
  <2> HIDE DEF S
  <2> QED
    BY <2>1, EndsFinite, FS_Subset
<1>3. /\ stack \in Seq(S)
      /\ \A i, j \in 1..Len(stack) : stack[i] = stack[j] => i = j
      /\ \A n \in S : \E i \in 1..Len(stack) : stack[i] = n
  <2> HIDE DEF S
  <2>1. stack \in SetToSeqs(S)
    BY DEF S
  <2> QED
    BY <1>2, <2>1, SeqsHoldAll
<1>4. stack \in Seq(Ends(es) \ {})
  <2>1. S \subseteq Ends(es) \ {}
    OBVIOUS
  <2> HIDE DEF S
  <2> QED
    BY <1>3, <2>1
<1>5. ASSUME NEW n \in Ends(es)
      PROVE  (n \in {} \/ \E i \in 1..Len(stack) : stack[i] = n) <=> Into(es, n, {}) = {}
  <2>1. n \in S <=> Into(es, n, {}) = {}
    BY <1>1
  <2>2. \A i \in 1..Len(stack) : stack[i] \in S
    <3> HIDE DEF S
    <3> QED
      BY <1>3
  <2> HIDE DEF S
  <2> QED
    BY <1>3, <2>1, <2>2
<1>6. DOMAIN indeg = Ends(es)
  OBVIOUS
<1> QED
  BY <1>1, <1>3, <1>4, <1>5, <1>6 DEF Sorting

\* A sequence is one of whatever its elements are in.
LEMMA Elements ==
  ASSUME NEW S, NEW T, NEW s \in Seq(S), \A i \in 1..Len(s) : s[i] \in T
  PROVE  s \in Seq(T)
<1> DEFINE k == Len(s)
<1>1. k \in Nat /\ \A i \in 1..k : s[i] \in T
  OBVIOUS
<1>2. s = [i \in 1..k |-> s[i]]
  OBVIOUS
<1> HIDE DEF k
<1>3. s \in [1..k -> T]
  BY <1>1, <1>2
<1> QED
  BY <1>1, <1>3

LEMMA ElementIn ==
  ASSUME NEW S, NEW s \in Seq(S), NEW i \in 1..Len(s)
  PROVE  s[i] \in S
OBVIOUS

\* A stack without its top.
LEMMA Popped ==
  ASSUME NEW T, NEW stack, stack \in Seq(T), stack # << >>,
         NEW rest, rest = SubSeq(stack, 1, Len(stack) - 1)
  PROVE  /\ Len(stack) \in Nat /\ Len(stack) # 0 /\ Len(stack) \in 1..Len(stack)
         /\ Len(stack) - 1 \in Nat
         /\ rest \in Seq(T) /\ Len(rest) = Len(stack) - 1
         /\ \A i \in 1..(Len(stack) - 1) :
              rest[i] = stack[i] /\ i \in 1..Len(stack) /\ i # Len(stack)
<1>1. Len(stack) \in Nat /\ Len(stack) # 0
  OBVIOUS
<1> DEFINE m == Len(stack)
<1>2. m \in Nat /\ m # 0
  BY <1>1
<1> HIDE DEF m
<1>3. /\ m \in 1..m /\ m - 1 \in Nat
      /\ \A i \in 1..(m - 1) : i \in 1..m /\ i # m
  BY <1>2
<1>4. rest = SubSeq(stack, 1, m - 1) /\ m - 1 <= Len(stack)
  BY <1>2 DEF m
<1>5. rest \in Seq(T) /\ Len(rest) = m - 1
  BY <1>3, <1>4
<1>6. \A i \in 1..(m - 1) : rest[i] = stack[i]
  BY <1>3, <1>4
<1> QED
  BY <1>2, <1>3, <1>5, <1>6 DEF m

LEMMA Joined ==
  ASSUME NEW T, NEW r \in Seq(T), NEW s \in Seq(T)
  PROVE  /\ r \o s \in Seq(T) /\ Len(r) \in Nat /\ Len(s) \in Nat
         /\ Len(r \o s) = Len(r) + Len(s)
         /\ \A i \in 1..Len(r) : (r \o s)[i] = r[i]
         /\ \A i \in 1..Len(s) : (r \o s)[Len(r) + i] = s[i]
<1>1. r \o s \in Seq(T) /\ Len(r) \in Nat /\ Len(s) \in Nat /\ Len(r \o s) = Len(r) + Len(s)
  OBVIOUS
<1>2. \A i \in 1..Len(r) : (r \o s)[i] = r[i]
  BY <1>1
<1>3. ASSUME NEW i \in 1..Len(s) PROVE (r \o s)[Len(r) + i] = s[i]
  <2>1. Len(r) + i \in 1..(Len(r) + Len(s)) /\ ~(Len(r) + i <= Len(r)) /\ (Len(r) + i) - Len(r) = i
    BY <1>1
  <2> QED
    BY <2>1
<1> QED
  BY <1>1, <1>2, <1>3

\* Taking away the edges kids[n] that lead from cur to n frees the nodes whose
\* last edges these were, and new lists them.
Frees(es, cur, indeg, kids, indeg1, freed, new) ==
  /\ \A n \in Ends(es) :
       kids[n] = {i \in ContainsEdges(es) : es[i].source = cur /\ es[i].target = n}
  /\ indeg1 = [n \in Ends(es) |-> indeg[n] - Cardinality(kids[n])]
  /\ freed = {n \in Ends(es) : kids[n] # {} /\ indeg1[n] = 0}
  /\ new \in Seq(freed)
  /\ \A i, j \in 1..Len(new) : new[i] = new[j] => i = j
  /\ \A n \in freed : \E i \in 1..Len(new) : new[i] = n

\* Visiting the top of the stack.
LEMMA SortVisits ==
  ASSUME NEW es, IsFiniteSet(ContainsEdges(es)), NEW X, NEW indeg, NEW stack,
         Sorting(es, X, indeg, stack), stack # << >>,
         NEW cur, cur = stack[Len(stack)], NEW rest, rest = SubSeq(stack, 1, Len(stack) - 1),
         NEW kids, NEW indeg1, NEW freed, NEW new, Frees(es, cur, indeg, kids, indeg1, freed, new)
  PROVE  /\ Sorting(es, X \cup {cur}, indeg1, rest \o new)
         /\ cur \notin X
<1> /\ \A n \in Ends(es) :
         kids[n] = {i \in ContainsEdges(es) : es[i].source = cur /\ es[i].target = n}
    /\ indeg1 = [n \in Ends(es) |-> indeg[n] - Cardinality(kids[n])]
    /\ freed = {n \in Ends(es) : kids[n] # {} /\ indeg1[n] = 0}
    /\ new \in Seq(freed)
    /\ \A i, j \in 1..Len(new) : new[i] = new[j] => i = j
    /\ \A n \in freed : \E i \in 1..Len(new) : new[i] = n
  BY DEF Frees
<1> DEFINE Y == X \cup {cur}
           E == Ends(es)
<1>1. /\ X \subseteq E /\ DOMAIN indeg = E
      /\ \A n \in E : indeg[n] = Cardinality(Into(es, n, X))
      /\ stack \in Seq(E \ X)
      /\ \A i, j \in 1..Len(stack) : stack[i] = stack[j] => i = j
      /\ \A n \in E : (n \in X \/ \E i \in 1..Len(stack) : stack[i] = n) <=> Into(es, n, X) = {}
      /\ \A S \in SUBSET E : Rootless(es, S) => S \cap X = {}
  BY DEF Sorting
<1> DEFINE m == Len(stack)
<1>3. /\ m \in Nat /\ m # 0 /\ m \in 1..m /\ m - 1 \in Nat
      /\ rest \in Seq(E \ X) /\ Len(rest) = m - 1
      /\ \A i \in 1..(m - 1) : rest[i] = stack[i] /\ i \in 1..m /\ i # m
  <2> DEFINE T == E \ X
  <2>1. stack \in Seq(T) /\ stack # << >> /\ rest = SubSeq(stack, 1, Len(stack) - 1)
    BY <1>1
  <2> HIDE DEF T
  <2>2. /\ Len(stack) \in Nat /\ Len(stack) # 0 /\ Len(stack) \in 1..Len(stack)
        /\ Len(stack) - 1 \in Nat
        /\ rest \in Seq(T) /\ Len(rest) = Len(stack) - 1
        /\ \A i \in 1..(Len(stack) - 1) :
             rest[i] = stack[i] /\ i \in 1..Len(stack) /\ i # Len(stack)
    BY <2>1, Popped, Zenon
  <2> QED
    BY <2>2 DEF T
<1>2. m \in Nat /\ m # 0 /\ m \in 1..m /\ cur \in E /\ cur \notin X
  BY <1>1, <1>3
<1>4. ASSUME NEW n \in E
      PROVE  /\ indeg1[n] = Cardinality(Into(es, n, Y))
             /\ Into(es, n, X) = Into(es, n, Y) \cup kids[n]
             /\ indeg1[n] = 0 <=> Into(es, n, Y) = {}
  <2>1. Into(es, n, X) = Into(es, n, Y) \cup kids[n] /\ Into(es, n, Y) \cap kids[n] = {}
    BY <1>2 DEF Into
  <2>2. kids[n] \in SUBSET ContainsEdges(es)
    OBVIOUS
  <2>3. IsFiniteSet(kids[n]) /\ Cardinality(kids[n]) \in Nat
    BY <2>2, FS_Subset, FS_CardinalityType
  <2>4. /\ IsFiniteSet(Into(es, n, Y)) /\ Cardinality(Into(es, n, Y)) \in Nat
        /\ Cardinality(Into(es, n, Y)) = 0 <=> Into(es, n, Y) = {}
    BY IntoFinite
  <2>5. Cardinality(Into(es, n, X)) = Cardinality(Into(es, n, Y)) + Cardinality(kids[n])
    <3>1. Cardinality(Into(es, n, Y) \cup kids[n]) =
            Cardinality(Into(es, n, Y)) + Cardinality(kids[n]) - Cardinality(Into(es, n, Y) \cap kids[n])
      BY <2>3, <2>4, FS_Union
    <3>2. Cardinality(Into(es, n, Y) \cap kids[n]) = 0
      BY <2>1, FS_EmptySet
    <3> QED
      BY <2>1, <2>3, <2>4, <3>1, <3>2
  <2>6. indeg1[n] = Cardinality(Into(es, n, X)) - Cardinality(kids[n])
    BY <1>1
  <2>7. indeg1[n] = Cardinality(Into(es, n, Y))
    <3> DEFINE a == Cardinality(Into(es, n, X))
               b == Cardinality(Into(es, n, Y))
               c == Cardinality(kids[n])
    <3>1. b \in Nat /\ c \in Nat /\ a = b + c /\ indeg1[n] = a - c
      BY <2>3, <2>4, <2>5, <2>6
    <3> HIDE DEF a, b, c
    <3>2. indeg1[n] = b
      BY <3>1
    <3> QED
      BY <3>2 DEF b
  <2> QED
    BY <2>1, <2>4, <2>7
<1>5. ASSUME NEW n \in freed
      PROVE  n \in E /\ n \notin X /\ n # cur /\ \A i \in 1..m : stack[i] # n
  <2>1. n \in E /\ Into(es, n, X) # {}
    BY <1>4
  <2> QED
    BY <1>1, <1>2, <2>1
<1>6. /\ new \in Seq(E \ Y) /\ rest \in Seq(E \ Y)
  <2>1. freed \subseteq E \ Y
    BY <1>5
  <2>2. \A i \in 1..(m - 1) : rest[i] \in E \ Y
    <3>1. \A i \in 1..(m - 1) : rest[i] # cur
      BY <1>1, <1>2, <1>3
    <3>2. \A i \in 1..(m - 1) : rest[i] \in E \ X
      BY <1>3
    <3> QED
      BY <3>1, <3>2
  <2> DEFINE T == E \ Y
             k == m - 1
  <2>3. freed \subseteq T /\ \A i \in 1..k : rest[i] \in T
    BY <2>1, <2>2
  <2>4. \A i \in 1..Len(rest) : rest[i] \in T
    BY <1>3, <2>3
  <2>5. \A i \in 1..Len(new) : new[i] \in freed
    BY ElementIn
  <2>6. \A i \in 1..Len(new) : new[i] \in T
    BY <2>3, <2>5
  <2> HIDE DEF T, k
  <2>7. rest \in Seq(T)
    BY <1>3, <2>4, Elements
  <2>8. new \in Seq(T)
    BY <2>6, Elements
  <2> QED
    BY <2>7, <2>8 DEF T
<1> DEFINE st == rest \o new
           l == Len(new)
<1>7. /\ st \in Seq(E \ Y) /\ l \in Nat /\ Len(st) = (m - 1) + l
      /\ \A i \in 1..(m - 1) : st[i] = stack[i]
      /\ \A i \in 1..l : st[(m - 1) + i] = new[i]
  <2> DEFINE T == E \ Y
  <2>1. rest \in Seq(T) /\ new \in Seq(T)
    BY <1>6
  <2> HIDE DEF T
  <2>2. /\ rest \o new \in Seq(T) /\ Len(rest) \in Nat /\ Len(new) \in Nat
        /\ Len(rest \o new) = Len(rest) + Len(new)
        /\ \A i \in 1..Len(rest) : (rest \o new)[i] = rest[i]
        /\ \A i \in 1..Len(new) : (rest \o new)[Len(rest) + i] = new[i]
    BY <2>1, Joined
  <2> QED
    BY <1>3, <2>2 DEF T
<1>8. ASSUME NEW i \in 1..Len(st)
      PROVE  \/ i \in 1..(m - 1) /\ i \in 1..m /\ st[i] = stack[i]
             \/ /\ i - (m - 1) \in 1..l /\ st[i] = new[i - (m - 1)] /\ st[i] \in freed
                /\ i > m - 1
  <2>1. CASE i \in 1..(m - 1)
    BY <1>2, <1>7, <2>1
  <2>2. CASE i \notin 1..(m - 1)
    <3>1. i - (m - 1) \in 1..l /\ i = (m - 1) + (i - (m - 1)) /\ i > m - 1
      BY <1>2, <1>7, <2>2
    <3>2. st[i] = new[i - (m - 1)]
      BY <1>7, <3>1
    <3>3. st[i] \in freed
      <4> DEFINE k == i - (m - 1)
      <4>1. k \in 1..Len(new) /\ st[i] = new[k]
        BY <3>1, <3>2
      <4> HIDE DEF k, st
      <4>2. \A n \in 1..Len(new) : new[n] \in freed
        BY ElementIn
      <4> QED
        BY ONLY <4>1, <4>2, Zenon
    <3> QED
      BY <3>1, <3>2, <3>3
  <2> QED
    BY <2>1, <2>2
<1> HIDE DEF st
<1>9. ASSUME NEW i \in 1..Len(st), NEW j \in 1..Len(st), st[i] = st[j] PROVE i = j
  <2>1. CASE i \in 1..m /\ st[i] = stack[i] /\ j \in 1..m /\ st[j] = stack[j]
    BY <1>1, <1>9, <2>1
  <2>2. CASE /\ i - (m - 1) \in 1..l /\ st[i] = new[i - (m - 1)]
             /\ j - (m - 1) \in 1..l /\ st[j] = new[j - (m - 1)]
    <3>1. i - (m - 1) = j - (m - 1)
      <4> DEFINE a == i - (m - 1)
                 b == j - (m - 1)
      <4>1. a \in 1..Len(new) /\ b \in 1..Len(new) /\ new[a] = new[b]
        BY <1>9, <2>2
      <4> HIDE DEF a, b
      <4>2. a = b
        BY <4>1
      <4> QED
        BY <4>2 DEF a, b
    <3>2. i \in Int /\ j \in Int
      BY <1>7
    <3> QED
      BY <1>2, <3>1, <3>2
  <2>3. CASE i \in 1..m /\ st[i] = stack[i] /\ st[j] \in freed
    BY <1>5, <1>9, <2>3
  <2>4. CASE j \in 1..m /\ st[j] = stack[j] /\ st[i] \in freed
    BY <1>5, <1>9, <2>4
  <2> QED
    BY <1>8, <2>1, <2>2, <2>3, <2>4
<1>10. ASSUME NEW n \in E
       PROVE  (n \in Y \/ \E i \in 1..Len(st) : st[i] = n) <=> Into(es, n, Y) = {}
  <2>1. ASSUME Into(es, n, Y) = {} PROVE n \in Y \/ \E i \in 1..Len(st) : st[i] = n
    <3>1. CASE kids[n] # {}
      <4>1. n \in freed
        BY <1>4, <2>1, <3>1
      <4>2. PICK i \in 1..l : new[i] = n
        BY <4>1
      <4>3. (m - 1) + i \in 1..Len(st)
        BY <1>2, <1>7, <4>2
      <4> QED
        BY <1>7, <4>2, <4>3
    <3>2. CASE kids[n] = {}
      <4>1. Into(es, n, X) = {}
        BY <1>4, <2>1, <3>2
      <4>2. n \in X \/ \E i \in 1..m : stack[i] = n
        BY <1>1, <4>1
      <4>3. ASSUME NEW i \in 1..m, stack[i] = n, i # m
            PROVE  i \in 1..Len(st) /\ st[i] = n
        <5>1. i \in 1..(m - 1) /\ i \in 1..Len(st)
          BY <1>2, <1>7, <4>3
        <5> QED
          BY <1>7, <4>3, <5>1
      <4> QED
        BY <4>2, <4>3
    <3> QED
      BY <3>1, <3>2
  <2>2. ASSUME n \in Y \/ \E i \in 1..Len(st) : st[i] = n PROVE Into(es, n, Y) = {}
    <3>1. CASE n \in X \/ \E i \in 1..m : stack[i] = n
      <4>1. Into(es, n, X) = {}
        BY <1>1, <3>1
      <4> QED
        BY <1>4, <4>1
    <3>2. CASE n \in freed
      BY <1>4, <3>2
    <3>3. n = cur => \E i \in 1..m : stack[i] = n
      BY <1>2
    <3> QED
      BY <1>8, <2>2, <3>1, <3>2, <3>3
  <2> QED
    BY <2>1, <2>2
<1>11. ASSUME NEW S \in SUBSET E, Rootless(es, S) PROVE S \cap Y = {}
  <2>1. S \cap X = {}
    BY <1>1, <1>11
  <2>2. Into(es, cur, X) = {}
    BY <1>1, <1>2
  <2>3. cur \notin S
    <3> SUFFICES ASSUME cur \in S PROVE FALSE
      OBVIOUS
    <3>1. PICK i \in ContainsEdges(es) : es[i].target = cur /\ es[i].source \in S
      BY <1>11 DEF Rootless
    <3> QED
      BY <2>1, <2>2, <3>1 DEF Into
  <2> QED
    BY <2>1, <2>3
<1>12. Y \subseteq E /\ DOMAIN indeg1 = E
  BY <1>1, <1>2
<1>13. Sorting(es, Y, indeg1, st)
  <2>1. \A n \in E : indeg1[n] = Cardinality(Into(es, n, Y))
    BY <1>4
  <2> HIDE DEF Y
  <2> QED
    BY <1>7, <1>9, <1>10, <1>11, <1>12, <2>1 DEF Sorting
<1> QED
  BY <1>2, <1>13 DEF st

\* When the stack is empty, what was not visited is a set without a root.
LEMMA SortEnds ==
  ASSUME NEW es, IsFiniteSet(ContainsEdges(es)), NEW X, NEW indeg,
         Sorting(es, X, indeg, << >>)
  PROVE  Cardinality(X) # Cardinality(Ends(es)) <=> HasCycle(es)
<1> DEFINE E == Ends(es)
<1>1. /\ X \subseteq E
      /\ \A n \in E : n \in X <=> Into(es, n, X) = {}
      /\ \A S \in SUBSET E : Rootless(es, S) => S \cap X = {}
  BY DEF Sorting
<1>2. HasCycle(es) <=> \E S \in (SUBSET E) \ {{}} : Rootless(es, S)
  BY DEF HasCycle, Ends
<1>3. Cardinality(X) = Cardinality(E) <=> X = E
  <2>1. X \in SUBSET E
    BY <1>1
  <2> HIDE DEF E
  <2> QED
    BY <2>1, EndsFinite, FS_Subset DEF E
<1>4. ASSUME X = E PROVE ~HasCycle(es)
  BY <1>1, <1>2, <1>4
<1>5. ASSUME X # E PROVE HasCycle(es)
  <2> DEFINE S == E \ X
  <2>1. S \in (SUBSET E) \ {{}}
    BY <1>1, <1>5
  <2>2. Rootless(es, S)
    <3> SUFFICES ASSUME NEW n \in S
                 PROVE  \E i \in ContainsEdges(es) : es[i].target = n /\ es[i].source \in S
      BY DEF Rootless
    <3>1. PICK i \in Into(es, n, X) : TRUE
      BY <1>1
    <3>2. es[i].source \in E
      BY <3>1 DEF Ends, Into
    <3> QED
      BY <3>1, <3>2 DEF Into
  <2> QED
    BY <1>2, <2>1, <2>2
<1> QED
  BY <1>3, <1>4, <1>5
-----------------------------------------------------------------------------
(* Reading: what has been read when m nodes and k edges of the document have *)
(* been.                                                                     *)

Id(v) == v[2].id[2][2]
NodeArray(d) == d[2].nodes[2]
EdgeArray(d) == d[2].edges[2]

\* The arrays of a document are vectors.
Arrays(d) == \A k \in {"nodes", "edges"} : Has(d, k, {"Array"}) => Vector(d[2][k][2])

\* N holds the first node of each id, and each other was warned of.
NodesRead(V, N, m, warned) ==
  /\ m \in Nat /\ m <= MaxNodes
  /\ DOMAIN N = {Id(V[i]) : i \in 1..m}
  /\ \A i \in 1..m : (\A j \in 1..(i - 1) : Id(V[j]) # Id(V[i])) => N[Id(V[i])] = node_from_json(V[i])
  /\ IsFiniteSet(DOMAIN N) /\ warned = m - Cardinality(DOMAIN N)

EdgesRead(W, F, k) ==
  /\ k \in Nat /\ k <= MaxEdges
  /\ F = [i \in 1..k |-> edge_from_json(W[i])]

AllRead(d, N, F, warned) ==
  /\ Vector(NodeArray(d)) /\ NodesRead(NodeArray(d), N, Len(NodeArray(d)), warned)
  /\ Vector(EdgeArray(d)) /\ EdgesRead(EdgeArray(d), F, Len(EdgeArray(d)))

\* A sequence of anything.
List(s) == \E S : s \in Seq(S)

LEMMA ListOf ==
  ASSUME NEW n \in Nat, NEW f, f = [i \in 1..n |-> f[i]]
  PROVE  List(f) /\ Vector(f) /\ Len(f) = n
<1> DEFINE S == {f[i] : i \in 1..n}
<1>1. \A i \in 1..n : f[i] \in S
  OBVIOUS
<1> HIDE DEF S
<1>2. f \in [1..n -> S]
  BY <1>1
<1>3. f \in Seq(S) /\ Len(f) = n
  BY <1>2
<1>4. DOMAIN f = 1..n
  BY <1>2
<1> QED
  BY <1>3, <1>4 DEF List, Vector

\* push_back.
LEMMA AppendNext ==
  ASSUME NEW k \in Nat, NEW S, NEW f \in [1..k -> S], NEW g \in [1..(k + 1) -> S],
         \A i \in 1..k : g[i] = f[i]
  PROVE  Append(f, g[k + 1]) = g
<1>1. k + 1 \in Nat /\ k + 1 \in 1..(k + 1) /\ \A i \in 1..k : i \in 1..(k + 1) /\ i # k + 1
  OBVIOUS
<1>2. f \in Seq(S) /\ Len(f) = k /\ g \in Seq(S) /\ Len(g) = k + 1 /\ g[k + 1] \in S
  BY <1>1
<1> DEFINE h == Append(f, g[k + 1])
<1>3. h \in Seq(S) /\ Len(h) = k + 1
  BY <1>1, <1>2
<1>4. ASSUME NEW i \in 1..(k + 1) PROVE h[i] = g[i]
  <2>1. CASE i \in 1..k
    <3>1. i \in 1..Len(f) /\ f \in Seq(S)
      BY <1>2, <2>1
    <3>2. h[i] = f[i]
      BY ONLY <3>1
    <3> QED
      BY <2>1, <3>2
  <2>2. CASE i = k + 1
    BY <1>1, <1>2, <2>2
  <2> QED
    BY <2>1, <2>2
<1> HIDE DEF h
<1>5. h = g
  BY <1>2, <1>3, <1>4
<1> QED
  BY <1>5 DEF h

LEMMA ContainsFinite ==
  ASSUME NEW s, List(s)
  PROVE  IsFiniteSet(ContainsEdges(s))
<1>1. PICK S : s \in Seq(S)
  BY DEF List
<1>2. Len(s) \in Nat /\ DOMAIN s = 1..Len(s)
  BY <1>1
<1>3. ContainsEdges(s) \in SUBSET (1..Len(s))
  BY <1>2 DEF ContainsEdges, Positions
<1>4. IsFiniteSet(1..Len(s))
  BY <1>2, FS_Interval
<1> QED
  BY <1>3, <1>4, FS_Subset

\* One more node: kept if its id is new.
LEMMA NodeKept ==
  ASSUME NEW V, NEW N, NEW m, NEW w, NodesRead(V, N, m, w), m + 1 <= MaxNodes,
         NEW id, id = Id(V[m + 1]), id \notin DOMAIN N,
         NEW N1, N1 = [n \in DOMAIN N \cup {id} |-> IF n = id THEN node_from_json(V[m + 1]) ELSE N[n]]
  PROVE  NodesRead(V, N1, m + 1, w + 0)
<1> DEFINE D == DOMAIN N
<1>1. /\ m \in Nat /\ m <= MaxNodes /\ D = {Id(V[i]) : i \in 1..m}
      /\ \A i \in 1..m : (\A j \in 1..(i - 1) : Id(V[j]) # Id(V[i])) => N[Id(V[i])] = node_from_json(V[i])
      /\ IsFiniteSet(D) /\ w = m - Cardinality(D)
  BY DEF NodesRead
<1>2. m + 1 \in Nat /\ 1..(m + 1) = (1..m) \cup {m + 1} /\ (m + 1) \in 1..(m + 1)
  BY <1>1
<1>3. DOMAIN N1 = D \cup {id}
  OBVIOUS
<1>4. DOMAIN N1 = {Id(V[i]) : i \in 1..(m + 1)}
  <2> HIDE DEF D
  <2> QED
    BY <1>1, <1>2, <1>3
<1>5. ASSUME NEW i \in 1..(m + 1), \A j \in 1..(i - 1) : Id(V[j]) # Id(V[i])
      PROVE  N1[Id(V[i])] = node_from_json(V[i])
  <2>1. CASE i \in 1..m
    <3>1. Id(V[i]) \in D
      BY <1>1, <2>1
    <3>2. N[Id(V[i])] = node_from_json(V[i])
      BY <1>1, <1>5, <2>1
    <3> QED
      BY <3>1, <3>2
  <2>2. CASE i = m + 1
    BY <2>2
  <2> QED
    BY <1>2, <2>1, <2>2
<1>6. IsFiniteSet(D \cup {id}) /\ Cardinality(D \cup {id}) = Cardinality(D) + 1 /\ Cardinality(D) \in Nat
  BY <1>1, FS_AddElement, FS_CardinalityType
<1>7. w + 0 = (m + 1) - Cardinality(DOMAIN N1) /\ IsFiniteSet(DOMAIN N1)
  <2> DEFINE c == Cardinality(D)
  <2>1. c \in Nat /\ w = m - c /\ Cardinality(DOMAIN N1) = c + 1
    BY <1>1, <1>3, <1>6
  <2> HIDE DEF c
  <2>2. w + 0 = (m + 1) - Cardinality(DOMAIN N1)
    BY <1>1, <2>1
  <2> QED
    BY <1>3, <1>6, <2>2
<1>8. \A i \in 1..(m + 1) : (\A j \in 1..(i - 1) : Id(V[j]) # Id(V[i]))
                               => N1[Id(V[i])] = node_from_json(V[i])
  BY <1>5
<1> QED
  BY ONLY m + 1 <= MaxNodes, <1>2, <1>4, <1>7, <1>8, Zenon DEF NodesRead

\* Or left out, with a warning.
LEMMA NodeRepeated ==
  ASSUME NEW V, NEW N, NEW m, NEW w, NodesRead(V, N, m, w), m + 1 <= MaxNodes,
         Id(V[m + 1]) \in DOMAIN N
  PROVE  NodesRead(V, N, m + 1, w + 1)
<1> DEFINE D == DOMAIN N
<1>1. /\ m \in Nat /\ m <= MaxNodes /\ D = {Id(V[i]) : i \in 1..m}
      /\ \A i \in 1..m : (\A j \in 1..(i - 1) : Id(V[j]) # Id(V[i])) => N[Id(V[i])] = node_from_json(V[i])
      /\ IsFiniteSet(D) /\ w = m - Cardinality(D)
  BY DEF NodesRead
<1>2. m + 1 \in Nat /\ 1..(m + 1) = (1..m) \cup {m + 1} /\ (m + 1) - 1 = m
  BY <1>1
<1>3. D = {Id(V[i]) : i \in 1..(m + 1)}
  <2> HIDE DEF D
  <2> QED
    BY <1>1, <1>2 DEF D
<1>4. ASSUME NEW i \in 1..(m + 1), \A j \in 1..(i - 1) : Id(V[j]) # Id(V[i])
      PROVE  N[Id(V[i])] = node_from_json(V[i])
  <2>1. CASE i \in 1..m
    BY <1>1, <1>4, <2>1
  <2>2. CASE i = m + 1
    <3>1. PICK j \in 1..m : Id(V[j]) = Id(V[m + 1])
      BY <1>1
    <3> QED
      BY <1>2, <1>4, <2>2, <3>1
  <2> QED
    BY <1>2, <2>1, <2>2
<1>5. w + 1 = (m + 1) - Cardinality(D)
  <2> DEFINE c == Cardinality(D)
  <2>1. c \in Nat /\ w = m - c
    BY <1>1, FS_CardinalityType
  <2> HIDE DEF c
  <2>2. w + 1 = (m + 1) - c
    BY <1>1, <2>1
  <2> QED
    BY <2>2 DEF c
<1>6. \A i \in 1..(m + 1) : (\A j \in 1..(i - 1) : Id(V[j]) # Id(V[i]))
                               => N[Id(V[i])] = node_from_json(V[i])
  BY <1>4
<1> QED
  BY ONLY m + 1 <= MaxNodes, <1>1, <1>2, <1>3, <1>5, <1>6, Zenon DEF NodesRead

\* What an export is parsed to has vectors where the export had: parsing changes
\* the elements only.
LEMMA ExportArrays ==
  ASSUME NEW s, IsFiniteSet(DOMAIN s.nodes), IsFiniteSet(DOMAIN s.edges),
         NEW text \in snapshot_to_json(s)
  PROVE  Arrays(Reparsed(text))
<1> DEFINE ids == InOrder(DOMAIN s.nodes)
           m == Cardinality(DOMAIN s.nodes)
           k == Cardinality(DOMAIN s.edges)
<1>1. m \in Nat /\ k \in Nat
  BY FS_CardinalityType
<1>2. DOMAIN ids = 1..m
  BY DEF InOrder
<1> HIDE DEF ids
<1>3. PICK o \in EdgeOrders(s.edges) :
        text = Object([format     |-> Text("topology_fabric_snapshot"),
                       generation |-> <<"Uint", s.generation>>,
                       synthetic  |-> <<"Bool", s.synthetic>>,
                       nodes |-> <<"Array", [i \in DOMAIN ids |-> node_to_json(ids[i], s.nodes[ids[i]])]>>,
                       edges |-> <<"Array", [i \in DOMAIN o |-> edge_to_json(s.edges[o[i]])]>>])
  BY DEF snapshot_to_json, ids
<1>4. DOMAIN o = 1..k
  BY DEF EdgeOrders, SetToSeqs
<1> DEFINE V == [i \in DOMAIN ids |-> node_to_json(ids[i], s.nodes[ids[i]])]
           W == [i \in DOMAIN o |-> edge_to_json(s.edges[o[i]])]
<1>5. /\ Kind(text) = "Object" /\ DOMAIN text[2] = {"format", "generation", "synthetic", "nodes", "edges"}
      /\ text[2].nodes = <<"Array", V>> /\ text[2].edges = <<"Array", W>>
      /\ DOMAIN V = 1..m /\ DOMAIN W = 1..k
  BY <1>2, <1>3, <1>4 DEF Kind, Object
<1> HIDE DEF V, W, m, k
<1>6. ASSUME NEW key \in {"nodes", "edges"}
      PROVE  Vector(Reparsed(text)[2][key][2])
  <2>1. PICK A, n : text[2][key] = <<"Array", A>> /\ DOMAIN A = 1..n /\ n \in Nat
    BY <1>1, <1>5
  <2>2. key \in DOMAIN text[2] /\ Kind(text) \in Compound
    BY <1>5 DEF Compound
  <2>3. Reparsed(text)[2][key] = ReparsedArray(<<"Array", A>>)
    BY <2>1, <2>2 DEF Reparsed, Inside
  <2> DEFINE B == Reparsed(text)[2][key][2]
  <2>4. B = [i \in 1..n |-> B[i]]
    BY <2>1, <2>3 DEF ReparsedArray, Inside, Kind, Compound
  <2> HIDE DEF B
  <2> QED
    BY <2>1, <2>4, ListOf DEF B
<1> QED
  BY <1>6 DEF Arrays

-----------------------------------------------------------------------------
(* The inductive invariant, in three parts: what has been read at each step, *)
(* how far the sort is, and the counters.                                    *)

\* What the reading needs of a request.
Bare(r) ==
  IF r.exported
  THEN IsFiniteSet(DOMAIN r.snap.nodes) /\ IsFiniteSet(DOMAIN r.snap.edges)
  ELSE Arrays(r.doc)

Unread == at = 1 /\ nodes = << >> /\ edges = << >> /\ dupes = 0

Returned == pc = "done" /\ outcome = "returned"

Snapshot(s) ==
  s = [nodes |-> s.nodes, edges |-> s.edges, generation |-> s.generation,
       synthetic |-> s.synthetic, warnings |-> s.warnings, cyclic |-> s.cyclic]

ReadInv ==
  /\ Bare(request)
  /\ pc \in {"parse", "check", "nodes", "edges", "sort", "taken", "done"}
  /\ pc = "parse" => Unread
  /\ pc = "check" => Unread /\ Arrays(doc)
  /\ pc = "nodes" => /\ Vector(NodeArray(doc)) /\ Arrays(doc) /\ edges = << >>
                     /\ at \in 1..(Len(NodeArray(doc)) + 1)
                     /\ NodesRead(NodeArray(doc), nodes, at - 1, dupes)
  /\ pc = "edges" => /\ Vector(NodeArray(doc))
                     /\ NodesRead(NodeArray(doc), nodes, Len(NodeArray(doc)), dupes)
                     /\ Vector(EdgeArray(doc))
                     /\ at \in 1..(Len(EdgeArray(doc)) + 1)
                     /\ EdgesRead(EdgeArray(doc), edges, at - 1)
  /\ pc \in {"sort", "taken"} \/ Returned => AllRead(doc, nodes, edges, dupes)
  /\ pc = "taken" => /\ Snapshot(snap) /\ snap.nodes = nodes /\ snap.edges = edges
                     /\ snap.warnings = dupes
  /\ Returned => /\ snap.nodes = nodes /\ snap.edges = edges
                 /\ request.call = "deserialize" => snap.warnings = dupes

SortInv ==
  /\ pc = "sort" => \E X : /\ Sorting(edges, X, sort.indeg, sort.stack)
                           /\ IsFiniteSet(X) /\ sort.visited = Cardinality(X)
  /\ pc = "taken" => (snap.cyclic <=> HasCycle(edges))

CountInv ==
  /\ calls \in {1, 2}
  /\ pc # "done" => imported_snapshots = calls - 1 /\ malformed_imports_rejected = 0
  /\ Returned => imported_snapshots = calls /\ malformed_imports_rejected = 0
  /\ pc = "done" /\ outcome # "returned"
       => imported_snapshots = calls - 1 /\ malformed_imports_rejected = 1
  /\ Returned /\ request.call = "import_synthetic" => snap.synthetic

LEMMA GivenIsBare ==
  ASSUME NEW r, Given(r)
  PROVE  Bare(r)
<1>1. CASE r.exported
  <2>1. IsFiniteSet(DOMAIN r.snap.nodes) /\ Vector(r.snap.edges)
    BY <1>1 DEF Given, IsSnapshot
  <2> DEFINE k == Len(r.snap.edges)
  <2>2. k \in Nat /\ DOMAIN r.snap.edges = 1..k
    BY <2>1 DEF Vector
  <2> HIDE DEF k
  <2>3. IsFiniteSet(1..k)
    BY ONLY <2>2, FS_Interval
  <2>4. IsFiniteSet(DOMAIN r.snap.edges)
    BY <2>2, <2>3
  <2> QED
    BY <1>1, <2>1, <2>4 DEF Bare
<1>2. CASE ~r.exported
  <2>1. IsDocument(r.doc)
    BY <1>2 DEF Given
  <2>2. ASSUME NEW k \in {"nodes", "edges"}, Has(r.doc, k, {"Array"})
        PROVE  Vector(r.doc[2][k][2])
    BY <2>1, <2>2 DEF Has, IsDocument, IsArray, Composed, Compound
  <2> QED
    BY <1>2, <2>2 DEF Bare, Arrays
<1> QED
  BY <1>1, <1>2

LEMMA ReadInit == Init => ReadInv
<1> SUFFICES ASSUME Init PROVE ReadInv
  OBVIOUS
<1>1. Bare(request)
  BY RequestsAssumption, GivenIsBare DEF Init
<1> QED
  BY <1>1 DEF Init, ReadInv, Unread, Returned

\* What reading a value raises is never "returned".
LEMMA ReadErrors ==
  ASSUME NEW v, NEW ids
  PROVE  ReadError(v, ids) # "returned"
<1>1. ReadError(v, ids) \in {"MALFORMED_DATA", "bad_variant_access", "none"}
  BY DEF ReadError
<1> QED
  BY <1>1

LEMMA RejectRead ==
  ASSUME ReadInv, NEW error, error # "returned", Reject(error)
  PROVE  ReadInv'
<1>1. Bare(request') /\ pc' = "done" /\ outcome' # "returned"
  BY DEF ReadInv, Reject
<1> QED
  BY <1>1 DEF ReadInv, Returned

LEMMA ParseRead ==
  ASSUME ReadInv, Parse
  PROVE  ReadInv'
<1>1. PICK text \in IF request.exported THEN snapshot_to_json(request.snap) ELSE {request.doc} :
        IF request.exported /\ ~Parses(text) THEN Reject("MALFORMED_DATA")
        ELSE /\ doc' = IF request.exported THEN Reparsed(text) ELSE text
             /\ pc' = "check"
             /\ UNCHANGED <<request, reading, sort, snap, outcome, counters>>
  BY DEF Parse
<1>2. CASE request.exported /\ ~Parses(text)
  BY <1>1, <1>2, RejectRead
<1>3. CASE ~(request.exported /\ ~Parses(text))
  <2>1. /\ doc' = IF request.exported THEN Reparsed(text) ELSE text
        /\ pc' = "check" /\ UNCHANGED <<request, at, nodes, edges, dupes>>
    BY <1>1, <1>3 DEF reading
  <2>2. Arrays(doc')
    <3>1. Bare(request)
      BY DEF ReadInv
    <3>2. CASE request.exported
      <4>1. /\ IsFiniteSet(DOMAIN request.snap.nodes) /\ IsFiniteSet(DOMAIN request.snap.edges)
            /\ text \in snapshot_to_json(request.snap)
        BY <1>1, <3>1, <3>2 DEF Bare
      <4>2. Arrays(Reparsed(text))
        BY <4>1, ExportArrays
      <4> QED
        BY <2>1, <3>2, <4>2
    <3>3. CASE ~request.exported
      <4>1. doc' = request.doc
        BY <1>1, <2>1, <3>3
      <4>2. Arrays(request.doc)
        BY <3>1, <3>3 DEF Bare
      <4> QED
        BY <4>1, <4>2
    <3> QED
      BY <3>2, <3>3
  <2>3. pc = "parse" /\ Unread /\ Bare(request)
    BY DEF ReadInv, Parse
  <2>4. Unread' /\ Bare(request')
    BY <2>1, <2>3 DEF Unread
  <2> QED
    BY <2>1, <2>2, <2>4 DEF ReadInv, Returned
<1> QED
  BY <1>2, <1>3

LEMMA CheckRead ==
  ASSUME ReadInv, Check
  PROVE  ReadInv'
<1>1. \/ Reject("OVERSIZED")
      \/ Reject("MALFORMED_DATA")
      \/ /\ Has(doc, "nodes", {"Array"}) /\ pc' = "nodes"
         /\ UNCHANGED <<request, doc, reading>>
  BY DEF Check
<1>2. CASE Reject("OVERSIZED")
  BY <1>2, RejectRead
<1>3. CASE Reject("MALFORMED_DATA")
  BY <1>3, RejectRead
<1>4. CASE /\ Has(doc, "nodes", {"Array"}) /\ pc' = "nodes"
           /\ UNCHANGED <<request, doc, reading>>
  <2>1. Bare(request) /\ Unread /\ Arrays(doc)
    BY DEF ReadInv, Check
  <2>2. Vector(NodeArray(doc))
    BY <1>4, <2>1 DEF Arrays, NodeArray
  <2>3. at' \in 1..(Len(NodeArray(doc)) + 1) /\ at' - 1 = 0 /\ nodes' = << >> /\ edges' = << >>
        /\ dupes' = 0
    BY <1>4, <2>1, <2>2 DEF Unread, Vector, reading
  <2>4. NodesRead(NodeArray(doc), nodes', at' - 1, dupes')
    <3>1. DOMAIN nodes' = {} /\ 1..0 = {} /\ IsFiniteSet({}) /\ Cardinality({}) = 0
      BY <2>3, FS_EmptySet
    <3>2. NodesRead(NodeArray(doc), nodes', 0, 0)
      BY <3>1, BoundsAssumption DEF NodesRead
    <3> QED
      BY <2>3, <3>2
  <2> QED
    BY <1>4, <2>1, <2>2, <2>3, <2>4 DEF ReadInv, Returned
<1> QED
  BY <1>1, <1>2, <1>3, <1>4

LEMMA ReadNodeRead ==
  ASSUME ReadInv, ReadNode
  PROVE  ReadInv'
<1> DEFINE V == NodeArray(doc)
           v == V[at]
           id == Id(v)
           fresh == id \notin DOMAIN nodes
           error == IF at > MaxNodes THEN "OVERSIZED" ELSE ReadError(v, {"id"})
<1>1. /\ pc = "nodes" /\ at <= Len(V)
      /\ IF error # "none" THEN Reject(error)
         ELSE /\ nodes' = IF fresh THEN WithNode(id, node_from_json(v)) ELSE nodes
              /\ dupes' = dupes + IF fresh THEN 0 ELSE 1
              /\ at' = at + 1
              /\ UNCHANGED <<request, doc, pc, edges, sort, snap, outcome, counters>>
  BY DEF ReadNode, NodeValues, NodeArray, Id
<1>2. CASE error # "none"
  <2>1. error # "returned"
    BY ReadErrors
  <2> HIDE DEF error
  <2> QED
    BY <1>1, <1>2, <2>1, RejectRead
<1>3. CASE error = "none"
  <2>1. /\ nodes' = IF fresh THEN WithNode(id, node_from_json(v)) ELSE nodes
        /\ dupes' = dupes + IF fresh THEN 0 ELSE 1
        /\ at' = at + 1 /\ UNCHANGED <<request, doc, pc, edges, outcome>>
    BY <1>1, <1>3
  <2>2. /\ Bare(request) /\ Vector(V) /\ Arrays(doc) /\ edges = << >>
        /\ at \in 1..(Len(V) + 1) /\ NodesRead(V, nodes, at - 1, dupes) /\ Len(V) \in Nat
    BY <1>1 DEF ReadInv, Vector
  <2>3. at <= MaxNodes
    BY <1>3, <2>2, BoundsAssumption
  <2> HIDE DEF error
  <2> DEFINE m == at - 1
  <2>4. /\ m \in Nat /\ at = m + 1 /\ m + 1 <= MaxNodes /\ at' - 1 = m + 1
        /\ at' \in 1..(Len(V) + 1)
    BY <1>1, <2>1, <2>2, <2>3, BoundsAssumption
  <2>5. NodesRead(V, nodes, m, dupes)
    BY <2>2
  <2>6. v = V[m + 1]
    BY <2>4
  <2> HIDE DEF m, V
  <2>7. NodesRead(V, nodes', m + 1, dupes')
    <3>1. CASE fresh
      <4>1. /\ nodes' = [n \in DOMAIN nodes \cup {id} |-> IF n = id THEN node_from_json(v) ELSE nodes[n]]
            /\ dupes' = dupes + 0
        BY <2>1, <3>1 DEF WithNode
      <4>2. nodes' = [n \in DOMAIN nodes \cup {id} |->
                        IF n = id THEN node_from_json(V[m + 1]) ELSE nodes[n]]
        BY <2>6, <4>1
      <4>3. id = Id(V[m + 1]) /\ id \notin DOMAIN nodes
        BY <2>6, <3>1
      <4> HIDE DEF id, v
      <4>4. NodesRead(V, nodes', m + 1, dupes + 0)
        BY <2>4, <2>5, <4>2, <4>3, NodeKept
      <4> QED
        BY <4>1, <4>4
    <3>2. CASE ~fresh
      <4>1. nodes' = nodes /\ dupes' = dupes + 1
        BY <2>1, <3>2
      <4>2. Id(V[m + 1]) \in DOMAIN nodes
        BY <2>6, <3>2
      <4>3. NodesRead(V, nodes, m + 1, dupes + 1)
        BY <2>4, <2>5, <4>2, NodeRepeated
      <4> QED
        BY <4>1, <4>3
    <3> QED
      BY <3>1, <3>2
  <2> QED
    BY <1>1, <2>1, <2>2, <2>4, <2>7 DEF ReadInv, Returned, V
<1> QED
  BY <1>2, <1>3

LEMMA EndNodesRead ==
  ASSUME ReadInv, EndNodes
  PROVE  ReadInv'
<1> DEFINE V == NodeArray(doc)
           W == EdgeArray(doc)
<1>1. /\ pc = "nodes" /\ at > Len(V)
      /\ \/ Reject("MALFORMED_DATA")
         \/ /\ Has(doc, "edges", {"Array"}) /\ pc' = "edges" /\ at' = 1
            /\ UNCHANGED <<request, doc, nodes, edges, dupes, outcome>>
  BY DEF EndNodes, NodeValues, NodeArray
<1>2. CASE Reject("MALFORMED_DATA")
  BY <1>2, RejectRead
<1>3. CASE /\ Has(doc, "edges", {"Array"}) /\ pc' = "edges" /\ at' = 1
           /\ UNCHANGED <<request, doc, nodes, edges, dupes, outcome>>
  <2>1. /\ Bare(request) /\ Vector(V) /\ Arrays(doc) /\ edges = << >>
        /\ at \in 1..(Len(V) + 1) /\ NodesRead(V, nodes, at - 1, dupes) /\ Len(V) \in Nat
    BY <1>1 DEF ReadInv, Vector
  <2>2. at - 1 = Len(V)
    BY <1>1, <2>1
  <2>3. NodesRead(V, nodes, Len(V), dupes)
    BY <2>1, <2>2
  <2>4. Vector(W)
    BY <1>3, <2>1 DEF Arrays, EdgeArray
  <2>5. at' \in 1..(Len(W) + 1) /\ at' - 1 = 0
    BY <1>3, <2>4 DEF Vector
  <2>6. EdgesRead(W, << >>, 0)
    <3>1. << >> = [i \in 1..0 |-> edge_from_json(W[i])]
      OBVIOUS
    <3> QED
      BY <3>1, BoundsAssumption DEF EdgesRead
  <2>7. EdgesRead(W, edges', at' - 1)
    BY <1>3, <2>1, <2>5, <2>6
  <2> QED
    BY <1>3, <2>1, <2>3, <2>4, <2>5, <2>7 DEF ReadInv, Returned
<1> QED
  BY <1>1, <1>2, <1>3

LEMMA ReadEdgeRead ==
  ASSUME ReadInv, ReadEdge
  PROVE  ReadInv'
<1> DEFINE V == NodeArray(doc)
           W == EdgeArray(doc)
           v == W[at]
           error == IF at > MaxEdges THEN "OVERSIZED" ELSE ReadError(v, {"source", "target"})
<1>1. /\ pc = "edges" /\ at <= Len(W)
      /\ IF error # "none" THEN Reject(error)
         ELSE /\ edges' = Append(edges, edge_from_json(v))
              /\ at' = at + 1
              /\ UNCHANGED <<request, doc, pc, nodes, dupes, sort, snap, outcome, counters>>
  BY DEF ReadEdge, EdgeValues, EdgeArray
<1>2. CASE error # "none"
  <2>1. error # "returned"
    BY ReadErrors
  <2> HIDE DEF error
  <2> QED
    BY <1>1, <1>2, <2>1, RejectRead
<1>3. CASE error = "none"
  <2>1. /\ edges' = Append(edges, edge_from_json(v))
        /\ at' = at + 1 /\ UNCHANGED <<request, doc, pc, nodes, dupes, outcome>>
    BY <1>1, <1>3
  <2>2. /\ Bare(request) /\ Vector(V) /\ NodesRead(V, nodes, Len(V), dupes) /\ Vector(W)
        /\ at \in 1..(Len(W) + 1) /\ EdgesRead(W, edges, at - 1) /\ Len(W) \in Nat
    BY <1>1 DEF ReadInv, Vector
  <2>3. at <= MaxEdges
    BY <1>3, <2>2, BoundsAssumption
  <2> HIDE DEF error
  <2> DEFINE k == at - 1
             g == [i \in 1..(k + 1) |-> edge_from_json(W[i])]
  <2>4. /\ k \in Nat /\ at = k + 1 /\ k + 1 \in Nat /\ k + 1 <= MaxEdges /\ at' - 1 = k + 1
        /\ at' \in 1..(Len(W) + 1) /\ k + 1 \in 1..(k + 1) /\ \A i \in 1..k : i \in 1..(k + 1)
    BY <1>1, <2>1, <2>2, <2>3, BoundsAssumption
  <2>5. edges = [i \in 1..k |-> edge_from_json(W[i])]
    BY <2>2 DEF EdgesRead
  <2>6. v = W[k + 1]
    BY <2>4
  <2> HIDE DEF k, W, v
  <2>7. edges' = g
    <3> DEFINE S == {edge_from_json(W[i]) : i \in 1..(k + 1)}
    <3>1. \A i \in 1..(k + 1) : edge_from_json(W[i]) \in S
      OBVIOUS
    <3> HIDE DEF S
    <3>2. /\ edges \in [1..k -> S] /\ g \in [1..(k + 1) -> S]
          /\ \A i \in 1..k : g[i] = edges[i]
      BY <2>4, <2>5, <3>1
    <3>3. g[k + 1] = edge_from_json(v)
      BY <2>4, <2>6
    <3> HIDE DEF g
    <3>4. Append(edges, g[k + 1]) = g
      BY <2>4, <3>2, AppendNext
    <3> QED
      BY <2>1, <3>3, <3>4
  <2>8. EdgesRead(W, edges', at' - 1)
    BY <2>4, <2>7 DEF EdgesRead
  <2> QED
    BY <1>1, <2>1, <2>2, <2>4, <2>8 DEF ReadInv, Returned, W
<1> QED
  BY <1>2, <1>3

LEMMA TakeRead ==
  ASSUME ReadInv, Take
  PROVE  ReadInv'
<1> DEFINE W == EdgeArray(doc)
<1>1. /\ pc = "edges" /\ at > Len(W) /\ pc' = "sort"
      /\ UNCHANGED <<request, doc, nodes, edges, dupes>>
  BY DEF Take, EdgeValues, EdgeArray, reading
<1>2. /\ Bare(request) /\ Vector(NodeArray(doc))
      /\ NodesRead(NodeArray(doc), nodes, Len(NodeArray(doc)), dupes)
      /\ Vector(W) /\ at \in 1..(Len(W) + 1) /\ EdgesRead(W, edges, at - 1) /\ Len(W) \in Nat
  BY <1>1 DEF ReadInv, Vector
<1>3. at - 1 = Len(W)
  BY <1>1, <1>2
<1>4. AllRead(doc, nodes, edges, dupes)
  BY <1>2, <1>3 DEF AllRead
<1> QED
  BY <1>1, <1>2, <1>4 DEF ReadInv, Returned

LEMMA VisitRead ==
  ASSUME ReadInv, Visit
  PROVE  ReadInv'
<1>1. pc = "sort" /\ pc' = "sort" /\ UNCHANGED <<request, doc, nodes, edges, dupes>>
  BY DEF Visit, reading
<1>2. Bare(request) /\ AllRead(doc, nodes, edges, dupes)
  BY <1>1 DEF ReadInv
<1> QED
  BY <1>1, <1>2 DEF ReadInv, Returned

LEMMA FinishRead ==
  ASSUME ReadInv, Finish
  PROVE  ReadInv'
<1>1. pc = "sort" /\ pc' = "taken" /\ UNCHANGED <<request, doc, nodes, edges, dupes>>
  BY DEF Finish, reading
<1>2. Bare(request) /\ AllRead(doc, nodes, edges, dupes)
  BY <1>1 DEF ReadInv
<1>3. Snapshot(snap') /\ snap'.nodes = nodes /\ snap'.edges = edges /\ snap'.warnings = dupes
  BY DEF Finish, Snapshot
<1> QED
  BY <1>1, <1>2, <1>3 DEF ReadInv, Returned

LEMMA ReturnRead ==
  ASSUME ReadInv, Return
  PROVE  ReadInv'
<1>1. /\ pc = "taken" /\ pc' = "done" /\ outcome' = "returned" /\ snap' = Rebuilt(snap)
      /\ UNCHANGED <<request, doc, nodes, edges, dupes>>
  BY DEF Return, reading
<1>2. /\ Bare(request) /\ AllRead(doc, nodes, edges, dupes) /\ Snapshot(snap)
      /\ snap.nodes = nodes /\ snap.edges = edges /\ snap.warnings = dupes
  BY <1>1 DEF ReadInv
<1>3. /\ snap'.nodes = nodes /\ snap'.edges = edges
      /\ request.call = "deserialize" => snap'.warnings = dupes
  BY <1>1, <1>2 DEF Rebuilt, Snapshot
<1> QED
  BY <1>1, <1>2, <1>3 DEF ReadInv, Returned

LEMMA AgainRead ==
  ASSUME ReadInv, Again
  PROVE  ReadInv'
<1>1. /\ Returned /\ request' = [call |-> "deserialize", exported |-> TRUE, snap |-> snap, oversized |-> FALSE]
      /\ pc' = "parse" /\ Unread'
  BY DEF Again, Returned, Unread
<1>2. AllRead(doc, nodes, edges, dupes) /\ snap.nodes = nodes /\ snap.edges = edges
  BY <1>1 DEF ReadInv
<1>3. IsFiniteSet(DOMAIN snap.nodes)
  BY <1>2 DEF AllRead, NodesRead
<1>4. IsFiniteSet(DOMAIN snap.edges)
  <2> DEFINE k == Len(EdgeArray(doc))
  <2>1. DOMAIN edges = 1..k /\ k \in Nat
    BY <1>2 DEF AllRead, EdgesRead
  <2> HIDE DEF k
  <2>2. IsFiniteSet(1..k)
    BY ONLY <2>1, FS_Interval
  <2> QED
    BY <1>2, <2>1, <2>2
<1>5. Bare(request')
  BY <1>1, <1>3, <1>4 DEF Bare
<1> QED
  BY <1>1, <1>5 DEF ReadInv, Returned

LEMMA ReadStep == ReadInv /\ [Next]_vars => ReadInv'
<1> SUFFICES ASSUME ReadInv, [Next]_vars PROVE ReadInv'
  OBVIOUS
<1>1. CASE UNCHANGED vars
  BY <1>1 DEF vars, reading, counters, ReadInv, Returned, Unread
<1> QED
  BY <1>1, ParseRead, CheckRead, ReadNodeRead, EndNodesRead, ReadEdgeRead, TakeRead,
     VisitRead, FinishRead, ReturnRead, AgainRead DEF Next

\* However a document repeats ids and wherever its arrays end, a snapshot is
\* returned only when every element was read: all edges, and of every id the
\* first node, within the bounds, with one warning for each node left out.
THEOREM ImportIsComplete == Spec => []ImportComplete
<1>1. ReadInv => ImportComplete
  <2> SUFFICES ASSUME ReadInv, Returned PROVE ImportComplete
    BY DEF ImportComplete, Returned
  <2> DEFINE V == NodeArray(doc)
             W == EdgeArray(doc)
  <2>1. /\ AllRead(doc, nodes, edges, dupes) /\ snap.nodes = nodes /\ snap.edges = edges
        /\ request.call = "deserialize" => snap.warnings = dupes
    BY DEF ReadInv
  <2>2. V = NodeValues /\ W = EdgeValues
    BY DEF NodeArray, EdgeArray, NodeValues, EdgeValues
  <2>3. DOMAIN V = 1..Len(V) /\ DOMAIN W = 1..Len(W)
    BY <2>1 DEF AllRead, Vector
  <2>4. /\ Len(V) <= MaxNodes /\ DOMAIN nodes = {Id(V[i]) : i \in DOMAIN V}
        /\ \A i \in DOMAIN V : (\A j \in 1..(i - 1) : Id(V[j]) # Id(V[i]))
                                => nodes[Id(V[i])] = node_from_json(V[i])
        /\ dupes = Len(V) - Cardinality(DOMAIN nodes)
    <3> HIDE DEF V
    <3> QED
      BY <2>1, <2>3 DEF AllRead, NodesRead, V
  <2>5. Len(W) <= MaxEdges /\ edges = [i \in DOMAIN W |-> edge_from_json(W[i])]
    BY <2>1, <2>3 DEF AllRead, EdgesRead
  <2> HIDE DEF V, W
  <2> QED
    BY <2>1, <2>2, <2>4, <2>5 DEF ImportComplete, Id
<1> QED
  BY <1>1, ReadInit, ReadStep, PTL DEF Spec

-----------------------------------------------------------------------------
(* The counters.                                                           *)

LEMMA RejectCounts ==
  ASSUME CountInv, pc # "done", NEW error, error # "returned", Reject(error)
  PROVE  CountInv'
<1>1. /\ calls \in {1, 2} /\ imported_snapshots = calls - 1 /\ malformed_imports_rejected = 0
      /\ pc' = "done" /\ outcome' # "returned"
      /\ malformed_imports_rejected' = malformed_imports_rejected + 1
      /\ UNCHANGED <<calls, imported_snapshots>>
  BY DEF CountInv, Reject
<1>2. malformed_imports_rejected' = 1
  BY <1>1
<1> QED
  BY <1>1, <1>2 DEF CountInv, Returned

\* A step that ends no call counts nothing.
LEMMA QuietCounts ==
  ASSUME CountInv, pc # "done", pc' # "done", UNCHANGED counters
  PROVE  CountInv'
BY DEF CountInv, Returned, counters

\* Every other step rejects, counts nothing, returns, or begins a call.
LEMMA StepKinds ==
  ASSUME Next
  PROVE  \/ pc # "done" /\ \E error : error # "returned" /\ Reject(error)
         \/ pc # "done" /\ pc' # "done" /\ UNCHANGED counters
         \/ Return
         \/ Again
<1>1. CASE Parse
  <2>1. pc = "parse" /\ (Reject("MALFORMED_DATA") \/ (pc' = "check" /\ UNCHANGED counters))
    BY <1>1 DEF Parse
  <2> QED
    BY <2>1
<1>2. CASE Check
  <2>1. /\ pc = "check"
        /\ \/ Reject("OVERSIZED") \/ Reject("MALFORMED_DATA")
           \/ pc' = "nodes" /\ UNCHANGED counters
    BY <1>2 DEF Check
  <2> QED
    BY <2>1
<1>3. CASE ReadNode
  <2> DEFINE v == NodeValues[at]
             error == IF at > MaxNodes THEN "OVERSIZED" ELSE ReadError(v, {"id"})
  <2>1. pc = "nodes" /\ (Reject(error) \/ (pc' = pc /\ UNCHANGED counters))
    BY <1>3 DEF ReadNode
  <2>2. error # "returned"
    BY ReadErrors
  <2> HIDE DEF error
  <2> QED
    BY <2>1, <2>2
<1>4. CASE EndNodes
  <2>1. pc = "nodes" /\ (Reject("MALFORMED_DATA") \/ (pc' = "edges" /\ UNCHANGED counters))
    BY <1>4 DEF EndNodes
  <2> QED
    BY <2>1
<1>5. CASE ReadEdge
  <2> DEFINE v == EdgeValues[at]
             error == IF at > MaxEdges THEN "OVERSIZED" ELSE ReadError(v, {"source", "target"})
  <2>1. pc = "edges" /\ (Reject(error) \/ (pc' = pc /\ UNCHANGED counters))
    BY <1>5 DEF ReadEdge
  <2>2. error # "returned"
    BY ReadErrors
  <2> HIDE DEF error
  <2> QED
    BY <2>1, <2>2
<1>6. CASE Take
  BY <1>6 DEF Take
<1>7. CASE Visit
  BY <1>7 DEF Visit
<1>8. CASE Finish
  BY <1>8 DEF Finish
<1> QED
  BY <1>1, <1>2, <1>3, <1>4, <1>5, <1>6, <1>7, <1>8 DEF Next

LEMMA CountStep == ReadInv /\ CountInv /\ [Next]_vars => CountInv'
<1> SUFFICES ASSUME ReadInv, CountInv, [Next]_vars PROVE CountInv'
  OBVIOUS
<1>1. CASE UNCHANGED vars
  BY <1>1 DEF vars, counters, CountInv, Returned
<1>2. CASE Return
  <2>1. /\ pc = "taken" /\ pc' = "done" /\ outcome' = "returned" /\ snap' = Rebuilt(snap)
        /\ imported_snapshots' = imported_snapshots + 1
        /\ UNCHANGED <<request, calls, malformed_imports_rejected>>
    BY <1>2 DEF Return
  <2>2. calls \in {1, 2} /\ imported_snapshots = calls - 1 /\ malformed_imports_rejected = 0
    BY <2>1 DEF CountInv
  <2>3. imported_snapshots' = calls
    BY <2>1, <2>2
  <2>4. Snapshot(snap)
    BY <2>1 DEF ReadInv
  <2>5. request.call = "import_synthetic" => snap'.synthetic
    <3>1. CASE request.call = "import_synthetic" /\ ~snap.synthetic
      <4>1. snap' = [snap EXCEPT !.synthetic = TRUE, !.warnings = 0]
        BY <2>1, <3>1 DEF Rebuilt
      <4>2. snap'.synthetic = TRUE
        BY <2>4, <4>1 DEF Snapshot
      <4> QED
        BY <4>2
    <3>2. CASE ~(request.call = "import_synthetic" /\ ~snap.synthetic)
      BY <2>1, <3>2 DEF Rebuilt
    <3> QED
      BY <3>1, <3>2
  <2> QED
    BY <2>1, <2>2, <2>3, <2>5 DEF CountInv, Returned
<1>3. CASE Again
  <2>1. /\ Returned /\ calls = 1 /\ pc' = "parse" /\ calls' = calls + 1
        /\ UNCHANGED <<imported_snapshots, malformed_imports_rejected>>
    BY <1>3 DEF Again, Returned
  <2>2. imported_snapshots = 1 /\ malformed_imports_rejected = 0
    BY <2>1 DEF CountInv
  <2>3. calls' = 2
    BY <2>1
  <2> QED
    BY <2>1, <2>2, <2>3 DEF CountInv, Returned
<1>4. CASE pc # "done" /\ \E error : error # "returned" /\ Reject(error)
  BY <1>4, RejectCounts
<1>5. CASE pc # "done" /\ pc' # "done" /\ UNCHANGED counters
  BY <1>5, QuietCounts
<1> QED
  BY <1>1, <1>2, <1>3, <1>4, <1>5, StepKinds

\* Whatever a call throws, and whether it throws before or after anything was
\* read, telemetry counts it once; what import_synthetic returns is synthetic.
THEOREM ImportsAreCounted == Spec => []ImportAccounted
<1>1. Init => CountInv
  BY DEF Init, CountInv, Returned
<1>2. CountInv => ImportAccounted
  <2> SUFFICES ASSUME CountInv PROVE ImportAccounted
    OBVIOUS
  <2>1. CASE pc # "done"
    BY <2>1 DEF CountInv, ImportAccounted
  <2>2. CASE pc = "done" /\ outcome # "returned"
    <3>1. calls \in {1, 2} /\ imported_snapshots = calls - 1 /\ malformed_imports_rejected = 1
      BY <2>2 DEF CountInv
    <3>2. imported_snapshots + malformed_imports_rejected = calls /\ imported_snapshots # calls
      BY <3>1
    <3> QED
      BY <2>2, <3>2 DEF ImportAccounted
  <2>3. CASE Returned
    <3>1. /\ calls \in {1, 2} /\ imported_snapshots = calls /\ malformed_imports_rejected = 0
          /\ request.call = "import_synthetic" => snap.synthetic
      BY <2>3 DEF CountInv
    <3>2. imported_snapshots + malformed_imports_rejected = calls
      BY <3>1
    <3> QED
      BY <2>3, <3>1, <3>2 DEF ImportAccounted, Returned
  <2> QED
    BY <2>1, <2>2, <2>3 DEF Returned
<1> QED
  BY <1>1, <1>2, ReadInit, ReadStep, CountStep, PTL DEF Spec

-----------------------------------------------------------------------------
(* The sort.                                                               *)

LEMMA EdgesFinite ==
  ASSUME ReadInv, pc \in {"edges", "sort"}
  PROVE  IsFiniteSet(ContainsEdges(edges))
<1>1. PICK k : EdgesRead(EdgeArray(doc), edges, k)
  BY DEF ReadInv, AllRead
<1>2. k \in Nat /\ edges = [i \in 1..k |-> edges[i]]
  BY <1>1 DEF EdgesRead
<1>3. List(edges)
  BY <1>2, ListOf
<1> QED
  BY <1>3, ContainsFinite

LEMMA TakeSorts ==
  ASSUME ReadInv, Take
  PROVE  SortInv'
<1> DEFINE indeg == [n \in Ends(edges) |-> Cardinality({i \in ContainsEdges(edges) : edges[i].target = n})]
<1>1. PICK stack \in SetToSeqs({n \in Ends(edges) : indeg[n] = 0}) :
        sort' = [indeg |-> indeg, stack |-> stack, visited |-> 0]
  BY DEF Take, Ends
<1>2. pc = "edges" /\ pc' = "sort" /\ edges' = edges
  BY DEF Take, reading
<1>3. IsFiniteSet(ContainsEdges(edges))
  BY <1>2, EdgesFinite
<1>4. sort'.indeg = indeg /\ sort'.stack = stack /\ sort'.visited = 0
  BY <1>1
<1>5. indeg = [n \in Ends(edges) |-> Cardinality({i \in ContainsEdges(edges) : edges[i].target = n})]
  OBVIOUS
<1> HIDE DEF indeg
<1>6. Sorting(edges, {}, indeg, stack)
  BY <1>1, <1>3, <1>5, SortBegins
<1>7. IsFiniteSet({}) /\ Cardinality({}) = 0
  BY FS_EmptySet
<1>8. \E X : /\ Sorting(edges', X, sort'.indeg, sort'.stack)
             /\ IsFiniteSet(X) /\ sort'.visited = Cardinality(X)
  BY <1>2, <1>4, <1>6, <1>7
<1> QED
  BY <1>2, <1>8 DEF SortInv

LEMMA FinishSorts ==
  ASSUME ReadInv, SortInv, Finish
  PROVE  SortInv'
<1>1. /\ pc = "sort" /\ sort.stack = << >> /\ pc' = "taken" /\ edges' = edges
      /\ snap'.cyclic = (sort.visited # Cardinality(DOMAIN sort.indeg))
  BY DEF Finish, reading
<1>2. PICK X : /\ Sorting(edges, X, sort.indeg, sort.stack)
               /\ sort.visited = Cardinality(X)
  BY <1>1 DEF SortInv
<1>3. IsFiniteSet(ContainsEdges(edges))
  BY <1>1, EdgesFinite
<1>4. Cardinality(X) # Cardinality(Ends(edges)) <=> HasCycle(edges)
  BY <1>1, <1>2, <1>3, SortEnds
<1>5. DOMAIN sort.indeg = Ends(edges)
  BY <1>2 DEF Sorting
<1>6. snap'.cyclic <=> HasCycle(edges)
  BY <1>1, <1>2, <1>4, <1>5
<1> QED
  BY <1>1, <1>6 DEF SortInv

LEMMA VisitSorts ==
  ASSUME ReadInv, SortInv, Visit
  PROVE  SortInv'
<1> DEFINE C == ContainsEdges(edges)
           cur == Last(sort.stack)
           rest == Front(sort.stack)
           kids == [n \in Ends(edges) |-> {i \in C : edges[i].source = cur /\ edges[i].target = n}]
           indeg == [n \in DOMAIN sort.indeg |-> sort.indeg[n] - Kids(cur, n)]
           freed == {n \in DOMAIN indeg : Kids(cur, n) > 0 /\ indeg[n] = 0}
           last(n) == CHOOSE i \in C :
                        /\ edges[i].source = cur /\ edges[i].target = n
                        /\ \A j \in C : edges[j].source = cur /\ edges[j].target = n => j <= i
           found == [n \in freed |-> last(n)]
           new == ByEdge(found)
<1>1. /\ pc = "sort" /\ pc' = "sort" /\ edges' = edges /\ sort.stack # << >>
      /\ sort' = [indeg |-> indeg, stack |-> rest \o new, visited |-> sort.visited + 1]
  BY DEF Visit, reading
<1>2. sort'.indeg = indeg /\ sort'.stack = rest \o new /\ sort'.visited = sort.visited + 1
  BY <1>1
<1>3. PICK X : /\ Sorting(edges, X, sort.indeg, sort.stack)
               /\ IsFiniteSet(X) /\ sort.visited = Cardinality(X)
  BY <1>1 DEF SortInv
<1>4. IsFiniteSet(C) /\ C \subseteq Nat /\ DOMAIN sort.indeg = Ends(edges)
  BY <1>1, <1>3, EdgesFinite DEF ContainsEdges, Positions, Sorting
<1>5. ASSUME NEW n \in Ends(edges)
      PROVE  /\ kids[n] = {i \in C : edges[i].source = cur /\ edges[i].target = n}
             /\ Kids(cur, n) = Cardinality(kids[n])
             /\ IsFiniteSet(kids[n]) /\ Cardinality(kids[n]) \in Nat
             /\ Cardinality(kids[n]) > 0 <=> kids[n] # {}
  <2> HIDE DEF cur
  <2>1. kids[n] = {i \in C : edges[i].source = cur /\ edges[i].target = n}
    OBVIOUS
  <2>2. Kids(cur, n) = Cardinality(kids[n])
    BY <2>1 DEF Kids
  <2>3. kids[n] \in SUBSET C
    BY <2>1
  <2> HIDE DEF kids, C
  <2>4. IsFiniteSet(kids[n])
    BY <1>4, <2>3, FS_Subset
  <2>5. Cardinality(kids[n]) \in Nat /\ (Cardinality(kids[n]) = 0 <=> kids[n] = {})
    BY <2>4, FS_CardinalityType, FS_EmptySet
  <2> QED
    BY <2>1, <2>2, <2>4, <2>5 DEF C
<1>6. indeg = [n \in Ends(edges) |-> sort.indeg[n] - Cardinality(kids[n])]
  <2> HIDE DEF kids, cur
  <2> QED
    BY <1>4, <1>5
<1>7. freed = {n \in Ends(edges) : kids[n] # {} /\ indeg[n] = 0}
  <2>1. DOMAIN indeg = Ends(edges)
    BY <1>4
  <2> HIDE DEF kids, cur, indeg
  <2> QED
    BY <1>5, <2>1
<1>8. ASSUME NEW n \in freed
      PROVE  found[n] \in C /\ edges[found[n]].target = n
  <2>1. n \in Ends(edges) /\ kids[n] # {} /\ found[n] = last(n)
    BY <1>7
  <2> HIDE DEF found, freed, indeg
  <2>2. IsFiniteSet(kids[n]) /\ kids[n] \subseteq Nat
    BY <1>4, <1>5, <2>1
  <2>3. PICK x \in kids[n] : \A y \in kids[n] : y <= x
    <3> HIDE DEF kids
    <3> QED
      BY <2>1, <2>2, FiniteGreatest
  <2>4. /\ x \in C /\ edges[x].source = cur /\ edges[x].target = n
        /\ \A j \in C : edges[j].source = cur /\ edges[j].target = n => j <= x
    BY <1>5, <2>1, <2>3
  <2>5. last(n) \in C /\ edges[last(n)].target = n
    <3> HIDE DEF C, cur, kids
    <3> QED
      BY <2>4
  <2> QED
    BY <2>1, <2>5
<1>9. /\ new \in Seq(freed)
      /\ \A n \in freed : \E k \in 1..Len(new) : new[k] = n
      /\ \A k, l \in 1..Len(new) : new[k] = new[l] => k = l
  <2>1. found = [n \in freed |-> found[n]]
    OBVIOUS
  <2> HIDE DEF found, freed, C
  <2>2. found \in [freed -> Nat]
    BY <1>4, <1>8, <2>1
  <2>3. {found[n] : n \in freed} \in SUBSET C
    BY <1>8
  <2>4. IsFiniteSet({found[n] : n \in freed})
    BY <1>4, <2>3, FS_Subset
  <2>5. \A v, w \in freed : found[v] = found[w] => v = w
    BY <1>8
  <2>6. /\ ByEdge(found) \in Seq(freed)
        /\ \A v \in freed : \E k \in 1..Len(ByEdge(found)) : ByEdge(found)[k] = v
        /\ \A k, l \in 1..Len(ByEdge(found)) : ByEdge(found)[k] = ByEdge(found)[l] => k = l
    BY <2>2, <2>4, <2>5, ByEdgeLists
  <2> QED
    BY <2>6
<1>10. cur = sort.stack[Len(sort.stack)] /\ rest = SubSeq(sort.stack, 1, Len(sort.stack) - 1)
  BY DEF Last, Front
<1>11. \A n \in Ends(edges) :
         kids[n] = {i \in ContainsEdges(edges) : edges[i].source = cur /\ edges[i].target = n}
  OBVIOUS
<1>12. IsFiniteSet(ContainsEdges(edges))
  BY <1>4
<1> HIDE DEF C, cur, rest, kids, indeg, freed, found, new
<1>13. Sorting(edges, X \cup {cur}, indeg, rest \o new) /\ cur \notin X
  <2>1. Frees(edges, cur, sort.indeg, kids, indeg, freed, new)
    BY <1>6, <1>7, <1>9, <1>11 DEF Frees
  <2> QED
    BY <1>1, <1>3, <1>10, <1>12, <2>1, SortVisits
<1>14. IsFiniteSet(X \cup {cur}) /\ Cardinality(X \cup {cur}) = Cardinality(X) + 1
  BY <1>3, <1>13, FS_AddElement
<1>15. \E Y : /\ Sorting(edges', Y, sort'.indeg, sort'.stack)
              /\ IsFiniteSet(Y) /\ sort'.visited = Cardinality(Y)
  BY <1>1, <1>2, <1>3, <1>13, <1>14
<1> QED
  BY <1>1, <1>15 DEF SortInv

LEMMA SortStep == ReadInv /\ SortInv /\ [Next]_vars => SortInv'
<1> SUFFICES ASSUME ReadInv, SortInv, [Next]_vars PROVE SortInv'
  OBVIOUS
<1>1. CASE UNCHANGED vars
  BY <1>1 DEF vars, reading, SortInv
<1>2. CASE pc' \notin {"sort", "taken"}
  BY <1>2 DEF SortInv
<1>3. CASE Parse \/ Check \/ ReadNode \/ EndNodes \/ ReadEdge \/ Return \/ Again
  <2>1. pc' \notin {"sort", "taken"}
    BY <1>3 DEF Parse, Check, ReadNode, EndNodes, ReadEdge, Return, Again, Reject
  <2> QED
    BY <1>2, <2>1
<1> QED
  BY <1>1, <1>3, TakeSorts, VisitSorts, FinishSorts DEF Next

\* Whatever the order in which nodes are stacked, and with edges listed twice,
\* nodes that contain themselves and ends that are no nodes, the count that
\* take() compares decides exactly whether containment has a cycle.
THEOREM CycleCheckIsExact == Spec => []CycleCheckExact
<1>1. Init => SortInv
  BY DEF Init, SortInv
<1>2. ReadInv /\ SortInv => CycleCheckExact
  BY DEF ReadInv, SortInv, CycleCheckExact
<1> QED
  BY <1>1, <1>2, ReadInit, ReadStep, SortStep, PTL DEF Spec

-----------------------------------------------------------------------------
(* Numbers.                                                                *)

LEMMA WholeNumber ==
  ASSUME NEW n \in Int
  PROVE  /\ Whole(n, n < 0) \in {"Int", "Uint"} \X Int /\ Atom(Whole(n, n < 0))
         /\ n \in Int64 => Whole(n, n < 0)[2] = n
         /\ n \in Nat => Kind(Whole(n, n < 0)) = "Uint" /\ Whole(n, n < 0)[2] \in Nat
         /\ n < 0 => Kind(Whole(n, n < 0)) = "Int"
  BY WidthAssumption DEF Whole, Int64, Kind, Atom

\* A double is written as a whole number when it rounds to one.
LEMMA ScalarDouble ==
  ASSUME NEW l \in Int
  PROVE  /\ Scalar(<<"Double", l>>) \in Numbers \X Int /\ Atom(Scalar(<<"Double", l>>))
         /\ Rounded(l) = l /\ l % 6 # 0 => Scalar(<<"Double", l>>) = <<"Double", l>>
         /\ Rounded(l) = l /\ l \div 6 \in Int64 => number(Scalar(<<"Double", l>>)) = l
<1> DEFINE v == <<"Double", l>>
           d == Rounded(l)
<1>1. d \in Int /\ d \div 6 \in Int /\ d % 6 \in Int /\ (d % 6 = 0 => d = 6 * (d \div 6))
      /\ (l < 0 => d <= 0) /\ (l >= 0 => d >= 0)
  BY DEF Rounded
<1>2. Scalar(v) = IF d % 6 = 0 THEN Whole(d \div 6, l < 0) ELSE <<"Double", d>>
  BY DEF Scalar, Kind
<1>3. CASE d % 6 # 0
  <2>1. Scalar(v) = <<"Double", d>>
    BY <1>2, <1>3
  <2> QED
    BY <1>1, <2>1 DEF Numbers, number, Kind, Atom
<1>4. CASE d % 6 = 0
  <2> DEFINE q == d \div 6
  <2>1. Scalar(v) = Whole(q, l < 0) /\ q \in Int /\ d = 6 * q
    BY <1>1, <1>2, <1>4
  <2>2. Whole(q, l < 0) \in {"Int", "Uint"} \X Int /\ Atom(Whole(q, l < 0))
    BY <1>1, <2>1, WidthAssumption DEF Whole, Atom
  <2>3. ASSUME d = l, q \in Int64
        PROVE  number(Scalar(v)) = l
    <3>1. (l < 0 <=> q < 0)
      BY <2>1, <2>3
    <3>2. Whole(q, l < 0)[2] = q /\ Kind(Whole(q, l < 0)) # "Double"
      BY <2>1, <2>3, <3>1, WidthAssumption DEF Whole, Int64, Kind
    <3> QED
      BY <2>1, <2>3, <3>2 DEF number
  <2>4. d = l => l % 6 = 0 /\ q = l \div 6
    BY <1>4
  <2> QED
    BY <2>1, <2>2, <2>3, <2>4 DEF Numbers
<1> QED
  BY <1>3, <1>4

LEMMA ScalarInteger ==
  ASSUME NEW k \in {"Int", "Uint"}, NEW n \in Int
  PROVE  Scalar(<<k, n>>) = Whole(n, n < 0)
  BY DEF Scalar, Kind

LEMMA IntegerType ==
  ASSUME NEW v, IsElement(v)
  PROVE  integer(v) \in Int
<1>1. CASE v \in Numbers \X Int
  <2>1. v[2] \in Int /\ Kind(v) \in {"Int", "Uint", "Double"}
    BY <1>1 DEF Numbers, Kind
  <2> QED
    BY <2>1 DEF integer
<1>2. CASE Kind(v) \notin {"Int", "Uint", "Double"}
  BY <1>2 DEF integer
<1>3. v \in Numbers \X Int \/ Kind(v) \notin {"Int", "Uint", "Double"}
  BY DEF IsElement, Atom, Compound, Kind, Null, Numbers
<1> QED
  BY <1>1, <1>2, <1>3

\* An atom stays one.
LEMMA ScalarAtom ==
  ASSUME NEW v, Atom(v)
  PROVE  /\ Atom(Scalar(v))
         /\ Kind(v) \notin Numbers => Scalar(v) = v
         /\ Kind(v) \in Numbers <=> Kind(Scalar(v)) \in Numbers
         /\ Kind(v) \notin Compound
<1>1. CASE v \in Numbers \X Int
  <2>1. v[2] \in Int /\ v = <<v[1], v[2]>> /\ Kind(v) \in Numbers /\ Kind(v) = v[1]
    BY <1>1 DEF Kind
  <2>2. Scalar(v) \in Numbers \X Int /\ Atom(Scalar(v))
    <3>1. CASE v[1] = "Double"
      BY <2>1, <3>1, ScalarDouble
    <3>2. CASE v[1] \in {"Int", "Uint"}
      <4>1. Scalar(v) = Whole(v[2], v[2] < 0)
        BY <2>1, <3>2, ScalarInteger
      <4>2. Whole(v[2], v[2] < 0) \in {"Int", "Uint"} \X Int /\ Atom(Whole(v[2], v[2] < 0))
        BY <2>1, WholeNumber
      <4> QED
        BY <4>1, <4>2 DEF Numbers
    <3> QED
      BY <2>1, <3>1, <3>2 DEF Numbers
  <2> QED
    BY <2>1, <2>2 DEF Kind, Compound, Numbers
<1>2. CASE v \notin Numbers \X Int
  <2>1. Kind(v) \in {"Null", "Bool", "String"}
    BY <1>2 DEF Atom, Kind, Null, Numbers
  <2>2. Scalar(v) = v
    BY <2>1 DEF Scalar
  <2> QED
    BY <2>1, <2>2 DEF Numbers, Compound
<1> QED
  BY <1>1, <1>2

LEMMA ModSmall ==
  ASSUME NEW a \in Nat, NEW b \in Nat, a < b
  PROVE  a % b = a
  OBVIOUS

LEMMA ModType ==
  ASSUME NEW a \in Int, NEW b \in Nat, b > 0
  PROVE  a % b \in Nat /\ a % b < b
  OBVIOUS

LEMMA UnsignedTrip ==
  ASSUME NEW o, NEW k, NEW u \in 0..Width, Kind(o) = "Object", k \in DOMAIN o[2],
         o[2][k] = Scalar(unsigned_to_json(u))
  PROVE  opt_unsigned(o, k) = u
<1>1. CASE u = 0
  <2>1. o[2][k] = Null
    BY <1>1 DEF unsigned_to_json, Scalar, Null, Kind
  <2> QED
    BY <1>1, <2>1 DEF opt_unsigned
<1>2. CASE u # 0
  <2> DEFINE n == u - 1
  <2>1. n \in Nat /\ n < Width /\ n <= MaxInt64 /\ n \in Int64 /\ Width \in Nat /\ 1 + n = u
    BY <1>2, WidthAssumption DEF Int64
  <2> HIDE DEF n
  <2>2. o[2][k] = Whole(n, n < 0)
    <3>1. unsigned_to_json(u) = <<"Uint", n>>
      BY <1>2 DEF unsigned_to_json, n
    <3> QED
      BY <2>1, <3>1, ScalarInteger
  <2>3. Kind(o[2][k]) = "Uint" /\ o[2][k][2] = n
    BY <2>1, <2>2, WholeNumber
  <2>4. integer(o[2][k]) = n /\ o[2][k] # Null
    BY <2>3 DEF integer, Null, Kind
  <2>5. n % Width = n
    BY <2>1, ModSmall
  <2> QED
    BY <2>1, <2>4, <2>5 DEF opt_unsigned
<1> QED
  BY <1>1, <1>2

LEMMA UnsignedType ==
  ASSUME NEW o, NEW k,
         Kind(o) = "Object" /\ k \in DOMAIN o[2] => IsElement(o[2][k])
  PROVE  opt_unsigned(o, k) \in 0..Width
<1>1. CASE Kind(o) = "Object" /\ k \in DOMAIN o[2] /\ o[2][k] # Null
  <2>1. integer(o[2][k]) \in Int
    BY <1>1, IntegerType
  <2>2. integer(o[2][k]) % Width \in Nat /\ integer(o[2][k]) % Width < Width
    BY <2>1, ModType, WidthAssumption
  <2>3. opt_unsigned(o, k) = 1 + (integer(o[2][k]) % Width)
    BY <1>1 DEF opt_unsigned
  <2> QED
    BY <2>2, <2>3, WidthAssumption
<1>2. CASE ~(Kind(o) = "Object" /\ k \in DOMAIN o[2] /\ o[2][k] # Null)
  BY <1>2, WidthAssumption DEF opt_unsigned
<1> QED
  BY <1>1, <1>2

-----------------------------------------------------------------------------
(* A property on its way through the text.                                 *)

LEMMA PropertyTrip ==
  ASSUME NEW p, IsPropertyValue(p), NEW v, v = ReparsedProperty(property_to_json(p))
  PROVE  /\ IsProperty(v) /\ ~PropertyThrows(v)
         /\ Kept(p) => property_from_json(v) = p
<1>1. CASE Atom(p)
  <2>1. /\ Kind(p) \in {"Null", "Bool", "Int", "Uint", "Double", "String"}
        /\ Kind(p) \in Numbers => p = <<Kind(p), p[2]>> /\ p[2] \in Int
        /\ Kind(p) = "Uint" => p[2] \in Nat
    BY <1>1 DEF Atom, Kind, Null, Numbers
  <2>2. property_to_json(p) = p
    BY <2>1 DEF property_to_json
  <2>3. v = Scalar(p)
    BY <2>1, <2>2 DEF ReparsedProperty, Inside, Compound
  <2>4. Atom(v) /\ Kind(v) \notin Compound /\ (Kind(p) \notin Numbers => v = p)
    BY <1>1, <2>3, ScalarAtom
  <2>5. IsProperty(v) /\ ~PropertyThrows(v) /\ property_from_json(v) = v
    BY <2>4 DEF IsProperty, Composed, PropertyThrows, StringFirst, Compound, property_from_json
  <2>6. ASSUME Kept(p) PROVE v = p
    <3>1. CASE Kind(p) = "Double"
      <4>1. Rounded(p[2]) = p[2] /\ p[2] % 6 # 0
        BY <2>6, <3>1 DEF Kept
      <4>2. p = <<"Double", p[2]>> /\ p[2] \in Int
        BY <2>1, <3>1 DEF Numbers
      <4> QED
        BY <2>3, <4>1, <4>2, ScalarDouble
    <3>2. CASE Kind(p) \in {"Int", "Uint"}
      <4>1. p[2] \in Int64 /\ p[2] \in Int /\ p = <<Kind(p), p[2]>>
        BY <2>1, <2>6, <3>2 DEF Kept, Numbers
      <4>2. Kind(p) = "Int" => p[2] < 0
        BY <2>6 DEF Kept
      <4>3. v = Whole(p[2], p[2] < 0)
        BY <2>3, <3>2, <4>1, ScalarInteger
      <4>4. v[2] = p[2] /\ v = <<Kind(v), v[2]>>
        BY <4>1, <4>3, WholeNumber DEF Kind
      <4>5. Kind(v) = Kind(p)
        <5>1. CASE Kind(p) = "Int"
          BY <4>1, <4>2, <4>3, <5>1, WholeNumber
        <5>2. CASE Kind(p) = "Uint"
          <6>1. p[2] \in Nat
            BY <2>1, <5>2
          <6> QED
            BY <4>3, <5>2, <6>1, WholeNumber
        <5> QED
          BY <3>2, <5>1, <5>2
      <4> QED
        BY <4>1, <4>4, <4>5
    <3> QED
      BY <2>1, <2>4, <3>1, <3>2 DEF Numbers
  <2> QED
    BY <2>5, <2>6
<1>2. CASE /\ p = <<"Strings", p[2]>> /\ IsMap(p[2]) /\ Vector(p[2])
           /\ \A i \in DOMAIN p[2] : Kind(p[2][i]) = "String" /\ Atom(p[2][i])
  <2> DEFINE a == p[2]
  <2>1. property_to_json(p) = <<"Array", a>> /\ Kind(p) = "Strings"
    BY <1>2 DEF property_to_json, Kind
  <2>2. \A i \in DOMAIN a : Scalar(a[i]) = a[i]
    BY <1>2 DEF Scalar
  <2>3. v = <<"Array", [i \in DOMAIN a |-> Scalar(a[i])]>>
    BY <2>1 DEF ReparsedProperty, Inside, Kind, Compound
  <2>4. [i \in DOMAIN a |-> Scalar(a[i])] = [i \in DOMAIN a |-> a[i]]
    BY <2>2
  <2>5. v = <<"Array", a>> /\ Kind(v) = "Array" /\ v[2] = a
    BY <1>2, <2>3, <2>4 DEF IsMap, Kind
  <2>6. IsProperty(v)
    BY <1>2, <2>5 DEF IsProperty, Composed, Compound, IsElement
  <2>7. ~PropertyThrows(v)
    BY <1>2, <2>5 DEF PropertyThrows
  <2>8. ASSUME Kept(p) PROVE property_from_json(v) = p
    <3>1. a # << >>
      BY <2>1, <2>8 DEF Kept
    <3>2. Len(a) \in Nat /\ DOMAIN a = 1..Len(a)
      BY <1>2 DEF Vector
    <3>3. 1 \in DOMAIN a
      <4>1. CASE Len(a) = 0
        <5>1. DOMAIN a = {} /\ a = [i \in {} |-> a[i]]
          BY <1>2, <3>2, <4>1 DEF IsMap
        <5>2. a = << >>
          BY <5>1
        <5> QED
          BY <3>1, <5>2
      <4>2. CASE Len(a) # 0
        BY <3>2, <4>2
      <4> QED
        BY <4>1, <4>2
    <3>4. StringFirst(v)
      BY <1>2, <2>5, <3>1, <3>3 DEF StringFirst
    <3> QED
      BY <1>2, <2>5, <3>4 DEF property_from_json
  <2> QED
    BY <2>6, <2>7, <2>8
<1>3. CASE /\ p = <<"Ints", p[2]>> /\ IsMap(p[2]) /\ Vector(p[2])
           /\ \A i \in DOMAIN p[2] : p[2][i] \in Int
  <2> DEFINE a == p[2]
             b == [i \in DOMAIN a |-> Scalar(<<"Int", a[i]>>)]
  <2>1. property_to_json(p) = <<"Array", [i \in DOMAIN a |-> <<"Int", a[i]>>]>> /\ Kind(p) = "Ints"
    BY <1>3 DEF property_to_json, Kind
  <2>2. v = <<"Array", b>> /\ Kind(v) = "Array" /\ v[2] = b /\ DOMAIN b = DOMAIN a
    <3> DEFINE c == [i \in DOMAIN a |-> <<"Int", a[i]>>]
    <3>1. v = ReparsedProperty(<<"Array", c>>)
      BY <2>1
    <3>2. [i \in DOMAIN c |-> Scalar(c[i])] = b
      OBVIOUS
    <3> HIDE DEF c
    <3>3. v = <<"Array", [i \in DOMAIN c |-> Scalar(c[i])]>>
      BY <3>1 DEF ReparsedProperty, Inside, Kind, Compound
    <3> QED
      BY <3>2, <3>3 DEF Kind
  <2>3. ASSUME NEW i \in DOMAIN a
        PROVE  /\ b[i] = Whole(a[i], a[i] < 0) /\ Kind(b[i]) \in {"Int", "Uint"} /\ Atom(b[i])
               /\ a[i] \in Int64 => integer(b[i]) = a[i]
    <3>1. a[i] \in Int /\ b[i] = Scalar(<<"Int", a[i]>>)
      BY <1>3
    <3>2. b[i] = Whole(a[i], a[i] < 0)
      BY <3>1, ScalarInteger
    <3>3. b[i] \in {"Int", "Uint"} \X Int /\ Atom(b[i]) /\ (a[i] \in Int64 => b[i][2] = a[i])
      BY <3>1, <3>2, WholeNumber
    <3> QED
      BY <3>2, <3>3 DEF Kind, Numbers, integer
  <2>4. IsMap(b) /\ Vector(b)
    <3>1. Len(a) \in Nat /\ DOMAIN a = 1..Len(a)
      BY <1>3 DEF Vector
    <3>2. b = [i \in 1..Len(a) |-> b[i]] /\ b = [i \in DOMAIN b |-> b[i]]
      BY <3>1
    <3> HIDE DEF b
    <3> QED
      BY <3>1, <3>2, ListOf DEF IsMap
  <2> HIDE DEF b
  <2>5. ~StringFirst(v)
    <3>1. ASSUME StringFirst(v) PROVE FALSE
      <4>1. b # << >> /\ Kind(b[1]) = "String"
        BY <2>2, <3>1 DEF StringFirst
      <4>2. Len(b) \in Nat /\ DOMAIN b = 1..Len(b) /\ b = [i \in DOMAIN b |-> b[i]]
        BY <2>4 DEF Vector, IsMap
      <4>3. 1 \in DOMAIN b
        <5>1. CASE Len(b) = 0
          <6>1. DOMAIN b = {}
            BY <4>2, <5>1
          <6>2. b = << >>
            BY <4>2, <6>1
          <6> QED
            BY <4>1, <6>2
        <5>2. CASE Len(b) # 0
          BY <4>2, <5>2
        <5> QED
          BY <5>1, <5>2
      <4> QED
        BY <2>2, <2>3, <4>1, <4>3
    <3> QED
      BY <3>1
  <2>6. IsProperty(v)
    BY <2>2, <2>3, <2>4 DEF IsProperty, Composed, Compound, IsElement
  <2>7. ~PropertyThrows(v)
    BY <2>5 DEF PropertyThrows
  <2>8. ASSUME Kept(p) PROVE property_from_json(v) = p
    <3>1. \A i \in DOMAIN a : a[i] \in Int64
      BY <2>1, <2>8 DEF Kept
    <3>2. property_from_json(v) = <<"Ints", [i \in DOMAIN b |-> integer(b[i])]>>
      BY <2>2, <2>5 DEF property_from_json
    <3>3. [i \in DOMAIN b |-> integer(b[i])] = [i \in DOMAIN a |-> a[i]]
      BY <2>2, <2>3, <3>1
    <3> QED
      BY <1>3, <3>2, <3>3 DEF IsMap
  <2> QED
    BY <2>6, <2>7, <2>8
<1> QED
  BY <1>1, <1>2, <1>3 DEF IsPropertyValue

LEMMA PropertyRead ==
  ASSUME NEW v, IsProperty(v), ~PropertyThrows(v)
  PROVE  IsPropertyValue(property_from_json(v))
<1>1. CASE Kind(v) \notin Compound
  <2>1. Atom(v)
    BY <1>1 DEF IsProperty, Composed
  <2>2. property_from_json(v) = v
    BY <1>1 DEF property_from_json, StringFirst, Compound
  <2> QED
    BY <2>1, <2>2 DEF IsPropertyValue
<1>2. CASE Kind(v) = "Object"
  BY <1>2 DEF property_from_json, StringFirst, IsPropertyValue, Atom
<1>3. CASE Kind(v) = "Array"
  <2>1. IsMap(v[2]) /\ Vector(v[2]) /\ \A k \in DOMAIN v[2] : IsElement(v[2][k])
    BY <1>3 DEF IsProperty, Composed, Compound
  <2>2. CASE StringFirst(v)
    <3>1. property_from_json(v) = <<"Strings", v[2]>>
      BY <1>3, <2>2 DEF property_from_json
    <3>2. \A i \in DOMAIN v[2] : Kind(v[2][i]) = "String" /\ Atom(v[2][i])
      BY <2>1, <2>2 DEF PropertyThrows, IsElement, Compound
    <3> QED
      BY <2>1, <3>1, <3>2 DEF IsPropertyValue
  <2>3. CASE ~StringFirst(v)
    <3> DEFINE a == v[2]
               b == [i \in DOMAIN a |-> integer(a[i])]
    <3>1. property_from_json(v) = <<"Ints", b>>
      BY <1>3, <2>3 DEF property_from_json
    <3>2. DOMAIN b = DOMAIN a /\ \A i \in DOMAIN b : b[i] \in Int
      BY <2>1, IntegerType
    <3>3. IsMap(b) /\ Vector(b)
      <4>1. Len(a) \in Nat /\ DOMAIN a = 1..Len(a)
        BY <2>1 DEF Vector
      <4>2. b = [i \in 1..Len(a) |-> b[i]] /\ b = [i \in DOMAIN b |-> b[i]]
        BY <4>1
      <4> HIDE DEF b
      <4> QED
        BY <4>1, <4>2, ListOf DEF IsMap
    <3> HIDE DEF b
    <3> QED
      BY <3>1, <3>2, <3>3 DEF IsPropertyValue
  <2> QED
    BY <2>2, <2>3
<1> QED
  BY <1>1, <1>2, <1>3 DEF Compound

-----------------------------------------------------------------------------
(* A node on its way through the text.                                     *)

NodeFields == {"id", "type", "name", "native", "capabilities", "confidence", "provenance", "properties"}

\* What a node's object holds once it was written and parsed.
NodeImage(v, id, n) ==
  /\ Kind(v) = "Object" /\ DOMAIN v[2] = NodeFields
  /\ v[2].id = Hex(id) /\ v[2].type = Text(n.type) /\ v[2].name = <<"String", n.name>>
  /\ v[2].capabilities = Scalar(<<"Uint", n.caps>>) /\ v[2].confidence = Text(n.conf)
  /\ Kind(v[2].native) = "Object" /\ DOMAIN v[2].native[2] = {"key", "numa"}
  /\ v[2].native[2].key = Scalar(unsigned_to_json(n.key))
  /\ v[2].native[2].numa = Scalar(unsigned_to_json(n.numa))
  /\ Kind(v[2].provenance) = "Object" /\ DOMAIN v[2].provenance[2] = {"provider"}
  /\ v[2].provenance[2].provider = Text(n.provider)
  /\ Kind(v[2].properties) = "Object" /\ DOMAIN v[2].properties[2] = DOMAIN n.props
  /\ \A k \in DOMAIN n.props :
       v[2].properties[2][k] = ReparsedProperty(property_to_json(n.props[k]))

LEMMA InsideObject ==
  ASSUME NEW f
  PROVE  /\ ReparsedField(Object(f)) = Object([k \in DOMAIN f |-> ReparsedProperty(f[k])])
         /\ ReparsedNode(Object(f)) = Object([k \in DOMAIN f |-> ReparsedField(f[k])])
  BY DEF ReparsedField, ReparsedNode, Inside, Object, Kind, Compound

LEMMA InsideAtom ==
  ASSUME NEW v, Kind(v) \notin Compound
  PROVE  /\ ReparsedProperty(v) = Scalar(v) /\ ReparsedField(v) = Scalar(v)
         /\ Kind(v) = "String" => Scalar(v) = v
  BY DEF ReparsedProperty, ReparsedField, Inside, Scalar

LEMMA NodeWritten ==
  ASSUME NEW id, NEW n, NEW v, v = ReparsedNode(node_to_json(id, n))
  PROVE  NodeImage(v, id, n)
<1> DEFINE props == [k \in DOMAIN n.props |-> property_to_json(n.props[k])]
           native == [key |-> unsigned_to_json(n.key), numa |-> unsigned_to_json(n.numa)]
           prov == [provider |-> Text(n.provider)]
           f == [id |-> Hex(id), type |-> Text(n.type), name |-> <<"String", n.name>>,
                 native |-> Object(native), capabilities |-> <<"Uint", n.caps>>,
                 confidence |-> Text(n.conf), provenance |-> Object(prov),
                 properties |-> Object(props)]
<1>1. node_to_json(id, n) = Object(f)
  BY DEF node_to_json, native_to_json, provenance_to_json
<1>2. /\ DOMAIN f = NodeFields /\ f.id = Hex(id) /\ f.type = Text(n.type) /\ f.name = <<"String", n.name>>
      /\ f.native = Object(native) /\ f.capabilities = <<"Uint", n.caps>>
      /\ f.confidence = Text(n.conf) /\ f.provenance = Object(prov) /\ f.properties = Object(props)
  BY DEF NodeFields
<1> HIDE DEF f
<1>3. /\ Kind(v) = "Object" /\ DOMAIN v[2] = NodeFields
      /\ \A k \in NodeFields : v[2][k] = ReparsedField(f[k])
  <2>1. v = Object([k \in DOMAIN f |-> ReparsedField(f[k])])
    BY <1>1, InsideObject
  <2> QED
    BY <1>2, <2>1 DEF Object, Kind
<1>4. /\ v[2].id = Hex(id) /\ v[2].type = Text(n.type) /\ v[2].name = <<"String", n.name>>
      /\ v[2].confidence = Text(n.conf)
  <2>1. ASSUME NEW k \in {"id", "type", "name", "confidence"} PROVE v[2][k] = f[k]
    <3>1. Kind(f[k]) = "String" /\ k \in NodeFields
      BY <1>2 DEF Hex, Text, Kind, NodeFields
    <3> QED
      BY <1>3, <3>1, InsideAtom DEF Compound
  <2> QED
    BY <1>2, <2>1
<1>5. v[2].capabilities = Scalar(<<"Uint", n.caps>>)
  BY <1>2, <1>3, InsideAtom DEF Compound, Kind, NodeFields
<1>6. /\ Kind(v[2].native) = "Object" /\ DOMAIN v[2].native[2] = {"key", "numa"}
      /\ v[2].native[2].key = Scalar(unsigned_to_json(n.key))
      /\ v[2].native[2].numa = Scalar(unsigned_to_json(n.numa))
  <2>1. v[2].native = Object([k \in DOMAIN native |-> ReparsedProperty(native[k])])
    <3> HIDE DEF native
    <3> QED
      BY <1>2, <1>3, InsideObject DEF NodeFields
  <2>2. \A u : Kind(unsigned_to_json(u)) \notin Compound
    BY DEF unsigned_to_json, Kind, Compound, Null
  <2>3. \A u : ReparsedProperty(unsigned_to_json(u)) = Scalar(unsigned_to_json(u))
    BY <2>2, InsideAtom
  <2> QED
    BY <2>1, <2>3 DEF Object, Kind
<1>7. /\ Kind(v[2].provenance) = "Object" /\ DOMAIN v[2].provenance[2] = {"provider"}
      /\ v[2].provenance[2].provider = Text(n.provider)
  <2>1. v[2].provenance = Object([k \in DOMAIN prov |-> ReparsedProperty(prov[k])])
    <3> HIDE DEF prov
    <3> QED
      BY <1>2, <1>3, InsideObject DEF NodeFields
  <2>2. Kind(Text(n.provider)) = "String"
    BY DEF Text, Kind
  <2>3. ReparsedProperty(Text(n.provider)) = Text(n.provider)
    BY <2>2, InsideAtom DEF Compound
  <2> QED
    BY <2>1, <2>3 DEF Object, Kind
<1>8. /\ Kind(v[2].properties) = "Object" /\ DOMAIN v[2].properties[2] = DOMAIN n.props
      /\ \A k \in DOMAIN n.props :
           v[2].properties[2][k] = ReparsedProperty(property_to_json(n.props[k]))
  <2>1. v[2].properties = Object([k \in DOMAIN props |-> ReparsedProperty(props[k])])
    <3> HIDE DEF props
    <3> QED
      BY <1>2, <1>3, InsideObject DEF NodeFields
  <2> QED
    BY <2>1 DEF Object, Kind
<1> QED
  BY <1>3, <1>4, <1>5, <1>6, <1>7, <1>8 DEF NodeImage

Part(o, k) == IF k \in DOMAIN o[2] THEN o[2][k] ELSE Null

\* The fields of what is read, one by one.
LEMMA NodeReadFields ==
  ASSUME NEW o, NEW n, n = node_from_json(o)
  PROVE  /\ n = [type |-> n.type, key |-> n.key, numa |-> n.numa, caps |-> n.caps, conf |-> n.conf,
                 provider |-> n.provider, name |-> n.name, props |-> n.props]
         /\ n.type = node_type_from_string(o) /\ n.conf = confidence_from_string(o)
         /\ n.caps = IF Has(o, "capabilities", Numbers)
                     THEN integer(o[2].capabilities) % (2 * MaxInt64 + 2) ELSE 0
         /\ n.name = IF Has(o, "name", {"String"}) THEN o[2].name[2] ELSE <<"ascii", "">>
         /\ n.props = [k \in DOMAIN Properties(o) |-> property_from_json(Properties(o)[k])]
         /\ n.key = opt_unsigned(Part(o, "native"), "key")
         /\ n.numa = opt_unsigned(Part(o, "native"), "numa")
         /\ n.provider = IF Has(Part(o, "provenance"), "provider", {"String"})
                         THEN Part(o, "provenance")[2].provider[2][2] ELSE ""
  BY DEF node_from_json, native_from_json, provenance_from_json, Part

\* What reading a node needs of it.
ReadableNode(v) ==
  Kind(v) = "Object" =>
    /\ Has(v, "id", {"String"}) => IsString(v[2].id[2])
    /\ Has(v, "name", {"String"}) => IsString(v[2].name[2])
    /\ Has(v, "capabilities", Numbers) => IsElement(v[2].capabilities)
    /\ Has(v, "native", {"Object"}) =>
         \A k \in DOMAIN v[2].native[2] : IsElement(v[2].native[2][k])
    /\ \A k \in DOMAIN Properties(v) : IsProperty(Properties(v)[k])

LEMMA EntryReadable ==
  ASSUME NEW v, IsEntry(v)
  PROVE  ReadableNode(v)
<1> SUFFICES ASSUME Kind(v) = "Object" PROVE ReadableNode(v)
  BY DEF ReadableNode
<1>1. \A k \in DOMAIN v[2] : IsField(v[2][k])
  BY DEF IsEntry, Composed, Compound
<1>2. \A k \in DOMAIN v[2] : Kind(v[2][k]) \notin Compound => Atom(v[2][k])
  BY <1>1 DEF IsField, Composed
<1>3. \A k \in DOMAIN v[2] : Kind(v[2][k]) = "String" => IsString(v[2][k][2])
  BY <1>2 DEF Compound, Atom, Kind, Null
<1>4. \A k \in DOMAIN v[2] : Kind(v[2][k]) \in Compound =>
        \A f \in DOMAIN v[2][k][2] : IsProperty(v[2][k][2][f])
  BY <1>1 DEF IsField, Composed
<1>5. \A f : IsProperty(f) => IsElement(f)
  BY DEF IsProperty, IsElement, Composed
<1>6. Has(v, "id", {"String"}) => IsString(v[2].id[2])
  BY <1>3 DEF Has
<1>7. Has(v, "name", {"String"}) => IsString(v[2].name[2])
  BY <1>3 DEF Has
<1>8. Has(v, "capabilities", Numbers) => IsElement(v[2].capabilities)
  BY <1>2 DEF Has, IsElement
<1>9. Has(v, "native", {"Object"}) =>
         \A k \in DOMAIN v[2].native[2] : IsElement(v[2].native[2][k])
  BY <1>4, <1>5 DEF Has, Compound
<1>10. \A k \in DOMAIN Properties(v) : IsProperty(Properties(v)[k])
  <2>1. CASE Has(v, "properties", {"Object"})
    BY <1>4, <2>1 DEF Has, Compound, Properties
  <2>2. CASE ~Has(v, "properties", {"Object"})
    BY <2>2 DEF Properties
  <2> QED
    BY <2>1, <2>2
<1> QED
  BY <1>6, <1>7, <1>8, <1>9, <1>10 DEF ReadableNode

LEMMA ImageReadable ==
  ASSUME NEW v, NEW id \in Nat, NEW n, NodeImage(v, id, n), IsNode(n)
  PROVE  ReadableNode(v)
<1>1. IsString(v[2].id[2])
  BY DEF NodeImage, Hex, IsString
<1>2. IsString(v[2].name[2])
  BY DEF NodeImage, IsNode
<1>3. IsElement(v[2].capabilities)
  <2>1. Atom(<<"Uint", n.caps>>)
    BY DEF IsNode, Atom
  <2> QED
    BY <2>1, ScalarAtom DEF NodeImage, IsElement
<1>4. \A k \in DOMAIN v[2].native[2] : IsElement(v[2].native[2][k])
  <2>1. ASSUME NEW u \in 0..Width PROVE IsElement(Scalar(unsigned_to_json(u)))
    <3>1. Atom(unsigned_to_json(u))
      <4>1. CASE u = 0
        BY <4>1 DEF unsigned_to_json, Atom
      <4>2. CASE u # 0
        <5>1. unsigned_to_json(u) = <<"Uint", u - 1>> /\ u - 1 \in Nat
          BY <4>2, WidthAssumption DEF unsigned_to_json
        <5> QED
          BY <5>1 DEF Atom
      <4> QED
        BY <4>1, <4>2
    <3> QED
      BY <3>1, ScalarAtom DEF IsElement
  <2> QED
    BY <2>1 DEF NodeImage, IsNode
<1>5. \A k \in DOMAIN Properties(v) : IsProperty(Properties(v)[k])
  <2>1. Properties(v) = v[2].properties[2] \/ Properties(v) = << >>
    BY DEF Properties
  <2>2. \A k \in DOMAIN n.props : IsPropertyValue(n.props[k])
    BY DEF IsNode
  <2>3. \A k \in DOMAIN n.props : IsProperty(ReparsedProperty(property_to_json(n.props[k])))
    BY <2>2, PropertyTrip
  <2>4. \A k \in DOMAIN v[2].properties[2] : IsProperty(v[2].properties[2][k])
    BY <2>3 DEF NodeImage
  <2> QED
    BY <2>1, <2>4
<1> QED
  BY <1>1, <1>2, <1>3, <1>4, <1>5 DEF ReadableNode

LEMMA NodeRead ==
  ASSUME NEW v, ReadableNode(v), ReadError(v, {"id"}) = "none"
  PROVE  IsNode(node_from_json(v)) /\ Id(v) \in Nat
<1> DEFINE n == node_from_json(v)
<1>1. HasId(v, "id") /\ \A k \in DOMAIN Properties(v) : ~PropertyThrows(Properties(v)[k])
  BY DEF ReadError
<1>2. Kind(v) = "Object" /\ Has(v, "id", {"String"}) /\ v[2].id[2][1] = "hex"
  BY <1>1 DEF HasId, Has
<1>3. Id(v) \in Nat
  BY <1>2 DEF ReadableNode, IsString, Id
<1>4. /\ n = [type |-> n.type, key |-> n.key, numa |-> n.numa, caps |-> n.caps, conf |-> n.conf,
              provider |-> n.provider, name |-> n.name, props |-> n.props]
      /\ n.type = node_type_from_string(v) /\ n.conf = confidence_from_string(v)
      /\ n.caps = IF Has(v, "capabilities", Numbers)
                  THEN integer(v[2].capabilities) % (2 * MaxInt64 + 2) ELSE 0
      /\ n.name = IF Has(v, "name", {"String"}) THEN v[2].name[2] ELSE <<"ascii", "">>
      /\ n.props = [k \in DOMAIN Properties(v) |-> property_from_json(Properties(v)[k])]
      /\ n.key = opt_unsigned(Part(v, "native"), "key")
      /\ n.numa = opt_unsigned(Part(v, "native"), "numa")
  BY NodeReadFields
<1> HIDE DEF n
<1>5. n.type \in NodeType /\ n.conf \in Confidence
  <2>1. "UNKNOWN" \in NodeType /\ "UNKNOWN" \in Confidence
    BY DEF NodeType, Confidence
  <2> QED
    BY <1>4, <2>1 DEF node_type_from_string, confidence_from_string, FromString
<1>6. n.caps \in Nat
  <2>1. 2 * MaxInt64 + 2 \in Nat /\ 2 * MaxInt64 + 2 > 0
    BY WidthAssumption
  <2>2. Has(v, "capabilities", Numbers) => integer(v[2].capabilities) \in Int
    BY <1>2, IntegerType DEF ReadableNode
  <2> DEFINE x == integer(v[2].capabilities) % (2 * MaxInt64 + 2)
  <2>3. Has(v, "capabilities", Numbers) => x \in Nat
    BY <2>1, <2>2, ModType
  <2>4. n.caps = IF Has(v, "capabilities", Numbers) THEN x ELSE 0
    BY <1>4
  <2> HIDE DEF x
  <2> QED
    BY <2>3, <2>4
<1>7. IsString(n.name)
  <2>1. IsString(<<"ascii", "">>)
    BY DEF IsString
  <2> QED
    BY <1>2, <1>4, <2>1 DEF ReadableNode
<1>8. n.key \in 0..Width /\ n.numa \in 0..Width
  <2> DEFINE o == Part(v, "native")
  <2>1. Kind(o) = "Object" => Has(v, "native", {"Object"}) /\ o = v[2].native
    BY <1>2 DEF Part, Has, Null, Kind
  <2>2. ASSUME NEW k, Kind(o) = "Object", k \in DOMAIN o[2] PROVE IsElement(o[2][k])
    BY <1>2, <2>1, <2>2 DEF ReadableNode
  <2> HIDE DEF o
  <2>3. opt_unsigned(o, "key") \in 0..Width /\ opt_unsigned(o, "numa") \in 0..Width
    BY <2>2, UnsignedType
  <2> QED
    BY <1>4, <2>3 DEF o
<1>9. \A k \in DOMAIN n.props : IsPropertyValue(n.props[k])
  <2>1. \A k \in DOMAIN Properties(v) : IsProperty(Properties(v)[k])
    BY <1>2 DEF ReadableNode
  <2>2. \A k \in DOMAIN Properties(v) : IsPropertyValue(property_from_json(Properties(v)[k]))
    BY <1>1, <2>1, PropertyRead
  <2> QED
    BY <1>4, <2>2
<1>10. IsNode(n)
  BY <1>4, <1>5, <1>6, <1>7, <1>8, <1>9 DEF IsNode
<1> QED
  BY <1>3, <1>10 DEF n

\* A node read is the node written, but for properties the text does not keep.
SameNode(new, old) ==
  /\ [new EXCEPT !.props = old.props] = old
  /\ DOMAIN new.props = DOMAIN old.props
  /\ \A k \in DOMAIN old.props : Kept(old.props[k]) => new.props[k] = old.props[k]

LEMMA NodeTrip ==
  ASSUME NEW v, NEW id, NEW n, NodeImage(v, id, n), IsNode(n), n.caps <= MaxInt64
  PROVE  ReadError(v, {"id"}) = "none" /\ Id(v) = id /\ SameNode(node_from_json(v), n)
<1> DEFINE m == node_from_json(v)
<1>1. /\ Kind(v) = "Object" /\ DOMAIN v[2] = NodeFields
      /\ v[2].id = Hex(id) /\ v[2].type = Text(n.type) /\ v[2].name = <<"String", n.name>>
      /\ v[2].capabilities = Scalar(<<"Uint", n.caps>>) /\ v[2].confidence = Text(n.conf)
      /\ Kind(v[2].native) = "Object" /\ DOMAIN v[2].native[2] = {"key", "numa"}
      /\ v[2].native[2].key = Scalar(unsigned_to_json(n.key))
      /\ v[2].native[2].numa = Scalar(unsigned_to_json(n.numa))
      /\ Kind(v[2].provenance) = "Object" /\ DOMAIN v[2].provenance[2] = {"provider"}
      /\ v[2].provenance[2].provider = Text(n.provider)
      /\ Kind(v[2].properties) = "Object" /\ DOMAIN v[2].properties[2] = DOMAIN n.props
      /\ \A k \in DOMAIN n.props :
           v[2].properties[2][k] = ReparsedProperty(property_to_json(n.props[k]))
  BY DEF NodeImage
<1>2. /\ n = [type |-> n.type, key |-> n.key, numa |-> n.numa, caps |-> n.caps, conf |-> n.conf,
              provider |-> n.provider, name |-> n.name, props |-> n.props]
      /\ n.type \in NodeType /\ n.key \in 0..Width /\ n.numa \in 0..Width /\ n.caps \in Nat
      /\ n.conf \in Confidence
      /\ \A k \in DOMAIN n.props : IsPropertyValue(n.props[k])
  BY DEF IsNode
<1>3. Properties(v) = v[2].properties[2]
  BY <1>1 DEF Properties, Has, NodeFields
<1>4. ASSUME NEW k \in DOMAIN n.props
      PROVE  /\ ~PropertyThrows(Properties(v)[k])
             /\ Kept(n.props[k]) => property_from_json(Properties(v)[k]) = n.props[k]
  BY <1>1, <1>2, <1>3, PropertyTrip
<1>5. ReadError(v, {"id"}) = "none" /\ Id(v) = id
  <2>1. HasId(v, "id")
    BY <1>1 DEF HasId, Has, Hex, Kind, NodeFields
  <2>2. \A k \in DOMAIN Properties(v) : ~PropertyThrows(Properties(v)[k])
    BY <1>1, <1>3, <1>4
  <2> QED
    BY <1>1, <2>1, <2>2 DEF ReadError, Id, Hex
<1>6. /\ m = [type |-> m.type, key |-> m.key, numa |-> m.numa, caps |-> m.caps, conf |-> m.conf,
              provider |-> m.provider, name |-> m.name, props |-> m.props]
      /\ m.type = node_type_from_string(v) /\ m.conf = confidence_from_string(v)
      /\ m.caps = IF Has(v, "capabilities", Numbers)
                  THEN integer(v[2].capabilities) % (2 * MaxInt64 + 2) ELSE 0
      /\ m.name = IF Has(v, "name", {"String"}) THEN v[2].name[2] ELSE <<"ascii", "">>
      /\ m.props = [k \in DOMAIN Properties(v) |-> property_from_json(Properties(v)[k])]
      /\ m.key = opt_unsigned(Part(v, "native"), "key")
      /\ m.numa = opt_unsigned(Part(v, "native"), "numa")
      /\ m.provider = IF Has(Part(v, "provenance"), "provider", {"String"})
                      THEN Part(v, "provenance")[2].provider[2][2] ELSE ""
  BY NodeReadFields
<1> HIDE DEF m
<1>7. m.type = n.type /\ m.conf = n.conf
  <2>1. /\ Has(v, "type", {"String"}) /\ v[2].type[2][1] = "ascii" /\ v[2].type[2][2] = n.type
        /\ Has(v, "confidence", {"String"}) /\ v[2].confidence[2][1] = "ascii"
        /\ v[2].confidence[2][2] = n.conf
    BY <1>1 DEF Has, Text, Kind, NodeFields
  <2>2. node_type_from_string(v) = n.type
    BY <1>2, <2>1 DEF node_type_from_string, FromString
  <2>3. confidence_from_string(v) = n.conf
    BY <1>2, <2>1 DEF confidence_from_string, FromString
  <2> QED
    BY <1>6, <2>2, <2>3
<1>8. m.name = n.name
  <2>1. Has(v, "name", {"String"}) /\ v[2].name[2] = n.name
    BY <1>1 DEF Has, Kind, NodeFields
  <2> QED
    BY <1>6, <2>1
<1>9. m.caps = n.caps
  <2>1. n.caps \in Int64 /\ n.caps \in Int
    BY <1>2, WidthAssumption DEF Int64
  <2>2. v[2].capabilities = Whole(n.caps, n.caps < 0)
    BY <1>1, <2>1, ScalarInteger
  <2>3. Kind(v[2].capabilities) = "Uint" /\ v[2].capabilities[2] = n.caps
    BY <1>2, <2>1, <2>2, WholeNumber
  <2>4. integer(v[2].capabilities) = n.caps
    BY <2>3 DEF integer
  <2>5. n.caps % (2 * MaxInt64 + 2) = n.caps
    <3>1. 2 * MaxInt64 + 2 \in Nat /\ n.caps < 2 * MaxInt64 + 2
      BY <1>2, WidthAssumption
    <3> QED
      BY <1>2, <3>1, ModSmall
  <2> QED
    BY <1>1, <1>6, <2>3, <2>4, <2>5 DEF Has, NodeFields, Numbers
<1>10. m.key = n.key /\ m.numa = n.numa
  <2>1. Part(v, "native") = v[2].native
    BY <1>1 DEF Part, NodeFields
  <2>2. opt_unsigned(v[2].native, "key") = n.key
    BY <1>1, <1>2, UnsignedTrip
  <2>3. opt_unsigned(v[2].native, "numa") = n.numa
    BY <1>1, <1>2, UnsignedTrip
  <2> QED
    BY <1>6, <2>1, <2>2, <2>3
<1>11. m.provider = n.provider
  <2>1. Part(v, "provenance") = v[2].provenance
    BY <1>1 DEF Part, NodeFields
  <2>2. Has(v[2].provenance, "provider", {"String"}) /\ v[2].provenance[2].provider[2][2] = n.provider
    BY <1>1 DEF Has, Text, Kind
  <2> QED
    BY <1>6, <2>1, <2>2
<1>12. DOMAIN m.props = DOMAIN n.props /\ \A k \in DOMAIN n.props : Kept(n.props[k]) => m.props[k] = n.props[k]
  BY <1>1, <1>3, <1>4, <1>6
<1>13. [m EXCEPT !.props = n.props] = n
  BY <1>2, <1>6, <1>7, <1>8, <1>9, <1>10, <1>11
<1> QED
  BY <1>5, <1>12, <1>13 DEF SameNode, m

-----------------------------------------------------------------------------
(* An edge on its way through the text.                                    *)

EdgeFields == {"source", "target", "type", "direction"}

EdgeImage(v, e) ==
  /\ Kind(v) = "Object" /\ EdgeFields \subseteq DOMAIN v[2]
  /\ DOMAIN v[2] \subseteq EdgeFields \cup {"latency_ns"}
  /\ v[2].source = Hex(e.source) /\ v[2].target = Hex(e.target)
  /\ v[2].type = Text(e.type) /\ v[2].direction = Text(e.direction)
  /\ "latency_ns" \in DOMAIN v[2] <=> e.link # {}
  /\ \A l : e.link = {l} => v[2].latency_ns = Scalar(<<"Double", l>>)

LEMMA EdgeWritten ==
  ASSUME NEW e, NEW v, v = ReparsedNode(edge_to_json(e))
  PROVE  EdgeImage(v, e)
<1> DEFINE always == [source |-> Hex(e.source), target |-> Hex(e.target), type |-> Text(e.type),
                      direction |-> Text(e.direction)]
           D == DOMAIN always \cup {"latency_ns" : l \in e.link}
           f == [k \in D |-> IF k \in DOMAIN always THEN always[k] ELSE <<"Double", CHOOSE l \in e.link : TRUE>>]
<1>1. edge_to_json(e) = Object(f)
  BY DEF edge_to_json
<1>2. /\ DOMAIN always = EdgeFields /\ "latency_ns" \notin EdgeFields
      /\ \A k \in EdgeFields : Kind(always[k]) = "String"
      /\ always.source = Hex(e.source) /\ always.target = Hex(e.target)
      /\ always.type = Text(e.type) /\ always.direction = Text(e.direction)
  BY DEF EdgeFields, Hex, Text, Kind
<1> HIDE DEF always
<1>3. /\ EdgeFields \subseteq D /\ D \subseteq EdgeFields \cup {"latency_ns"}
      /\ "latency_ns" \in D <=> e.link # {}
  BY <1>2
<1>4. DOMAIN f = D /\ (\A k \in EdgeFields : f[k] = always[k])
      /\ ("latency_ns" \in D => f.latency_ns = <<"Double", CHOOSE l \in e.link : TRUE>>)
  <2> HIDE DEF D
  <2> QED
    BY <1>2, <1>3
<1> HIDE DEF f, D
<1>5. v = Object([k \in D |-> ReparsedField(f[k])])
  BY <1>1, <1>4, InsideObject
<1>6. Kind(v) = "Object" /\ DOMAIN v[2] = D /\ \A k \in D : v[2][k] = ReparsedField(f[k])
  BY <1>5 DEF Object, Kind
<1>7. \A k \in EdgeFields : v[2][k] = always[k]
  <2> SUFFICES ASSUME NEW k \in EdgeFields PROVE v[2][k] = always[k]
    OBVIOUS
  <2>1. v[2][k] = ReparsedField(always[k]) /\ Kind(always[k]) = "String"
    BY <1>2, <1>3, <1>4, <1>6
  <2> QED
    BY <2>1, InsideAtom DEF Compound
<1>8. ASSUME NEW l, e.link = {l} PROVE v[2].latency_ns = Scalar(<<"Double", l>>)
  <2>1. "latency_ns" \in D /\ (CHOOSE x \in e.link : TRUE) = l
    BY <1>3, <1>8
  <2>2. v[2].latency_ns = ReparsedField(<<"Double", l>>)
    BY <1>4, <1>6, <2>1
  <2>3. Kind(<<"Double", l>>) \notin Compound
    BY DEF Kind, Compound
  <2> QED
    BY <2>2, <2>3, InsideAtom
<1>9. /\ v[2].source = Hex(e.source) /\ v[2].target = Hex(e.target)
      /\ v[2].type = Text(e.type) /\ v[2].direction = Text(e.direction)
  BY <1>2, <1>7 DEF EdgeFields
<1> QED
  BY <1>3, <1>6, <1>8, <1>9 DEF EdgeImage

\* What reading an edge needs of it.
ReadableEdge(v) ==
  Kind(v) = "Object" =>
    /\ \A k \in {"source", "target"} : Has(v, k, {"String"}) => IsString(v[2][k][2])
    /\ Has(v, "latency_ns", Numbers) => IsElement(v[2].latency_ns)

LEMMA EntryReadableEdge ==
  ASSUME NEW v, IsEntry(v)
  PROVE  ReadableEdge(v)
<1> SUFFICES ASSUME Kind(v) = "Object" PROVE ReadableEdge(v)
  BY DEF ReadableEdge
<1>1. \A k \in DOMAIN v[2] : IsField(v[2][k])
  BY DEF IsEntry, Composed, Compound
<1>2. \A k \in DOMAIN v[2] : Kind(v[2][k]) \notin Compound => Atom(v[2][k])
  BY <1>1 DEF IsField, Composed
<1>3. \A k \in DOMAIN v[2] : Kind(v[2][k]) = "String" => IsString(v[2][k][2])
  BY <1>2 DEF Compound, Atom, Kind, Null
<1>4. \A k \in {"source", "target"} : Has(v, k, {"String"}) => IsString(v[2][k][2])
  BY <1>3 DEF Has
<1>5. Has(v, "latency_ns", Numbers) => IsElement(v[2].latency_ns)
  BY <1>2 DEF Has, IsElement
<1> QED
  BY <1>4, <1>5 DEF ReadableEdge

LEMMA ImageReadableEdge ==
  ASSUME NEW v, NEW e, EdgeImage(v, e), IsEdge(e)
  PROVE  ReadableEdge(v)
<1>1. \A k \in {"source", "target"} : IsString(v[2][k][2])
  BY DEF EdgeImage, IsEdge, Hex, IsString
<1>2. Has(v, "latency_ns", Numbers) => IsElement(v[2].latency_ns)
  <2> SUFFICES ASSUME Has(v, "latency_ns", Numbers) PROVE IsElement(v[2].latency_ns)
    OBVIOUS
  <2>1. e.link # {}
    BY DEF EdgeImage, Has
  <2>2. PICK l \in e.link : l \in Int /\ e.link = {l}
    BY <2>1 DEF IsEdge
  <2>3. v[2].latency_ns = Scalar(<<"Double", l>>)
    BY <2>2 DEF EdgeImage
  <2> QED
    BY <2>2, <2>3, ScalarDouble DEF IsElement
<1> QED
  BY <1>1, <1>2 DEF ReadableEdge

LEMMA EdgeRead ==
  ASSUME NEW v, ReadableEdge(v), ReadError(v, {"source", "target"}) = "none"
  PROVE  IsEdge(edge_from_json(v))
<1> DEFINE e == edge_from_json(v)
           L == IF Has(v, "latency_ns", Numbers) THEN {number(v[2].latency_ns)} ELSE {}
<1>1. HasId(v, "source") /\ HasId(v, "target")
  BY DEF ReadError
<1>2. /\ Kind(v) = "Object" /\ Has(v, "source", {"String"}) /\ Has(v, "target", {"String"})
      /\ v[2].source[2][1] = "hex" /\ v[2].target[2][1] = "hex"
  BY <1>1 DEF HasId, Has
<1>3. v[2].source[2][2] \in Nat /\ v[2].target[2][2] \in Nat
  BY <1>2 DEF ReadableEdge, IsString
<1>4. /\ e = [source |-> e.source, target |-> e.target, type |-> e.type,
              direction |-> e.direction, link |-> e.link]
      /\ e.source = v[2].source[2][2] /\ e.target = v[2].target[2][2]
      /\ e.type = edge_type_from_string(v) /\ e.direction = edge_direction_from_string(v)
      /\ e.link = L
  BY DEF edge_from_json
<1> HIDE DEF e, L
<1>5. e.type \in EdgeType /\ e.direction \in EdgeDirection
  <2>1. "CONNECTED_TO" \in EdgeType /\ "DIRECTED" \in EdgeDirection
    BY DEF EdgeType, EdgeDirection
  <2> QED
    BY <1>4, <2>1 DEF edge_type_from_string, edge_direction_from_string, FromString
<1>6. L # {} => \E l \in L : l \in Int /\ L = {l}
  <2>1. CASE Has(v, "latency_ns", Numbers)
    <3> DEFINE w == v[2].latency_ns
    <3>1. IsElement(w) /\ Kind(w) \in Numbers
      BY <1>2, <2>1 DEF ReadableEdge, Has
    <3>2. w[2] \in Int
      BY <3>1 DEF IsElement, Atom, Kind, Numbers, Compound, Null
    <3>3. number(w) \in Int
      BY <3>2 DEF number
    <3>4. L = {number(w)}
      BY <2>1 DEF L
    <3> HIDE DEF w
    <3> QED
      BY <3>3, <3>4
  <2>2. CASE ~Has(v, "latency_ns", Numbers)
    BY <2>2 DEF L
  <2> QED
    BY <2>1, <2>2
<1>7. IsEdge(e)
  BY <1>3, <1>4, <1>5, <1>6 DEF IsEdge
<1> QED
  BY <1>7 DEF e

PortableLink(e) == \A l \in e.link : Rounded(l) = l /\ l \div 6 \in Int64

LEMMA EdgeTrip ==
  ASSUME NEW v, NEW e, EdgeImage(v, e), IsEdge(e), PortableLink(e)
  PROVE  ReadError(v, {"source", "target"}) = "none" /\ edge_from_json(v) = e
<1>1. /\ Kind(v) = "Object" /\ EdgeFields \subseteq DOMAIN v[2]
      /\ DOMAIN v[2] \subseteq EdgeFields \cup {"latency_ns"}
      /\ v[2].source = Hex(e.source) /\ v[2].target = Hex(e.target)
      /\ v[2].type = Text(e.type) /\ v[2].direction = Text(e.direction)
      /\ "latency_ns" \in DOMAIN v[2] <=> e.link # {}
  BY DEF EdgeImage
<1>2. ReadError(v, {"source", "target"}) = "none"
  <2>1. HasId(v, "source") /\ HasId(v, "target")
    BY <1>1 DEF HasId, Has, Hex, Kind, EdgeFields
  <2>2. "properties" \notin DOMAIN v[2]
    BY <1>1 DEF EdgeFields
  <2>3. Properties(v) = << >>
    BY <2>2 DEF Properties, Has
  <2> QED
    BY <2>1, <2>3 DEF ReadError
<1>3. v[2].source[2][2] = e.source /\ v[2].target[2][2] = e.target
  BY <1>1 DEF Hex
<1>4. edge_type_from_string(v) = e.type
  <2>1. Has(v, "type", {"String"}) /\ v[2].type[2][1] = "ascii" /\ v[2].type[2][2] = e.type
    BY <1>1 DEF Has, Text, Kind, EdgeFields
  <2> QED
    BY <2>1 DEF edge_type_from_string, FromString, IsEdge
<1>5. edge_direction_from_string(v) = e.direction
  <2>1. /\ Has(v, "direction", {"String"}) /\ v[2].direction[2][1] = "ascii"
        /\ v[2].direction[2][2] = e.direction
    BY <1>1 DEF Has, Text, Kind, EdgeFields
  <2> QED
    BY <2>1 DEF edge_direction_from_string, FromString, IsEdge
<1> DEFINE L == IF Has(v, "latency_ns", Numbers) THEN {number(v[2].latency_ns)} ELSE {}
<1>6. L = e.link
  <2>1. CASE e.link = {}
    BY <1>1, <2>1 DEF Has
  <2>2. CASE e.link # {}
    <3>1. PICK l \in e.link : l \in Int /\ e.link = {l}
      BY <2>2 DEF IsEdge
    <3>2. v[2].latency_ns = Scalar(<<"Double", l>>) /\ Rounded(l) = l /\ l \div 6 \in Int64
      BY <3>1 DEF EdgeImage, PortableLink
    <3>3. v[2].latency_ns \in Numbers \X Int /\ number(v[2].latency_ns) = l
      BY <3>1, <3>2, ScalarDouble
    <3>4. Has(v, "latency_ns", Numbers)
      BY <1>1, <2>2, <3>3 DEF Has, Kind
    <3> QED
      BY <3>1, <3>3, <3>4
  <2> QED
    BY <2>1, <2>2
<1>7. edge_from_json(v) = [source |-> e.source, target |-> e.target, type |-> e.type,
                           direction |-> e.direction, link |-> e.link]
  <2> HIDE DEF L
  <2> QED
    BY <1>3, <1>4, <1>5, <1>6 DEF edge_from_json, L
<1> QED
  BY <1>2, <1>7 DEF IsEdge

-----------------------------------------------------------------------------
(* The document an export is parsed to.                                    *)

NodeAt(s, i) == s.nodes[InOrder(DOMAIN s.nodes)[i]]

DocImage(d, s, o) ==
  /\ Has(d, "format", {"String"}) /\ d[2].format = Text("topology_fabric_snapshot")
  /\ Has(d, "nodes", {"Array"}) /\ Has(d, "edges", {"Array"})
  /\ Has(d, "generation", Numbers) /\ d[2].generation = Scalar(<<"Uint", s.generation>>)
  /\ Vector(NodeArray(d)) /\ Len(NodeArray(d)) = Cardinality(DOMAIN s.nodes)
  /\ \A i \in 1..Len(NodeArray(d)) :
       NodeImage(NodeArray(d)[i], InOrder(DOMAIN s.nodes)[i], NodeAt(s, i))
  /\ Vector(EdgeArray(d)) /\ Len(EdgeArray(d)) = Len(s.edges)
  /\ \A i \in 1..Len(EdgeArray(d)) : EdgeImage(EdgeArray(d)[i], s.edges[o[i]])

LEMMA InsideArray ==
  ASSUME NEW a
  PROVE  ReparsedArray(<<"Array", a>>) = <<"Array", [i \in DOMAIN a |-> ReparsedNode(a[i])]>>
  BY DEF ReparsedArray, Inside, Kind, Compound

LEMMA Exported ==
  ASSUME NEW s, IsSnapshot(s), NEW text \in snapshot_to_json(s)
  PROVE  \E o \in EdgeOrders(s.edges) : DocImage(Reparsed(text), s, o)
<1> DEFINE ids == InOrder(DOMAIN s.nodes)
           m == Cardinality(DOMAIN s.nodes)
           k == Len(s.edges)
           d == Reparsed(text)
<1>1. /\ m \in Nat /\ k \in Nat /\ DOMAIN s.edges = 1..k /\ Cardinality(DOMAIN s.edges) = k
      /\ s.generation \in Nat
  <2>1. Vector(s.edges) /\ IsFiniteSet(DOMAIN s.nodes) /\ s.generation \in Nat
    BY DEF IsSnapshot
  <2>2. k \in Nat /\ DOMAIN s.edges = 1..k
    BY <2>1 DEF Vector
  <2> HIDE DEF k
  <2>3. Cardinality(1..k) = k
    BY <2>2, FS_Interval
  <2> QED
    BY <2>1, <2>2, <2>3, FS_CardinalityType DEF k
<1>2. DOMAIN ids = 1..m
  BY DEF InOrder
<1> HIDE DEF ids, m, k, d
<1>3. PICK o \in EdgeOrders(s.edges) :
        text = Object([format     |-> Text("topology_fabric_snapshot"),
                       generation |-> <<"Uint", s.generation>>,
                       synthetic  |-> <<"Bool", s.synthetic>>,
                       nodes |-> <<"Array", [i \in DOMAIN ids |-> node_to_json(ids[i], s.nodes[ids[i]])]>>,
                       edges |-> <<"Array", [i \in DOMAIN o |-> edge_to_json(s.edges[o[i]])]>>])
  BY DEF snapshot_to_json, ids
<1>4. DOMAIN o = 1..k
  BY <1>1 DEF EdgeOrders, SetToSeqs
<1> DEFINE V == [i \in 1..m |-> node_to_json(ids[i], s.nodes[ids[i]])]
           W == [i \in 1..k |-> edge_to_json(s.edges[o[i]])]
<1>5. /\ Kind(text) = "Object" /\ DOMAIN text[2] = {"format", "generation", "synthetic", "nodes", "edges"}
      /\ text[2].format = Text("topology_fabric_snapshot")
      /\ text[2].generation = <<"Uint", s.generation>>
      /\ text[2].nodes = <<"Array", V>> /\ text[2].edges = <<"Array", W>>
  BY <1>2, <1>3, <1>4 DEF Kind, Object
<1>6. /\ DOMAIN V = 1..m /\ \A i \in 1..m : V[i] = node_to_json(ids[i], s.nodes[ids[i]])
      /\ DOMAIN W = 1..k /\ \A i \in 1..k : W[i] = edge_to_json(s.edges[o[i]])
  OBVIOUS
<1> HIDE DEF V, W
<1>7. d = <<"Object", [key \in DOMAIN text[2] |-> ReparsedArray(text[2][key])]>>
  BY <1>5 DEF Reparsed, Inside, Compound, d
<1>8. /\ Kind(d) = "Object" /\ DOMAIN d[2] = {"format", "generation", "synthetic", "nodes", "edges"}
      /\ d[2].format = ReparsedArray(text[2].format)
      /\ d[2].generation = ReparsedArray(text[2].generation)
      /\ d[2].nodes = ReparsedArray(text[2].nodes)
      /\ d[2].edges = ReparsedArray(text[2].edges)
  BY <1>5, <1>7 DEF Kind
<1>9. d[2].format = Text("topology_fabric_snapshot")
  BY <1>5, <1>8 DEF ReparsedArray, Inside, Compound, Text, Kind, Scalar
<1>10. d[2].generation = Scalar(<<"Uint", s.generation>>)
  BY <1>5, <1>8 DEF ReparsedArray, Inside, Compound, Kind
<1>11. d[2].nodes = <<"Array", [i \in 1..m |-> ReparsedNode(V[i])]>>
  BY <1>5, <1>6, <1>8, InsideArray
<1>12. d[2].edges = <<"Array", [i \in 1..k |-> ReparsedNode(W[i])]>>
  BY <1>5, <1>6, <1>8, InsideArray
<1>13. Kind(d[2].generation) \in Numbers
  <2>1. Atom(<<"Uint", s.generation>>) /\ Kind(<<"Uint", s.generation>>) \in Numbers
    BY <1>1 DEF Atom, Kind, Numbers
  <2> QED
    BY <1>10, <2>1, ScalarAtom
<1>14. /\ Has(d, "format", {"String"}) /\ Has(d, "nodes", {"Array"}) /\ Has(d, "edges", {"Array"})
       /\ Has(d, "generation", Numbers)
  BY <1>8, <1>9, <1>11, <1>12, <1>13 DEF Has, Kind, Text
<1> DEFINE A == NodeArray(d)
           B == EdgeArray(d)
<1>15. A = [i \in 1..m |-> ReparsedNode(V[i])] /\ B = [i \in 1..k |-> ReparsedNode(W[i])]
  BY <1>11, <1>12 DEF NodeArray, EdgeArray
<1>16. /\ \A i \in 1..m : A[i] = ReparsedNode(node_to_json(ids[i], s.nodes[ids[i]]))
       /\ \A i \in 1..k : B[i] = ReparsedNode(edge_to_json(s.edges[o[i]]))
       /\ A = [i \in 1..m |-> A[i]] /\ B = [i \in 1..k |-> B[i]]
  <2> HIDE DEF A, B
  <2> QED
    BY <1>6, <1>15
<1> HIDE DEF A, B
<1>17. Vector(A) /\ Len(A) = m /\ Vector(B) /\ Len(B) = k
  BY <1>1, <1>16, ListOf
<1>18. \A i \in 1..Len(A) : NodeImage(A[i], ids[i], NodeAt(s, i))
  BY <1>16, <1>17, NodeWritten DEF NodeAt, ids
<1>19. \A i \in 1..Len(B) : EdgeImage(B[i], s.edges[o[i]])
  BY <1>16, <1>17, EdgeWritten
<1>20. DocImage(d, s, o)
  BY <1>9, <1>10, <1>14, <1>17, <1>18, <1>19 DEF DocImage, A, B, ids, m, k
<1> QED
  BY <1>20 DEF d

-----------------------------------------------------------------------------
(* The same graph with its edges in another order.                         *)

Reordered(g, h, k, o) ==
  /\ k \in Nat /\ DOMAIN g.edges = 1..k /\ DOMAIN h.edges = 1..k
  /\ o \in [1..k -> 1..k]
  /\ \A i, j \in 1..k : o[i] = o[j] => i = j
  /\ \A j \in 1..k : \E i \in 1..k : o[i] = j
  /\ \A i \in 1..k : h.edges[i] = g.edges[o[i]]
  /\ DOMAIN h.nodes = DOMAIN g.nodes
  /\ \A n \in DOMAIN g.nodes :
       /\ h.nodes[n].key = g.nodes[n].key /\ h.nodes[n].caps = g.nodes[n].caps
       /\ h.nodes[n].numa = g.nodes[n].numa /\ h.nodes[n].provider = g.nodes[n].provider

LEMMA ReorderedFacts ==
  ASSUME NEW g, NEW h, NEW k, NEW o, Reordered(g, h, k, o)
  PROVE  /\ k \in Nat /\ IsFiniteSet(1..k)
         /\ Positions(g.edges) = 1..k /\ Positions(h.edges) = 1..k
<1>1. k \in Nat /\ DOMAIN g.edges = 1..k /\ DOMAIN h.edges = 1..k
  BY DEF Reordered
<1>2. (1..k) \cap Nat = 1..k
  BY ONLY <1>1
<1>3. IsFiniteSet(1..k)
  BY ONLY <1>1, FS_Interval
<1> QED
  BY ONLY <1>1, <1>2, <1>3 DEF Positions

LEMMA SameCount ==
  ASSUME NEW B, NEW A, IsFiniteSet(B), NEW f \in [B -> A],
         \A x, y \in B : f[x] = f[y] => x = y, \A a \in A : \E x \in B : f[x] = a
  PROVE  Cardinality(B) = Cardinality(A)
<1>1. f \in Bijection(B, A)
  BY DEF Bijection, Injection, Surjection, IsInjective
<1> QED
  BY <1>1, FS_Bijection DEF ExistsBijection

LEMMA ReorderedQuiet ==
  ASSUME NEW g, NEW h, NEW k, NEW o, Reordered(g, h, k, o), UniqueKeys(g)
  PROVE  /\ EdgeSet(h.edges) = EdgeSet(g.edges)
         /\ ~MaterialChange(g, h) /\ ~MaterialChange(h, g)
<1>a. k \in Nat /\ Positions(g.edges) = 1..k /\ Positions(h.edges) = 1..k
  BY ReorderedFacts
<1>1. /\ Positions(g.edges) = 1..k /\ Positions(h.edges) = 1..k
      /\ \A i \in 1..k : o[i] \in 1..k
      /\ \A j \in 1..k : \E i \in 1..k : o[i] = j
      /\ \A i \in 1..k : h.edges[i] = g.edges[o[i]]
  BY <1>a DEF Reordered
<1>4. \A i, j \in 1..k : EdgeKey(g.edges[i]) = EdgeKey(g.edges[j]) => i = j
  <2> SUFFICES ASSUME NEW i \in 1..k, NEW j \in 1..k, EdgeKey(g.edges[i]) = EdgeKey(g.edges[j]), i # j
               PROVE  FALSE
    OBVIOUS
  <2>1. i \in Nat /\ j \in Nat /\ (i < j \/ j < i)
    BY <1>a
  <2> QED
    BY <1>a, <2>1 DEF UniqueKeys, IsFirst
<1> DEFINE I == 1..k
<1>b. /\ Positions(g.edges) = I /\ Positions(h.edges) = I
      /\ \A i \in I : o[i] \in I
      /\ \A j \in I : \E i \in I : o[i] = j
      /\ \A i \in I : h.edges[i] = g.edges[o[i]]
  BY <1>1
<1>c. \A i, j \in I : EdgeKey(g.edges[i]) = EdgeKey(g.edges[j]) => i = j
  BY <1>4
<1> HIDE DEF I
<1>2. EdgeSet(h.edges) = EdgeSet(g.edges)
  BY ONLY <1>b DEF EdgeSet
<1>3. EdgeKeys(h.edges) = EdgeKeys(g.edges)
  BY ONLY <1>b DEF EdgeKeys
<1>5. \A i, j \in I : EdgeKey(g.edges[i]) = EdgeKey(h.edges[j]) => g.edges[i].link = h.edges[j].link
  BY ONLY <1>b, <1>c
<1>6. EdgePropertyChanged(g, h) = {} /\ EdgePropertyChanged(h, g) = {}
  BY ONLY <1>b, <1>5 DEF EdgePropertyChanged
<1>7. EdgeAdded(g, h) = {} /\ EdgeRemoved(g, h) = {} /\ EdgeAdded(h, g) = {} /\ EdgeRemoved(h, g) = {}
  BY <1>3 DEF EdgeAdded, EdgeRemoved
<1>8. /\ NodeAdded(g, h) = {} /\ NodeRemoved(g, h) = {} /\ NodeAdded(h, g) = {} /\ NodeRemoved(h, g) = {}
  BY DEF NodeAdded, NodeRemoved, Reordered
<1>9. /\ CapabilityChanged(g, h) = {} /\ CapabilityChanged(h, g) = {}
      /\ LocalityChanged(g, h) = {} /\ LocalityChanged(h, g) = {}
      /\ ProviderChanged(g, h) = {} /\ ProviderChanged(h, g) = {}
  BY DEF CapabilityChanged, LocalityChanged, ProviderChanged, CommonNodes, Reordered
<1> QED
  BY <1>2, <1>6, <1>7, <1>8, <1>9 DEF MaterialChange

LEMMA ReorderedErrors ==
  ASSUME NEW g, NEW h, NEW k, NEW o, Reordered(g, h, k, o)
  PROVE  ErrorCount(h) = ErrorCount(g)
<1>2. k \in Nat /\ Positions(g.edges) = 1..k /\ Positions(h.edges) = 1..k /\ IsFiniteSet(1..k)
  BY ReorderedFacts
<1>1. /\ Positions(g.edges) = 1..k /\ Positions(h.edges) = 1..k
      /\ o \in [1..k -> 1..k]
      /\ \A i, j \in 1..k : o[i] = o[j] => i = j
      /\ \A j \in 1..k : \E i \in 1..k : o[i] = j
      /\ \A i \in 1..k : h.edges[i] = g.edges[o[i]]
      /\ DOMAIN h.nodes = DOMAIN g.nodes
      /\ \A n \in DOMAIN g.nodes : h.nodes[n].key = g.nodes[n].key
  BY <1>2 DEF Reordered
<1>3. \A i \in 1..k : i \in ContainsEdges(h.edges) <=> o[i] \in ContainsEdges(g.edges)
  BY <1>1 DEF ContainsEdges
<1>4. ContainsEdges(h.edges) \subseteq 1..k /\ ContainsEdges(g.edges) \subseteq 1..k
  BY <1>1 DEF ContainsEdges
<1>5. Cardinality(SelfContained(h.edges)) = Cardinality(SelfContained(g.edges))
  <2> DEFINE B == SelfContained(h.edges)
             A == SelfContained(g.edges)
             f == [i \in B |-> o[i]]
  <2>1. B \in SUBSET (1..k) /\ A \in SUBSET (1..k)
    BY <1>4 DEF SelfContained
  <2>2. \A i \in 1..k : i \in B <=> o[i] \in A
    BY <1>1, <1>3 DEF SelfContained
  <2> HIDE DEF A, B
  <2>3. f \in [B -> A] /\ IsFiniteSet(B)
    BY <1>2, <2>1, <2>2, FS_Subset
  <2>4. \A x, y \in B : f[x] = f[y] => x = y
    BY <1>1, <2>1
  <2>5. \A a \in A : \E x \in B : f[x] = a
    BY <1>1, <2>1, <2>2
  <2> HIDE DEF f
  <2> QED
    BY <2>3, <2>4, <2>5, SameCount DEF A, B
<1>6. Cardinality(DanglingEnds(h)) = Cardinality(DanglingEnds(g))
  <2> DEFINE B == DanglingEnds(h)
             A == DanglingEnds(g)
             P == (1..k) \X {"source", "target"}
             f == [x \in B |-> <<o[x[1]], x[2]>>]
  <2>1. B \in SUBSET P /\ A \in SUBSET P
    BY <1>1 DEF DanglingEnds
  <2>2. \A i \in 1..k, e \in {"source", "target"} : <<i, e>> \in B <=> <<o[i], e>> \in A
    BY <1>1 DEF DanglingEnds
  <2>3. IsFiniteSet(P)
    <3>1. IsFiniteSet({"source", "target"})
      <4>1. IsFiniteSet({"source"}) /\ {"source", "target"} = {"source"} \cup {"target"}
        BY FS_Singleton
      <4> QED
        BY <4>1, FS_AddElement
    <3> QED
      BY <1>2, <3>1, FS_Product
  <2> HIDE DEF A, B
  <2>4. f \in [B -> A] /\ IsFiniteSet(B)
    <3>1. \A x \in B : <<o[x[1]], x[2]>> \in A
      <4> SUFFICES ASSUME NEW x \in B PROVE <<o[x[1]], x[2]>> \in A
        OBVIOUS
      <4>1. x \in P
        BY <2>1
      <4>2. x[1] \in 1..k /\ x[2] \in {"source", "target"} /\ x = <<x[1], x[2]>>
        BY <4>1
      <4> QED
        BY <2>2, <4>2
    <3> HIDE DEF P
    <3>2. IsFiniteSet(B)
      BY <2>1, <2>3, FS_Subset
    <3> QED
      BY <3>1, <3>2
  <2>5. \A x, y \in B : f[x] = f[y] => x = y
    <3> SUFFICES ASSUME NEW x \in B, NEW y \in B, f[x] = f[y] PROVE x = y
      OBVIOUS
    <3>1. x \in P /\ y \in P
      BY <2>1
    <3>2. x = <<x[1], x[2]>> /\ y = <<y[1], y[2]>> /\ x[1] \in 1..k /\ y[1] \in 1..k
      BY <3>1
    <3>3. o[x[1]] = o[y[1]] /\ x[2] = y[2]
      OBVIOUS
    <3>4. x[1] = y[1]
      BY <1>1, <3>2, <3>3
    <3> QED
      BY <3>2, <3>3, <3>4
  <2>6. \A a \in A : \E x \in B : f[x] = a
    <3> SUFFICES ASSUME NEW a \in A PROVE \E x \in B : f[x] = a
      OBVIOUS
    <3>1. a \in P
      BY <2>1
    <3>2. a = <<a[1], a[2]>> /\ a[1] \in 1..k /\ a[2] \in {"source", "target"}
      BY <3>1
    <3>3. PICK i \in 1..k : o[i] = a[1]
      BY <1>1, <3>2
    <3>4. <<i, a[2]>> \in B
      BY <2>2, <3>2, <3>3
    <3>5. f[<<i, a[2]>>] = <<o[i], a[2]>>
      BY <3>4
    <3> QED
      BY <3>2, <3>3, <3>4, <3>5
  <2> HIDE DEF f
  <2> QED
    BY <2>4, <2>5, <2>6, SameCount DEF A, B
<1>7. DuplicateIdentities(h) = DuplicateIdentities(g)
  <2> DEFINE keyed(x) == {n \in DOMAIN x.nodes : x.nodes[n].key # 0}
             keys(x) == {x.nodes[n].key : n \in keyed(x)}
  <2>1. keyed(h) = keyed(g) /\ \A n \in keyed(g) : h.nodes[n].key = g.nodes[n].key
    BY <1>1
  <2> HIDE DEF keyed
  <2>2. keys(h) = keys(g)
    BY <2>1
  <2> QED
    BY <2>1, <2>2 DEF DuplicateIdentities, keyed
<1>8. HasCycle(h.edges) <=> HasCycle(g.edges)
  <2> DEFINE ends(x) == UNION {{x.edges[i].source, x.edges[i].target} : i \in ContainsEdges(x.edges)}
  <2>1. ends(h) = ends(g)
    <3>1. ASSUME NEW x \in ends(h) PROVE x \in ends(g)
      <4>1. PICK i \in ContainsEdges(h.edges) : x = h.edges[i].source \/ x = h.edges[i].target
        BY <3>1
      <4>2. o[i] \in ContainsEdges(g.edges) /\ h.edges[i] = g.edges[o[i]]
        BY <1>1, <1>3, <1>4
      <4> QED
        BY <4>1, <4>2
    <3>2. ASSUME NEW x \in ends(g) PROVE x \in ends(h)
      <4>1. PICK j \in ContainsEdges(g.edges) : x = g.edges[j].source \/ x = g.edges[j].target
        BY <3>2
      <4>2. PICK i \in 1..k : o[i] = j
        BY <1>1, <1>4
      <4>3. i \in ContainsEdges(h.edges) /\ h.edges[i] = g.edges[j]
        BY <1>1, <1>3, <4>2
      <4> QED
        BY <4>1, <4>3
    <3> QED
      BY <3>1, <3>2
  <2>2. ASSUME NEW S PROVE Rootless(h.edges, S) <=> Rootless(g.edges, S)
    <3>1. ASSUME NEW x, NEW i \in ContainsEdges(h.edges), h.edges[i].target = x, h.edges[i].source \in S
          PROVE  \E j \in ContainsEdges(g.edges) : g.edges[j].target = x /\ g.edges[j].source \in S
      BY <1>1, <1>3, <1>4, <3>1
    <3>2. ASSUME NEW x, NEW j \in ContainsEdges(g.edges), g.edges[j].target = x, g.edges[j].source \in S
          PROVE  \E i \in ContainsEdges(h.edges) : h.edges[i].target = x /\ h.edges[i].source \in S
      <4>1. PICK i \in 1..k : o[i] = j
        BY <1>1, <1>4
      <4> QED
        BY <1>1, <1>3, <3>2, <4>1
    <3> QED
      BY <3>1, <3>2 DEF Rootless
  <2> QED
    BY <2>1, <2>2 DEF HasCycle
<1> QED
  BY <1>5, <1>6, <1>7, <1>8 DEF ErrorCount

-----------------------------------------------------------------------------
(* The document as a whole.                                                *)

Carried(s) ==
  /\ s.generation <= MaxInt64
  /\ \A n \in DOMAIN s.nodes : s.nodes[n].caps <= MaxInt64
  /\ \A i \in DOMAIN s.edges : PortableLink(s.edges[i])

LEMMA ImageNode ==
  ASSUME NEW d, NEW s, NEW o, DocImage(d, s, o), IsSnapshot(s), NEW i \in 1..Len(NodeArray(d)),
         NEW id, id = InOrder(DOMAIN s.nodes)[i]
  PROVE  /\ id \in DOMAIN s.nodes /\ id \in Nat /\ IsNode(s.nodes[id])
         /\ NodeImage(NodeArray(d)[i], id, s.nodes[id])
<1>1. DOMAIN s.nodes \subseteq Nat /\ IsFiniteSet(DOMAIN s.nodes)
  BY DEF IsSnapshot
<1>2. i \in 1..Cardinality(DOMAIN s.nodes)
  BY DEF DocImage
<1>3. InOrder(DOMAIN s.nodes) \in [1..Cardinality(DOMAIN s.nodes) -> DOMAIN s.nodes]
  BY <1>1, InOrderLists
<1>4. id \in DOMAIN s.nodes
  BY <1>2, <1>3
<1>5. NodeImage(NodeArray(d)[i], id, s.nodes[id])
  BY DEF DocImage, NodeAt
<1> QED
  BY <1>1, <1>4, <1>5 DEF IsSnapshot

LEMMA CarriedNode ==
  ASSUME NEW d, NEW s, NEW o, DocImage(d, s, o), IsSnapshot(s), Carried(s),
         NEW i \in 1..Len(NodeArray(d)), NEW id, id = InOrder(DOMAIN s.nodes)[i]
  PROVE  /\ id \in DOMAIN s.nodes
         /\ ReadError(NodeArray(d)[i], {"id"}) = "none"
         /\ Id(NodeArray(d)[i]) = id
         /\ SameNode(node_from_json(NodeArray(d)[i]), s.nodes[id])
<1>1. /\ id \in DOMAIN s.nodes /\ IsNode(s.nodes[id])
      /\ NodeImage(NodeArray(d)[i], id, s.nodes[id])
  BY ImageNode
<1>2. s.nodes[id].caps <= MaxInt64
  BY <1>1 DEF Carried
<1> QED
  BY <1>1, <1>2, NodeTrip

LEMMA OrderFacts ==
  ASSUME NEW s, IsSnapshot(s), NEW o \in EdgeOrders(s.edges), NEW k, k = Len(s.edges)
  PROVE  /\ k \in Nat /\ DOMAIN s.edges = 1..k /\ o \in [1..k -> 1..k]
         /\ \A i, j \in 1..k : o[i] = o[j] => i = j
         /\ \A j \in 1..k : \E i \in 1..k : o[i] = j
<1>1. k \in Nat /\ DOMAIN s.edges = 1..k
  BY DEF IsSnapshot, Vector
<1>2. IsFiniteSet(1..k) /\ Cardinality(1..k) = k
  BY <1>1, FS_Interval
<1>3. o \in SetToSeqs(1..k)
  BY <1>1 DEF EdgeOrders
<1>4. /\ o \in Seq(1..k) /\ Len(o) = k
      /\ \A i, j \in 1..Len(o) : o[i] = o[j] => i = j
      /\ \A n \in 1..k : \E i \in 1..Len(o) : o[i] = n
  BY <1>2, <1>3, SeqsHoldAll
<1>5. o \in [1..k -> 1..k]
  <2>1. o \in [1..Cardinality(1..k) -> 1..k]
    BY <1>3 DEF SetToSeqs
  <2> QED
    BY <1>2, <2>1
<1> QED
  BY <1>1, <1>4, <1>5

LEMMA ImageEdge ==
  ASSUME NEW d, NEW s, NEW o \in EdgeOrders(s.edges), DocImage(d, s, o), IsSnapshot(s),
         NEW i \in 1..Len(EdgeArray(d))
  PROVE  /\ o[i] \in DOMAIN s.edges /\ IsEdge(s.edges[o[i]])
         /\ EdgeImage(EdgeArray(d)[i], s.edges[o[i]])
<1>1. i \in 1..Len(s.edges) /\ EdgeImage(EdgeArray(d)[i], s.edges[o[i]])
  BY DEF DocImage
<1>2. o[i] \in DOMAIN s.edges
  BY <1>1, OrderFacts
<1> QED
  BY <1>1, <1>2 DEF IsSnapshot

LEMMA CarriedEdge ==
  ASSUME NEW d, NEW s, NEW o \in EdgeOrders(s.edges), DocImage(d, s, o), IsSnapshot(s), Carried(s),
         NEW i \in 1..Len(EdgeArray(d))
  PROVE  /\ ReadError(EdgeArray(d)[i], {"source", "target"}) = "none"
         /\ edge_from_json(EdgeArray(d)[i]) = s.edges[o[i]]
<1>1. /\ o[i] \in DOMAIN s.edges /\ IsEdge(s.edges[o[i]])
      /\ EdgeImage(EdgeArray(d)[i], s.edges[o[i]])
  BY ImageEdge
<1>2. PortableLink(s.edges[o[i]])
  BY <1>1 DEF Carried
<1> QED
  BY <1>1, <1>2, EdgeTrip

\* What reading a document needs of it.
ReadableDoc(d) ==
  /\ Has(d, "nodes", {"Array"}) => \A i \in DOMAIN NodeArray(d) : ReadableNode(NodeArray(d)[i])
  /\ Has(d, "edges", {"Array"}) => \A i \in DOMAIN EdgeArray(d) : ReadableEdge(EdgeArray(d)[i])
  /\ Has(d, "generation", Numbers) => IsElement(d[2].generation)

LEMMA FileReadable ==
  ASSUME NEW d, IsDocument(d)
  PROVE  ReadableDoc(d)
<1>1. Kind(d) = "Object" => \A k \in DOMAIN d[2] : IsArray(d[2][k])
  BY DEF IsDocument, Composed, Compound
<1>2. \A a : IsArray(a) /\ Kind(a) = "Array" => \A i \in DOMAIN a[2] : IsEntry(a[2][i])
  BY DEF IsArray, Composed, Compound
<1>3. \A a : IsArray(a) => IsElement(a)
  BY DEF IsArray, Composed, IsElement
<1>4. Has(d, "nodes", {"Array"}) => \A i \in DOMAIN NodeArray(d) : IsEntry(NodeArray(d)[i])
  BY <1>1, <1>2 DEF Has, NodeArray
<1>5. Has(d, "edges", {"Array"}) => \A i \in DOMAIN EdgeArray(d) : IsEntry(EdgeArray(d)[i])
  BY <1>1, <1>2 DEF Has, EdgeArray
<1>6. Has(d, "generation", Numbers) => IsElement(d[2].generation)
  BY <1>1, <1>3 DEF Has
<1>7. \A e : IsEntry(e) => ReadableNode(e) /\ ReadableEdge(e)
  BY EntryReadable, EntryReadableEdge
<1> QED
  BY <1>4, <1>5, <1>6, <1>7 DEF ReadableDoc

LEMMA ExportReadable ==
  ASSUME NEW d, NEW s, NEW o \in EdgeOrders(s.edges), DocImage(d, s, o), IsSnapshot(s)
  PROVE  ReadableDoc(d)
<1>1. DOMAIN NodeArray(d) = 1..Len(NodeArray(d)) /\ DOMAIN EdgeArray(d) = 1..Len(EdgeArray(d))
  BY DEF DocImage, Vector
<1>2. ASSUME NEW i \in 1..Len(NodeArray(d)) PROVE ReadableNode(NodeArray(d)[i])
  <2> DEFINE id == InOrder(DOMAIN s.nodes)[i]
  <2>1. id \in Nat /\ IsNode(s.nodes[id]) /\ NodeImage(NodeArray(d)[i], id, s.nodes[id])
    BY ImageNode
  <2> HIDE DEF id
  <2> QED
    BY <2>1, ImageReadable
<1>3. ASSUME NEW i \in 1..Len(EdgeArray(d)) PROVE ReadableEdge(EdgeArray(d)[i])
  <2>1. IsEdge(s.edges[o[i]]) /\ EdgeImage(EdgeArray(d)[i], s.edges[o[i]])
    BY ImageEdge
  <2> QED
    BY <2>1, ImageReadableEdge
<1>4. IsElement(d[2].generation)
  <2>1. Atom(<<"Uint", s.generation>>)
    BY DEF Atom, IsSnapshot
  <2> QED
    BY <2>1, ScalarAtom DEF DocImage, IsElement
<1> QED
  BY <1>1, <1>2, <1>3, <1>4 DEF ReadableDoc

\* m elements were read without an exception.
Sane(V, m, ids) == \A i \in 1..m : ReadError(V[i], ids) = "none"

Generation(d) ==
  IF Has(d, "generation", Numbers) THEN integer(d[2].generation) % (2 * MaxInt64 + 2) ELSE 0

LEMMA ImportTyped ==
  ASSUME NEW d, NEW s, NEW w, ReadableDoc(d), AllRead(d, s.nodes, s.edges, w),
         Has(d, "nodes", {"Array"}), Has(d, "edges", {"Array"}),
         Sane(NodeArray(d), Len(NodeArray(d)), {"id"}),
         Sane(EdgeArray(d), Len(EdgeArray(d)), {"source", "target"}),
         s.generation = Generation(d)
  PROVE  IsSnapshot(s)
<1> DEFINE V == NodeArray(d)
           W == EdgeArray(d)
           m == Len(V)
           k == Len(W)
           N == s.nodes
<1>1. /\ m \in Nat /\ DOMAIN V = 1..m /\ k \in Nat /\ DOMAIN W = 1..k
      /\ DOMAIN N = {Id(V[i]) : i \in 1..m} /\ IsFiniteSet(DOMAIN N)
      /\ \A i \in 1..m : (\A j \in 1..(i - 1) : Id(V[j]) # Id(V[i])) => N[Id(V[i])] = node_from_json(V[i])
      /\ s.edges = [i \in 1..k |-> edge_from_json(W[i])]
  BY DEF AllRead, Vector, NodesRead, EdgesRead
<1>2. \A i \in 1..m : IsNode(node_from_json(V[i])) /\ Id(V[i]) \in Nat
  <2>1. \A i \in 1..m : ReadableNode(V[i]) /\ ReadError(V[i], {"id"}) = "none"
    BY <1>1 DEF ReadableDoc, Sane
  <2> HIDE DEF V, m
  <2> QED
    BY <2>1, NodeRead
<1>3. \A i \in 1..k : IsEdge(edge_from_json(W[i]))
  <2>1. \A i \in 1..k : ReadableEdge(W[i]) /\ ReadError(W[i], {"source", "target"}) = "none"
    BY <1>1 DEF ReadableDoc, Sane
  <2> HIDE DEF W, k
  <2> QED
    BY <2>1, EdgeRead
<1> HIDE DEF V, W, m, k, N
<1>4. ASSUME NEW n \in DOMAIN N PROVE IsNode(N[n])
  <2> DEFINE I == {i \in 1..m : Id(V[i]) = n}
  <2>1. I \subseteq Nat /\ I # {}
    BY <1>1
  <2>2. PICK i \in I : \A j \in I : i <= j
    <3> HIDE DEF I
    <3> QED
      BY <2>1, LeastExists
  <2>3. i \in 1..m /\ Id(V[i]) = n
    BY <2>2
  <2>4. \A j \in 1..(i - 1) : Id(V[j]) # Id(V[i])
    <3> SUFFICES ASSUME NEW j \in 1..(i - 1), Id(V[j]) = Id(V[i]) PROVE FALSE
      OBVIOUS
    <3>1. j \in 1..m /\ j < i
      BY <1>1, <2>3
    <3> QED
      BY <1>1, <2>2, <2>3, <3>1
  <2> QED
    BY <1>1, <1>2, <2>3, <2>4
<1>5. DOMAIN N \subseteq Nat
  BY <1>1, <1>2
<1>6. Vector(s.edges) /\ \A i \in DOMAIN s.edges : IsEdge(s.edges[i])
  <2>1. s.edges = [i \in 1..k |-> s.edges[i]] /\ DOMAIN s.edges = 1..k
    BY <1>1
  <2>2. \A i \in 1..k : s.edges[i] = edge_from_json(W[i])
    BY <1>1
  <2> QED
    BY <1>1, <1>3, <2>1, <2>2, ListOf
<1>7. s.generation \in Nat
  <2>1. 2 * MaxInt64 + 2 \in Nat /\ 2 * MaxInt64 + 2 > 0
    BY WidthAssumption
  <2> DEFINE x == integer(d[2].generation)
  <2>2. Has(d, "generation", Numbers) => x \in Int
    BY IntegerType DEF ReadableDoc
  <2> DEFINE y == x % (2 * MaxInt64 + 2)
  <2>3. Has(d, "generation", Numbers) => y \in Nat
    BY <2>1, <2>2, ModType
  <2>4. s.generation = IF Has(d, "generation", Numbers) THEN y ELSE 0
    BY DEF Generation
  <2> HIDE DEF y
  <2> QED
    BY <2>3, <2>4
<1> QED
  BY <1>1, <1>4, <1>5, <1>6, <1>7 DEF IsSnapshot, N

-----------------------------------------------------------------------------
(* The fourth part of the inductive invariant: the document is readable and, *)
(* when it is an export, what the text makes of the snapshot; what was read  *)
(* raised no exception; and nothing rejects an export the text can carry.    *)

Good(r) == r.exported /\ ~r.oversized /\ WithinBounds(r.snap) /\ Portable(r.snap)

Source(r, d) ==
  /\ ReadableDoc(d)
  /\ r.exported => \E o \in EdgeOrders(r.snap.edges) : DocImage(d, r.snap, o)

AllSane(d) ==
  /\ Has(d, "nodes", {"Array"}) /\ Sane(NodeArray(d), Len(NodeArray(d)), {"id"})
  /\ Has(d, "edges", {"Array"}) /\ Sane(EdgeArray(d), Len(EdgeArray(d)), {"source", "target"})

TripInv ==
  /\ Given(request)
  /\ pc \in {"check", "nodes", "edges", "sort", "taken"} \/ Returned => Source(request, doc)
  /\ pc = "nodes" => Has(doc, "nodes", {"Array"}) /\ Sane(NodeArray(doc), at - 1, {"id"})
  /\ pc = "edges" => /\ Has(doc, "nodes", {"Array"})
                     /\ Sane(NodeArray(doc), Len(NodeArray(doc)), {"id"})
                     /\ Has(doc, "edges", {"Array"})
                     /\ Sane(EdgeArray(doc), at - 1, {"source", "target"})
  /\ pc \in {"sort", "taken"} \/ Returned => AllSane(doc)
  /\ pc = "taken" \/ Returned => snap.generation = Generation(doc)
  /\ pc = "done" /\ Good(request) => outcome = "returned"

LEMMA GoodCarried ==
  ASSUME NEW r, Good(r), Given(r)
  PROVE  r.exported /\ IsSnapshot(r.snap) /\ Carried(r.snap)
  BY DEF Good, Given, Portable, Carried, PortableLink

LEMMA GoodNode ==
  ASSUME NEW r, NEW d, Good(r), Given(r), Source(r, d), NEW i \in 1..Len(NodeArray(d))
  PROVE  i <= MaxNodes /\ ReadError(NodeArray(d)[i], {"id"}) = "none"
<1> DEFINE s == r.snap
           id == InOrder(DOMAIN s.nodes)[i]
<1>1. r.exported /\ IsSnapshot(s) /\ Carried(s)
  BY GoodCarried
<1>2. PICK o \in EdgeOrders(s.edges) : DocImage(d, s, o)
  BY <1>1 DEF Source
<1>3. ReadError(NodeArray(d)[i], {"id"}) = "none"
  <2>1. id = InOrder(DOMAIN s.nodes)[i]
    OBVIOUS
  <2> HIDE DEF id, s
  <2> QED
    BY <1>1, <1>2, <2>1, CarriedNode
<1>4. Len(NodeArray(d)) <= MaxNodes /\ Len(NodeArray(d)) \in Nat
  BY <1>2 DEF DocImage, Vector, Good, WithinBounds
<1> QED
  BY <1>3, <1>4, BoundsAssumption

LEMMA GoodEdge ==
  ASSUME NEW r, NEW d, Good(r), Given(r), Source(r, d), NEW i \in 1..Len(EdgeArray(d))
  PROVE  i <= MaxEdges /\ ReadError(EdgeArray(d)[i], {"source", "target"}) = "none"
<1> DEFINE s == r.snap
<1>1. r.exported /\ IsSnapshot(s) /\ Carried(s)
  BY GoodCarried
<1>2. PICK o \in EdgeOrders(s.edges) : DocImage(d, s, o)
  BY <1>1 DEF Source
<1>3. ReadError(EdgeArray(d)[i], {"source", "target"}) = "none"
  <2> HIDE DEF s
  <2> QED
    BY <1>1, <1>2, CarriedEdge
<1>4. Len(EdgeArray(d)) <= MaxEdges /\ Len(EdgeArray(d)) \in Nat
  BY <1>2 DEF DocImage, Vector, Good, WithinBounds
<1> QED
  BY <1>3, <1>4, BoundsAssumption

LEMMA GoodDocument ==
  ASSUME NEW r, NEW d, Good(r), Given(r), Source(r, d)
  PROVE  /\ ~r.oversized
         /\ Has(d, "format", {"String"}) /\ d[2].format = Text("topology_fabric_snapshot")
         /\ Has(d, "nodes", {"Array"}) /\ Has(d, "edges", {"Array"})
<1>1. PICK o \in EdgeOrders(r.snap.edges) : DocImage(d, r.snap, o)
  BY GoodCarried DEF Source
<1> QED
  BY <1>1 DEF DocImage, Good

LEMMA SaneNext ==
  ASSUME NEW V, NEW m \in Nat, NEW ids, Sane(V, m, ids), ReadError(V[m + 1], ids) = "none"
  PROVE  Sane(V, m + 1, ids)
<1>1. ASSUME NEW i \in 1..(m + 1) PROVE i \in 1..m \/ i = m + 1
  OBVIOUS
<1> QED
  BY <1>1 DEF Sane

LEMMA TripInit == Init => TripInv
  BY RequestsAssumption DEF Init, TripInv, Returned

LEMMA RejectTrip ==
  ASSUME TripInv, NEW error, error # "returned", Reject(error), ~Good(request)
  PROVE  TripInv'
<1>1. request' = request /\ pc' = "done" /\ outcome' # "returned" /\ Given(request)
  BY DEF TripInv, Reject
<1>2. Given(request') /\ ~Good(request')
  BY <1>1
<1> QED
  BY <1>1, <1>2 DEF TripInv, Returned

LEMMA ParseTrip ==
  ASSUME TripInv, Parse
  PROVE  TripInv'
<1>1. PICK text \in IF request.exported THEN snapshot_to_json(request.snap) ELSE {request.doc} :
        IF request.exported /\ ~Parses(text) THEN Reject("MALFORMED_DATA")
        ELSE /\ doc' = IF request.exported THEN Reparsed(text) ELSE text
             /\ pc' = "check"
             /\ UNCHANGED <<request, reading, sort, snap, outcome, counters>>
  BY DEF Parse
<1>2. CASE request.exported /\ ~Parses(text)
  <2>1. ~Good(request)
    BY <1>1, <1>2 DEF Good, Portable
  <2> QED
    BY <1>1, <1>2, <2>1, RejectTrip
<1>3. CASE ~(request.exported /\ ~Parses(text))
  <2>1. /\ doc' = IF request.exported THEN Reparsed(text) ELSE text
        /\ pc' = "check" /\ request' = request
    BY <1>1, <1>3
  <2>2. Given(request)
    BY DEF TripInv
  <2>3. Source(request, doc')
    <3>1. CASE request.exported
      <4>1. IsSnapshot(request.snap) /\ text \in snapshot_to_json(request.snap) /\ doc' = Reparsed(text)
        BY <1>1, <2>1, <2>2, <3>1 DEF Given
      <4>2. PICK o \in EdgeOrders(request.snap.edges) : DocImage(Reparsed(text), request.snap, o)
        BY <4>1, Exported
      <4>3. ReadableDoc(Reparsed(text))
        BY <4>1, <4>2, ExportReadable
      <4> QED
        BY <4>1, <4>2, <4>3 DEF Source
    <3>2. CASE ~request.exported
      <4>1. doc' = request.doc /\ IsDocument(request.doc)
        BY <1>1, <2>1, <2>2, <3>2 DEF Given
      <4>2. ReadableDoc(doc')
        BY <4>1, FileReadable
      <4> QED
        BY <3>2, <4>2 DEF Source
    <3> QED
      BY <3>1, <3>2
  <2>4. Given(request') /\ Source(request', doc')
    BY <2>1, <2>2, <2>3
  <2> QED
    BY <2>1, <2>4 DEF TripInv, Returned
<1> QED
  BY <1>2, <1>3

LEMMA CheckTrip ==
  ASSUME ReadInv, TripInv, Check
  PROVE  TripInv'
<1>1. pc = "check" /\ Given(request) /\ Source(request, doc) /\ Unread
  BY DEF TripInv, ReadInv, Check
<1>2. CASE request.oversized
  <2>1. Reject("OVERSIZED") /\ ~Good(request)
    BY <1>2 DEF Check, Good
  <2> QED
    BY <2>1, RejectTrip
<1>3. CASE ~request.oversized /\ ~(/\ Has(doc, "format", {"String"})
                                   /\ doc[2].format = Text("topology_fabric_snapshot")
                                   /\ Has(doc, "nodes", {"Array"}))
  <2>1. Reject("MALFORMED_DATA")
    BY <1>3 DEF Check
  <2>2. ~Good(request)
    BY <1>1, <1>3, GoodDocument
  <2> QED
    BY <2>1, <2>2, RejectTrip
<1>4. CASE ~request.oversized /\ /\ Has(doc, "format", {"String"})
                                 /\ doc[2].format = Text("topology_fabric_snapshot")
                                 /\ Has(doc, "nodes", {"Array"})
  <2>1. /\ pc' = "nodes" /\ request' = request /\ doc' = doc /\ at' = at
    BY <1>4 DEF Check, reading
  <2>2. Sane(NodeArray(doc), at - 1, {"id"})
    BY <1>1 DEF Unread, Sane
  <2>3. /\ Given(request') /\ Source(request', doc') /\ Has(doc', "nodes", {"Array"})
        /\ Sane(NodeArray(doc'), at' - 1, {"id"})
    BY <1>1, <1>4, <2>1, <2>2
  <2> QED
    BY <2>1, <2>3 DEF TripInv, Returned
<1> QED
  BY <1>2, <1>3, <1>4

LEMMA ReadNodeTrip ==
  ASSUME ReadInv, TripInv, ReadNode
  PROVE  TripInv'
<1> DEFINE V == NodeArray(doc)
           error == IF at > MaxNodes THEN "OVERSIZED" ELSE ReadError(V[at], {"id"})
<1>1. /\ pc = "nodes" /\ at <= Len(V)
      /\ IF error # "none" THEN Reject(error)
         ELSE at' = at + 1 /\ UNCHANGED <<request, doc, pc>>
  BY DEF ReadNode, NodeValues, NodeArray
<1>2. /\ Given(request) /\ Source(request, doc) /\ Has(doc, "nodes", {"Array"})
      /\ Sane(V, at - 1, {"id"}) /\ at \in 1..(Len(V) + 1) /\ Len(V) \in Nat
  BY <1>1 DEF TripInv, ReadInv, Vector
<1>3. at \in 1..Len(V) /\ at - 1 \in Nat /\ (at - 1) + 1 = at /\ (at + 1) - 1 = at
  BY <1>1, <1>2
<1>4. CASE error # "none"
  <2>1. error # "returned"
    BY ReadErrors
  <2>2. ~Good(request)
    <3> SUFFICES ASSUME Good(request) PROVE FALSE
      OBVIOUS
    <3>1. at <= MaxNodes /\ ReadError(V[at], {"id"}) = "none"
      BY <1>2, <1>3, GoodNode
    <3> QED
      BY <1>3, <1>4, <3>1, BoundsAssumption
  <2> HIDE DEF error
  <2> QED
    BY <1>1, <1>4, <2>1, <2>2, RejectTrip
<1>5. CASE error = "none"
  <2>1. ReadError(V[at], {"id"}) = "none"
    BY <1>5
  <2>2. at' = at + 1 /\ request' = request /\ doc' = doc /\ pc' = "nodes"
    BY <1>1, <1>5
  <2> DEFINE m == at - 1
  <2>3. m \in Nat /\ m + 1 = at /\ Sane(V, m, {"id"}) /\ ReadError(V[m + 1], {"id"}) = "none"
    BY <1>2, <1>3, <2>1
  <2> HIDE DEF m, V, error
  <2>4. Sane(V, m + 1, {"id"})
    BY <2>3, SaneNext
  <2>5. /\ Given(request') /\ Source(request', doc') /\ Has(doc', "nodes", {"Array"})
        /\ Sane(NodeArray(doc'), at' - 1, {"id"})
    BY <1>2, <1>3, <2>2, <2>3, <2>4 DEF V
  <2> QED
    BY <2>2, <2>5 DEF TripInv, Returned
<1> QED
  BY <1>4, <1>5

LEMMA EndNodesTrip ==
  ASSUME ReadInv, TripInv, EndNodes
  PROVE  TripInv'
<1> DEFINE V == NodeArray(doc)
<1>1. /\ pc = "nodes" /\ at > Len(V)
      /\ IF Has(doc, "edges", {"Array"})
         THEN pc' = "edges" /\ at' = 1 /\ UNCHANGED <<request, doc>>
         ELSE Reject("MALFORMED_DATA")
  BY DEF EndNodes, NodeValues, NodeArray
<1>2. /\ Given(request) /\ Source(request, doc) /\ Has(doc, "nodes", {"Array"})
      /\ Sane(V, at - 1, {"id"}) /\ at \in 1..(Len(V) + 1) /\ Len(V) \in Nat
  BY <1>1 DEF TripInv, ReadInv, Vector
<1>3. CASE ~Has(doc, "edges", {"Array"})
  <2>1. ~Good(request)
    BY <1>2, <1>3, GoodDocument
  <2> QED
    BY <1>1, <1>3, <2>1, RejectTrip
<1>4. CASE Has(doc, "edges", {"Array"})
  <2>1. pc' = "edges" /\ at' = 1 /\ request' = request /\ doc' = doc
    BY <1>1, <1>4
  <2>2. at - 1 = Len(V)
    BY <1>1, <1>2
  <2>3. Sane(EdgeArray(doc), 0, {"source", "target"})
    BY DEF Sane
  <2>4. /\ Given(request') /\ Source(request', doc')
        /\ Has(doc', "nodes", {"Array"}) /\ Sane(NodeArray(doc'), Len(NodeArray(doc')), {"id"})
        /\ Has(doc', "edges", {"Array"}) /\ Sane(EdgeArray(doc'), at' - 1, {"source", "target"})
    BY <1>2, <1>4, <2>1, <2>2, <2>3
  <2> QED
    BY <2>1, <2>4 DEF TripInv, Returned
<1> QED
  BY <1>3, <1>4

LEMMA ReadEdgeTrip ==
  ASSUME ReadInv, TripInv, ReadEdge
  PROVE  TripInv'
<1> DEFINE W == EdgeArray(doc)
           ids == {"source", "target"}
           error == IF at > MaxEdges THEN "OVERSIZED" ELSE ReadError(W[at], ids)
<1>1. /\ pc = "edges" /\ at <= Len(W)
      /\ IF error # "none" THEN Reject(error)
         ELSE at' = at + 1 /\ UNCHANGED <<request, doc, pc>>
  BY DEF ReadEdge, EdgeValues, EdgeArray
<1>2. /\ Given(request) /\ Source(request, doc) /\ Has(doc, "nodes", {"Array"})
      /\ Sane(NodeArray(doc), Len(NodeArray(doc)), {"id"}) /\ Has(doc, "edges", {"Array"})
      /\ Sane(W, at - 1, ids) /\ at \in 1..(Len(W) + 1) /\ Len(W) \in Nat
  BY <1>1 DEF TripInv, ReadInv, Vector
<1>3. at \in 1..Len(W) /\ at - 1 \in Nat /\ (at - 1) + 1 = at /\ (at + 1) - 1 = at
  BY <1>1, <1>2
<1>4. CASE error # "none"
  <2>1. error # "returned"
    BY ReadErrors
  <2>2. ~Good(request)
    <3> SUFFICES ASSUME Good(request) PROVE FALSE
      OBVIOUS
    <3>1. at <= MaxEdges /\ ReadError(W[at], {"source", "target"}) = "none"
      BY <1>2, <1>3, GoodEdge
    <3> QED
      BY <1>3, <1>4, <3>1, BoundsAssumption
  <2> HIDE DEF error
  <2> QED
    BY <1>1, <1>4, <2>1, <2>2, RejectTrip
<1>5. CASE error = "none"
  <2>1. ReadError(W[at], ids) = "none"
    BY <1>5
  <2>2. at' = at + 1 /\ request' = request /\ doc' = doc /\ pc' = "edges"
    BY <1>1, <1>5
  <2> DEFINE m == at - 1
  <2>3. m \in Nat /\ m + 1 = at /\ Sane(W, m, ids) /\ ReadError(W[m + 1], ids) = "none"
    BY <1>2, <1>3, <2>1
  <2> HIDE DEF m, W, error, ids
  <2>4. Sane(W, m + 1, ids)
    BY <2>3, SaneNext
  <2>5. /\ Given(request') /\ Source(request', doc')
        /\ Has(doc', "nodes", {"Array"}) /\ Sane(NodeArray(doc'), Len(NodeArray(doc')), {"id"})
        /\ Has(doc', "edges", {"Array"}) /\ Sane(EdgeArray(doc'), at' - 1, {"source", "target"})
    BY <1>2, <1>3, <2>2, <2>3, <2>4 DEF W, ids
  <2> QED
    BY <2>2, <2>5 DEF TripInv, Returned
<1> QED
  BY <1>4, <1>5

LEMMA TakeTrip ==
  ASSUME ReadInv, TripInv, Take
  PROVE  TripInv'
<1> DEFINE W == EdgeArray(doc)
<1>1. /\ pc = "edges" /\ at > Len(W) /\ pc' = "sort" /\ request' = request /\ doc' = doc
  BY DEF Take, EdgeValues, EdgeArray
<1>2. /\ Given(request) /\ Source(request, doc) /\ Has(doc, "nodes", {"Array"})
      /\ Sane(NodeArray(doc), Len(NodeArray(doc)), {"id"}) /\ Has(doc, "edges", {"Array"})
      /\ Sane(W, at - 1, {"source", "target"}) /\ at \in 1..(Len(W) + 1) /\ Len(W) \in Nat
  BY <1>1 DEF TripInv, ReadInv, Vector
<1>3. at - 1 = Len(W)
  BY <1>1, <1>2
<1>4. AllSane(doc)
  BY <1>2, <1>3 DEF AllSane
<1>5. Given(request') /\ Source(request', doc') /\ AllSane(doc')
  BY <1>1, <1>2, <1>4
<1> QED
  BY <1>1, <1>5 DEF TripInv, Returned

LEMMA VisitTrip ==
  ASSUME TripInv, Visit
  PROVE  TripInv'
<1>1. pc = "sort" /\ pc' = "sort" /\ request' = request /\ doc' = doc
  BY DEF Visit
<1>2. Given(request) /\ Source(request, doc) /\ AllSane(doc)
  BY <1>1 DEF TripInv
<1>3. Given(request') /\ Source(request', doc') /\ AllSane(doc')
  BY <1>1, <1>2
<1> QED
  BY <1>1, <1>3 DEF TripInv, Returned

LEMMA FinishTrip ==
  ASSUME TripInv, Finish
  PROVE  TripInv'
<1>1. pc = "sort" /\ pc' = "taken" /\ request' = request /\ doc' = doc
  BY DEF Finish
<1>2. Given(request) /\ Source(request, doc) /\ AllSane(doc)
  BY <1>1 DEF TripInv
<1>3. Given(request') /\ Source(request', doc') /\ AllSane(doc')
  BY <1>1, <1>2
<1>4. snap'.generation = Generation(doc)
  BY DEF Finish, Generation
<1>5. snap'.generation = Generation(doc')
  BY <1>1, <1>4
<1> QED
  BY <1>1, <1>3, <1>5 DEF TripInv, Returned

LEMMA ReturnTrip ==
  ASSUME ReadInv, TripInv, Return
  PROVE  TripInv'
<1>1. /\ pc = "taken" /\ pc' = "done" /\ outcome' = "returned" /\ snap' = Rebuilt(snap)
      /\ request' = request /\ doc' = doc
  BY DEF Return
<1>2. /\ Given(request) /\ Source(request, doc) /\ AllSane(doc) /\ Snapshot(snap)
      /\ snap.generation = Generation(doc)
  BY <1>1 DEF TripInv, ReadInv
<1>3. Given(request') /\ Source(request', doc') /\ AllSane(doc')
  BY <1>1, <1>2
<1>4. snap'.generation = snap.generation
  BY <1>1, <1>2 DEF Rebuilt, Snapshot
<1>5. snap'.generation = Generation(doc')
  BY <1>1, <1>2, <1>4
<1> QED
  BY <1>1, <1>3, <1>5 DEF TripInv, Returned

LEMMA AgainTrip ==
  ASSUME ReadInv, TripInv, Again
  PROVE  TripInv'
<1>1. /\ Returned /\ pc' = "parse"
      /\ request' = [call |-> "deserialize", exported |-> TRUE, snap |-> snap, oversized |-> FALSE]
  BY DEF Again, Returned
<1>2. AllRead(doc, nodes, edges, dupes) /\ snap.nodes = nodes /\ snap.edges = edges
  BY <1>1 DEF ReadInv
<1>3. Source(request, doc) /\ AllSane(doc) /\ snap.generation = Generation(doc)
  BY <1>1 DEF TripInv
<1>4. AllRead(doc, snap.nodes, snap.edges, dupes)
  BY <1>2
<1>5. IsSnapshot(snap)
  BY <1>3, <1>4, ImportTyped DEF Source, AllSane
<1>6. Given(request')
  BY <1>1, <1>5 DEF Given
<1> QED
  BY <1>1, <1>6 DEF TripInv, Returned

LEMMA TripStep == ReadInv /\ TripInv /\ [Next]_vars => TripInv'
<1> SUFFICES ASSUME ReadInv, TripInv, [Next]_vars PROVE TripInv'
  OBVIOUS
<1>1. CASE UNCHANGED vars
  <2>1. request' = request /\ doc' = doc /\ pc' = pc /\ at' = at /\ snap' = snap /\ outcome' = outcome
    BY <1>1 DEF vars, reading
  <2> QED
    BY <2>1 DEF TripInv, Returned
<1> QED
  BY <1>1, ParseTrip, CheckTrip, ReadNodeTrip, EndNodesTrip, ReadEdgeTrip, TakeTrip,
     VisitTrip, FinishTrip, ReturnTrip, AgainTrip DEF Next

-----------------------------------------------------------------------------
(* What a whole export is read to.                                         *)

LEMMA SameFields ==
  ASSUME NEW new, NEW old, IsNode(old), SameNode(new, old)
  PROVE  /\ new.key = old.key /\ new.caps = old.caps /\ new.numa = old.numa
         /\ new.provider = old.provider
<1> DEFINE r == [new EXCEPT !.props = old.props]
<1>1. r = old /\ DOMAIN r = DOMAIN new
  BY DEF SameNode
<1>2. {"key", "caps", "numa", "provider"} \subseteq DOMAIN old
  BY DEF IsNode
<1>3. \A f \in DOMAIN new : f # "props" => r[f] = new[f]
  OBVIOUS
<1>4. \A f \in DOMAIN new : f # "props" => old[f] = new[f]
  BY <1>1, <1>3
<1> HIDE DEF r
<1>5. {"key", "caps", "numa", "provider"} \subseteq DOMAIN new
  BY <1>1, <1>2
<1> QED
  BY <1>4, <1>5

LEMMA NodesCarried ==
  ASSUME NEW d, NEW s, NEW o, DocImage(d, s, o), IsSnapshot(s), Carried(s),
         NEW N, NEW w, NodesRead(NodeArray(d), N, Len(NodeArray(d)), w)
  PROVE  /\ DOMAIN N = DOMAIN s.nodes
         /\ \A n \in DOMAIN N : SameNode(N[n], s.nodes[n])
<1> DEFINE V == NodeArray(d)
           m == Len(V)
           I == DOMAIN s.nodes
           q == InOrder(I)
<1>1. /\ DOMAIN N = {Id(V[i]) : i \in 1..m}
      /\ \A i \in 1..m : (\A j \in 1..(i - 1) : Id(V[j]) # Id(V[i])) => N[Id(V[i])] = node_from_json(V[i])
  BY DEF NodesRead
<1>2. m \in Nat /\ m = Cardinality(I) /\ I \subseteq Nat /\ IsFiniteSet(I)
  BY DEF DocImage, Vector, IsSnapshot
<1>3. /\ q \in [1..m -> I]
      /\ \A i \in I : \E k \in 1..m : q[k] = i
      /\ \A k, l \in 1..m : q[k] = q[l] => k = l
  BY <1>2, InOrderLists
<1>4. ASSUME NEW i \in 1..m
      PROVE  q[i] \in I /\ Id(V[i]) = q[i] /\ SameNode(node_from_json(V[i]), s.nodes[q[i]])
  <2> DEFINE id == q[i]
  <2>1. i \in 1..Len(NodeArray(d)) /\ id = InOrder(DOMAIN s.nodes)[i]
    OBVIOUS
  <2> HIDE DEF id, m, V
  <2>2. /\ id \in DOMAIN s.nodes /\ Id(NodeArray(d)[i]) = id
        /\ SameNode(node_from_json(NodeArray(d)[i]), s.nodes[id])
    BY <2>1, CarriedNode
  <2> QED
    BY <2>2 DEF id, V
<1> HIDE DEF V, m, q
<1>5. DOMAIN N = I
  <2>1. ASSUME NEW n \in DOMAIN N PROVE n \in I
    BY <1>1, <1>4
  <2>2. ASSUME NEW n \in I PROVE n \in DOMAIN N
    BY <1>1, <1>3, <1>4
  <2> QED
    BY <2>1, <2>2
<1>6. ASSUME NEW n \in I PROVE SameNode(N[n], s.nodes[n])
  <2>1. PICK i \in 1..m : q[i] = n
    BY <1>3
  <2>2. \A j \in 1..(i - 1) : Id(V[j]) # Id(V[i])
    <3> SUFFICES ASSUME NEW j \in 1..(i - 1) PROVE Id(V[j]) # Id(V[i])
      OBVIOUS
    <3>1. j \in 1..m /\ j # i
      BY <1>2
    <3> QED
      BY <1>3, <1>4, <3>1
  <2>3. N[Id(V[i])] = node_from_json(V[i])
    BY <1>1, <2>2
  <2> QED
    BY <1>4, <2>1, <2>3
<1> QED
  BY <1>5, <1>6

LEMMA ExportReordered ==
  ASSUME NEW d, NEW s, NEW o \in EdgeOrders(s.edges), DocImage(d, s, o), IsSnapshot(s), Carried(s),
         NEW t, NEW w, AllRead(d, t.nodes, t.edges, w)
  PROVE  Reordered(s, t, Len(s.edges), o)
<1> DEFINE k == Len(s.edges)
           W == EdgeArray(d)
<1>1. /\ k \in Nat /\ DOMAIN s.edges = 1..k /\ o \in [1..k -> 1..k]
      /\ \A i, j \in 1..k : o[i] = o[j] => i = j
      /\ \A j \in 1..k : \E i \in 1..k : o[i] = j
  BY OrderFacts
<1>2. Len(W) = k
  BY DEF DocImage
<1>3. t.edges = [i \in 1..k |-> edge_from_json(W[i])]
  BY <1>2 DEF AllRead, EdgesRead
<1>4. ASSUME NEW i \in 1..k PROVE t.edges[i] = s.edges[o[i]]
  <2>1. i \in 1..Len(EdgeArray(d))
    BY <1>2
  <2>2. edge_from_json(W[i]) = s.edges[o[i]]
    BY <2>1, CarriedEdge
  <2> QED
    BY <1>3, <2>2
<1>5. DOMAIN t.edges = 1..k
  BY <1>3
<1>6. /\ DOMAIN t.nodes = DOMAIN s.nodes
      /\ \A n \in DOMAIN t.nodes : SameNode(t.nodes[n], s.nodes[n])
  <2>1. NodesRead(NodeArray(d), t.nodes, Len(NodeArray(d)), w)
    BY DEF AllRead
  <2> QED
    BY <2>1, NodesCarried
<1>7. \A n \in DOMAIN s.nodes :
        /\ t.nodes[n].key = s.nodes[n].key /\ t.nodes[n].caps = s.nodes[n].caps
        /\ t.nodes[n].numa = s.nodes[n].numa /\ t.nodes[n].provider = s.nodes[n].provider
  <2>1. \A n \in DOMAIN s.nodes : IsNode(s.nodes[n]) /\ SameNode(t.nodes[n], s.nodes[n])
    BY <1>6 DEF IsSnapshot
  <2> QED
    BY <2>1, SameFields
<1> HIDE DEF k
<1>8. Reordered(s, t, k, o)
  BY <1>1, <1>4, <1>5, <1>6, <1>7 DEF Reordered
<1> QED
  BY <1>8 DEF k

LEMMA GenerationCarried ==
  ASSUME NEW d, NEW s, NEW o, DocImage(d, s, o), IsSnapshot(s), Carried(s)
  PROVE  Generation(d) = s.generation
<1> DEFINE g == s.generation
           v == Scalar(<<"Uint", g>>)
<1>1. g \in Nat /\ g <= MaxInt64 /\ MaxInt64 \in Nat
  BY WidthAssumption DEF IsSnapshot, Carried
<1>2. g \in Int64 /\ g \in Int
  BY <1>1 DEF Int64
<1>3. Has(d, "generation", Numbers) /\ d[2].generation = v
  BY DEF DocImage
<1> HIDE DEF g
<1>4. v = Whole(g, g < 0)
  BY <1>2, ScalarInteger
<1>5. Kind(v) = "Uint" /\ v[2] = g
  BY <1>1, <1>2, <1>4, WholeNumber
<1>6. integer(v) = g
  BY <1>5 DEF integer
<1>7. g % (2 * MaxInt64 + 2) = g
  <2> DEFINE b == 2 * MaxInt64 + 2
  <2>1. b \in Nat /\ g < b
    BY <1>1
  <2> HIDE DEF b
  <2>2. g % b = g
    BY <1>1, <2>1, ModSmall
  <2> QED
    BY <2>2 DEF b
<1>8. Generation(d) = integer(v) % (2 * MaxInt64 + 2)
  BY <1>3 DEF Generation
<1> QED
  BY <1>6, <1>7, <1>8 DEF g

\* An export that the text can carry is never rejected, whatever the snapshot, and
\* deserialize or import_synthetic makes the same topology of it: the nodes it had,
\* equal but for properties that dump writes in a form parse reads as another kind,
\* the same edges in the order std::sort chose, no material change to
\* compare_snapshots, as many validation errors and the same generation. The
\* snapshot an import returned is itself such a snapshot, so this holds of it too.
THEOREM RoundTripIsExact == Spec => []RoundTripExact
<1>1. ReadInv /\ TripInv => RoundTripExact
  <2> SUFFICES ASSUME ReadInv, TripInv, pc = "done", Good(request), UniqueKeys(request.snap)
               PROVE  /\ outcome = "returned"
                      /\ DOMAIN snap.nodes = DOMAIN request.snap.nodes
                      /\ \A n \in DOMAIN snap.nodes : SameNode(snap.nodes[n], request.snap.nodes[n])
                      /\ EdgeSet(snap.edges) = EdgeSet(request.snap.edges)
                      /\ ~MaterialChange(request.snap, snap) /\ ~MaterialChange(snap, request.snap)
                      /\ ErrorCount(snap) = ErrorCount(request.snap)
                      /\ snap.generation = request.snap.generation
    BY DEF RoundTripExact, Good, SameNode
  <2> DEFINE s == request.snap
  <2>1. outcome = "returned" /\ Returned
    BY DEF TripInv, Returned
  <2>2. Given(request) /\ Source(request, doc) /\ snap.generation = Generation(doc)
    BY <2>1 DEF TripInv
  <2>3. IsSnapshot(s) /\ Carried(s) /\ request.exported
    BY <2>2, GoodCarried
  <2>4. PICK o \in EdgeOrders(s.edges) : DocImage(doc, s, o)
    BY <2>2, <2>3 DEF Source
  <2>5. AllRead(doc, snap.nodes, snap.edges, dupes)
    BY <2>1 DEF ReadInv
  <2> HIDE DEF s
  <2>6. /\ DOMAIN snap.nodes = DOMAIN s.nodes
        /\ \A n \in DOMAIN snap.nodes : SameNode(snap.nodes[n], s.nodes[n])
    <3>1. NodesRead(NodeArray(doc), snap.nodes, Len(NodeArray(doc)), dupes)
      BY <2>5 DEF AllRead
    <3> QED
      BY <2>3, <2>4, <3>1, NodesCarried
  <2>7. Reordered(s, snap, Len(s.edges), o)
    BY <2>3, <2>4, <2>5, ExportReordered
  <2>8. /\ EdgeSet(snap.edges) = EdgeSet(s.edges)
        /\ ~MaterialChange(s, snap) /\ ~MaterialChange(snap, s)
    BY <2>7, ReorderedQuiet DEF s
  <2>9. ErrorCount(snap) = ErrorCount(s)
    BY <2>7, ReorderedErrors
  <2>10. snap.generation = s.generation
    BY <2>2, <2>3, <2>4, GenerationCarried
  <2> QED
    BY <2>1, <2>6, <2>8, <2>9, <2>10 DEF s
<1> QED
  BY <1>1, ReadInit, ReadStep, TripInit, TripStep, PTL DEF Spec
=============================================================================
