------------------------ MODULE DiscoveredGraphProofs ------------------------
(***************************************************************************)
(* What the merge of provider contributions and the machine attach pass    *)
(* guarantee for any contributions, any bounds and any hash order.         *)
(***************************************************************************)
EXTENDS DiscoveredGraph, GraphLemmas

-----------------------------------------------------------------------------
(* Identity keys.                                                          *)

Natives == [{"pci", "storage", "net", "cuda", "machine", "numa"} -> 0..(KeySpan - 1)]

\* The identity at place i of the priority order decides the key.
Leads(native, i) ==
  /\ native[IdentityPriority[i]] # 0
  /\ \A j \in 1..5 : j < i => native[IdentityPriority[j]] = 0

LEMMA Priorities ==
  /\ DOMAIN IdentityPriority = 1..5
  /\ \A i \in 1..5 : /\ IdentityPriority[i] \in {"pci", "storage", "net", "cuda", "machine"}
                     /\ PrefixRank[IdentityPriority[i]] \in 1..5
  /\ \A i, j \in 1..5 : PrefixRank[IdentityPriority[i]] = PrefixRank[IdentityPriority[j]] => i = j
<1> DEFINE R(i) == PrefixRank[IdentityPriority[i]]
<1>1. R(1) = 4 /\ R(2) = 5 /\ R(3) = 3 /\ R(4) = 1 /\ R(5) = 2
  BY DEF IdentityPriority, PrefixRank
<1>2. \A i \in 1..5 : i = 1 \/ i = 2 \/ i = 3 \/ i = 4 \/ i = 5
  OBVIOUS
<1>3. DOMAIN IdentityPriority = 1..5
  BY DEF IdentityPriority
<1>4. \A i \in 1..5 : IdentityPriority[i] \in {"pci", "storage", "net", "cuda", "machine"}
  BY <1>2 DEF IdentityPriority
<1> HIDE DEF R
<1>5. \A i \in 1..5 : R(i) \in 1..5
  BY <1>1, <1>2
<1>6. \A i, j \in 1..5 : R(i) = R(j) => i = j
  BY <1>1, <1>2
<1> QED
  BY <1>3, <1>4, <1>5, <1>6 DEF R

\* The key is that of the leading identity, 0 when none is reported.
LEMMA CanonicalKey ==
  ASSUME NEW native \in Natives
  PROVE  \/ canonical_key(native) = 0 /\ \A i \in 1..5 : native[IdentityPriority[i]] = 0
         \/ \E i \in 1..5 :
              /\ Leads(native, i)
              /\ canonical_key(native) =
                   KeySpan * PrefixRank[IdentityPriority[i]] + native[IdentityPriority[i]]
<1> DEFINE known == {i \in DOMAIN IdentityPriority : native[IdentityPriority[i]] # 0}
           lead == CHOOSE i \in known : \A j \in known : i <= j
<1>1. DOMAIN IdentityPriority = 1..5
  BY Priorities
<1>2. canonical_key(native) =
        IF known = {} THEN 0
        ELSE KeySpan * PrefixRank[IdentityPriority[lead]] + native[IdentityPriority[lead]]
  BY DEF canonical_key
<1>3. CASE known = {}
  BY <1>1, <1>2, <1>3
<1>4. CASE known # {}
  <2>1. known \subseteq Nat
    BY <1>1
  <2>2. lead \in known /\ \A j \in known : lead <= j
    <3> HIDE DEF known
    <3>1. \E i \in known : \A j \in known : i <= j
      BY <1>4, <2>1, LeastExists
    <3> QED
      BY <3>1
  <2>3. lead \in 1..5 /\ native[IdentityPriority[lead]] # 0
    BY <1>1, <2>2
  <2>4. \A j \in 1..5 : j < lead => native[IdentityPriority[j]] = 0
    <3>1. ASSUME NEW j \in 1..5, j < lead PROVE j \notin known
      <4> HIDE DEF known, lead
      <4> QED
        BY <2>2, <2>3, <3>1
    <3> QED
      BY <1>1, <3>1
  <2> HIDE DEF lead
  <2> QED
    BY <1>2, <1>4, <2>3, <2>4 DEF Leads
<1> QED
  BY <1>3, <1>4

\* A key tells its prefix and its value, and the prefixes of natives come before
\* all type prefixes.
LEMMA KeyParts ==
  ASSUME NEW r \in 1..5, NEW s \in 1..5, NEW v \in 0..(KeySpan - 1), NEW w \in 0..(KeySpan - 1)
  PROVE  /\ KeySpan * r + v \in Nat
         /\ KeySpan * r + v < KeySpan * 6
         /\ KeySpan * r + v # 0
         /\ KeySpan * r + v = KeySpan * s + w => r = s /\ v = w
<1>1. KeySpan \in Nat /\ KeySpan > 0 /\ v \in Nat /\ w \in Nat /\ v < KeySpan /\ w < KeySpan
  BY KeySpanAssumption
<1>2. r = 1 \/ r = 2 \/ r = 3 \/ r = 4 \/ r = 5
  OBVIOUS
<1>3. s = 1 \/ s = 2 \/ s = 3 \/ s = 4 \/ s = 5
  OBVIOUS
<1> QED
  BY <1>1, <1>2, <1>3

LEMMA TypeKey ==
  ASSUME NEW t \in NodeType, NEW n \in Nat
  PROVE  type_key(t, n) \in Nat /\ type_key(t, n) >= KeySpan * 6
<1> DEFINE at == CHOOSE i \in DOMAIN TypesInKeyOrder : TypesInKeyOrder[i] = t
<1>1. DOMAIN TypesInKeyOrder = 1..16
  BY DEF TypesInKeyOrder
<1>2. \E i \in 1..16 : TypesInKeyOrder[i] = t
  BY DEF TypesInKeyOrder, NodeType
<1>3. at \in 1..16
  BY <1>1, <1>2
<1>4. type_key(t, n) = KeySpan * (5 + at) + n
  BY DEF type_key
<1> HIDE DEF at
<1>5. KeySpan \in Nat
  BY KeySpanAssumption
<1>6. PICK d \in Nat : at = 1 + d
  BY <1>3
<1>7. KeySpan * (5 + at) = KeySpan * 6 + KeySpan * d /\ KeySpan * d \in Nat
  BY <1>5, <1>6
<1> QED
  BY <1>4, <1>5, <1>7

\* A node's group key tells whether it has a native identity, and if so its
\* leading identity and the value of that.
LEMMA GroupKey ==
  ASSUME NEW n, ContributedNode(n)
  PROVE  /\ group_key(n) \in Nat
         /\ \/ /\ group_key(n) >= KeySpan * 6
               /\ \A i \in 1..5 : n.native[IdentityPriority[i]] = 0
            \/ \E i \in 1..5 :
                 /\ Leads(n.native, i)
                 /\ group_key(n) =
                      KeySpan * PrefixRank[IdentityPriority[i]] + n.native[IdentityPriority[i]]
<1>1. n.native \in Natives
  BY DEF ContributedNode, Natives
<1>2. type_key(n.type, n.name) \in Nat /\ type_key(n.type, n.name) >= KeySpan * 6
  BY TypeKey DEF ContributedNode
<1>3. CASE canonical_key(n.native) = 0 /\ \A i \in 1..5 : n.native[IdentityPriority[i]] = 0
  <2>1. group_key(n) = type_key(n.type, n.name)
    BY <1>3 DEF group_key
  <2> QED
    BY <1>2, <1>3, <2>1
<1>4. ASSUME NEW i \in 1..5, Leads(n.native, i),
             canonical_key(n.native) =
               KeySpan * PrefixRank[IdentityPriority[i]] + n.native[IdentityPriority[i]]
      PROVE  /\ group_key(n) =
                  KeySpan * PrefixRank[IdentityPriority[i]] + n.native[IdentityPriority[i]]
             /\ group_key(n) \in Nat
  <2>1. PrefixRank[IdentityPriority[i]] \in 1..5 /\ IdentityPriority[i] \in DOMAIN n.native
    BY <1>1, Priorities DEF Natives
  <2>2. n.native[IdentityPriority[i]] \in 0..(KeySpan - 1)
    BY <1>1, <2>1 DEF Natives
  <2>3. canonical_key(n.native) # 0 /\ canonical_key(n.native) \in Nat
    BY <1>4, <2>1, <2>2, KeyParts
  <2> QED
    BY <1>4, <2>3 DEF group_key
<1> QED
  BY <1>1, <1>3, <1>4, CanonicalKey

-----------------------------------------------------------------------------
(* Groups.                                                                 *)

LEMMA Vector ==
  ASSUME NEW s, IsVector(s)
  PROVE  /\ Len(s) \in Nat /\ DOMAIN s = 1..Len(s)
         /\ s \in Seq({s[i] : i \in 1..Len(s)})
<1>1. Len(s) \in Nat /\ s = [i \in 1..Len(s) |-> s[i]]
  BY DEF IsVector
<1>2. DOMAIN s = 1..Len(s)
  BY <1>1
<1>3. s \in [1..Len(s) -> {s[i] : i \in 1..Len(s)}]
  BY <1>1
<1> QED
  BY <1>1, <1>2, <1>3

\* Nothing is ingested that was not contributed.
LEMMA IngestedMembers ==
  ASSUME NEW c0
  PROVE  Ingested(c0) \subseteq Members(c0)
  BY DEF Ingested

LEMMA MemberNode ==
  ASSUME NEW c0, Contributions(c0), NEW m \in Members(c0)
  PROVE  /\ m = <<m[1], m[2]>> /\ m[1] \in DOMAIN c0 /\ m[2] \in DOMAIN c0[m[1]].nodes
         /\ m[1] \in Nat /\ m[2] \in Nat
         /\ ContributedNode(NodeOf(c0, m)) /\ KeyOf(c0, m) \in Nat
<1>1. PICK c \in DOMAIN c0 : m \in {<<c, i>> : i \in DOMAIN c0[c].nodes}
  BY DEF Members
<1>2. PICK i \in DOMAIN c0[c].nodes : m = <<c, i>>
  BY <1>1
<1>3. c \in Nat /\ i \in Nat
  <2>1. IsVector(c0) /\ IsVector(c0[c].nodes)
    BY DEF Contributions
  <2>2. DOMAIN c0 = 1..Len(c0) /\ DOMAIN c0[c].nodes = 1..Len(c0[c].nodes)
    BY <2>1, Vector
  <2> QED
    BY <2>2
<1>4. NodeOf(c0, m) = c0[c].nodes[i] /\ ContributedNode(c0[c].nodes[i])
  BY <1>2 DEF NodeOf, Contributions
<1>5. KeyOf(c0, m) \in Nat
  BY <1>4, GroupKey DEF KeyOf
<1> QED
  BY <1>2, <1>3, <1>4, <1>5

-----------------------------------------------------------------------------
(* Counting.                                                               *)

LEMMA UpTo ==
  ASSUME NEW n \in Nat
  PROVE  IsFiniteSet(1..n) /\ Cardinality(1..n) = n
<1>1. IsFiniteSet(1..n) /\ Cardinality(1..n) = IF 1 > n THEN 0 ELSE n - 1 + 1
  BY FS_Interval
<1> QED
  BY <1>1

\* The range of a function on a finite set is finite.
LEMMA FiniteRange ==
  ASSUME NEW D, IsFiniteSet(D), NEW f, f = [x \in D |-> f[x]]
  PROVE  IsFiniteSet({f[x] : x \in D}) /\ Cardinality({f[x] : x \in D}) <= Cardinality(D)
<1> DEFINE R == {f[x] : x \in D}
<1>1. f \in Surjection(D, R)
  BY DEF Surjection
<1> HIDE DEF R
<1>2. IsFiniteSet(R) /\ Cardinality(R) <= Cardinality(D)
  BY <1>1, FS_Surjection
<1> QED
  BY <1>2 DEF R

\* A loop that stops after N elements has at most N, and all if there are no more.
LEMMA LeadingBound ==
  ASSUME NEW I, I \subseteq Nat, IsFiniteSet(I), NEW N \in Nat
  PROVE  /\ IsFiniteSet(Leading(I, N)) /\ Leading(I, N) \subseteq I
         /\ Cardinality(Leading(I, N)) <= N
         /\ Cardinality(I) <= N => Leading(I, N) = I
<1> DEFINE K == Leading(I, N)
           below(i) == {j \in I : j < i}
           f == [i \in K |-> Cardinality(below(i)) + 1]
<1>1. /\ Cardinality(I) \in Nat
      /\ \A i \in I : Cardinality(below(i)) + 1 \in 1..Cardinality(I)
      /\ \A i, k \in I : Cardinality(below(i)) = Cardinality(below(k)) => i = k
  BY Ranks
<1>2. K \subseteq I /\ \A i \in I : i \in K <=> Cardinality(below(i)) < N
  BY DEF Leading
<1>3. \A i \in I : Cardinality(below(i)) \in Nat
  <2> TAKE i \in I
  <2>1. below(i) \in SUBSET I
    OBVIOUS
  <2> HIDE DEF below
  <2>2. IsFiniteSet(below(i))
    BY <2>1, FS_Subset
  <2> QED
    BY <2>2, FS_CardinalityType
<1> HIDE DEF below, K
<1>4. f \in Injection(K, 1..N)
  <2>1. f \in [K -> 1..N]
    BY <1>2, <1>3
  <2>2. ASSUME NEW i \in K, NEW k \in K, f[i] = f[k] PROVE i = k
    <3>1. Cardinality(below(i)) = Cardinality(below(k))
      BY <1>2, <1>3, <2>2
    <3> QED
      BY <1>1, <1>2, <3>1
  <2> HIDE DEF f
  <2> QED
    BY <2>1, <2>2 DEF Injection, IsInjective
<1>5. IsFiniteSet(1..N) /\ Cardinality(1..N) = N
  <2>1. IsFiniteSet(1..N) /\ Cardinality(1..N) = IF 1 > N THEN 0 ELSE N - 1 + 1
    BY FS_Interval
  <2> QED
    BY <2>1
<1>6. IsFiniteSet(K) /\ Cardinality(K) <= N
  <2> HIDE DEF f
  <2> QED
    BY <1>4, <1>5, FS_Injection
<1>7. ASSUME Cardinality(I) <= N PROVE K = I
  <2>1. ASSUME NEW i \in I PROVE Cardinality(below(i)) < N
    BY <1>1, <1>3, <1>7
  <2> QED
    BY <1>2, <2>1
<1> QED
  BY <1>2, <1>6, <1>7 DEF K

\* There are finitely many nodes in the contributions.
LEMMA MembersFinite ==
  ASSUME NEW c0, Contributions(c0)
  PROVE  IsFiniteSet(Members(c0))
<1> DEFINE part == [c \in DOMAIN c0 |-> {<<c, i>> : i \in DOMAIN c0[c].nodes}]
<1>1. IsFiniteSet(DOMAIN c0)
  <2>1. Len(c0) \in Nat /\ DOMAIN c0 = 1..Len(c0)
    BY Vector DEF Contributions
  <2> QED
    BY <2>1, FS_Interval
<1>2. Members(c0) = UNION {part[c] : c \in DOMAIN c0}
  BY DEF Members
<1>3. ASSUME NEW c \in DOMAIN c0 PROVE IsFiniteSet(part[c])
  <2> DEFINE f == [i \in DOMAIN c0[c].nodes |-> <<c, i>>]
  <2>1. IsVector(c0[c].nodes)
    BY DEF Contributions
  <2>2. Len(c0[c].nodes) \in Nat /\ DOMAIN c0[c].nodes = 1..Len(c0[c].nodes)
    BY <2>1, Vector
  <2>3. IsFiniteSet(DOMAIN c0[c].nodes)
    <3>1. \A n \in Nat : IsFiniteSet(1..n)
      BY FS_Interval
    <3> QED
      BY <2>2, <3>1
  <2>4. part[c] = {f[i] : i \in DOMAIN c0[c].nodes} /\ f = [i \in DOMAIN c0[c].nodes |-> f[i]]
    OBVIOUS
  <2> HIDE DEF f, part
  <2> QED
    BY <2>3, <2>4, FiniteRange
<1>4. part = [c \in DOMAIN c0 |-> part[c]]
  OBVIOUS
<1> HIDE DEF part
<1>5. IsFiniteSet({part[c] : c \in DOMAIN c0})
  BY <1>1, <1>4, FiniteRange
<1> QED
  BY <1>2, <1>3, <1>5, FS_UNION

\* The keys of all contributed nodes.
AllKeys(c0) == {KeyOf(c0, m) : m \in Members(c0)}

LEMMA KeysFinite ==
  ASSUME NEW c0, Contributions(c0)
  PROVE  /\ AllKeys(c0) \subseteq Nat /\ IsFiniteSet(AllKeys(c0))
         /\ GroupKeys(c0) \subseteq AllKeys(c0) /\ IsFiniteSet(GroupKeys(c0))
<1>1. AllKeys(c0) \subseteq Nat
  BY MemberNode DEF AllKeys
<1>2. IsFiniteSet(AllKeys(c0))
  <2> DEFINE f == [m \in Members(c0) |-> KeyOf(c0, m)]
  <2>1. f = [m \in Members(c0) |-> f[m]] /\ AllKeys(c0) = {f[m] : m \in Members(c0)}
    BY DEF AllKeys
  <2> HIDE DEF f
  <2> QED
    BY <2>1, MembersFinite, FiniteRange
<1>3. GroupKeys(c0) = {KeyOf(c0, m) : m \in Ingested(c0)}
  BY DEF GroupKeys, Groups
<1>4. GroupKeys(c0) \in SUBSET AllKeys(c0)
  BY <1>3, IngestedMembers DEF AllKeys
<1>5. IsFiniteSet(GroupKeys(c0))
  BY <1>2, <1>4, FS_Subset
<1> QED
  BY <1>1, <1>2, <1>4, <1>5

\* max_nodes bounds the groups kept; if all keys fit, every group is kept.
LEMMA KeptBound ==
  ASSUME NEW c0, Contributions(c0)
  PROVE  /\ KeptGroups(c0) \subseteq GroupKeys(c0) /\ KeptGroups(c0) \subseteq Nat
         /\ IsFiniteSet(KeptGroups(c0)) /\ Cardinality(KeptGroups(c0)) <= MaxNodes
         /\ Cardinality(AllKeys(c0)) <= MaxNodes => KeptGroups(c0) = GroupKeys(c0)
<1>1. /\ GroupKeys(c0) \in SUBSET AllKeys(c0) /\ IsFiniteSet(GroupKeys(c0))
      /\ IsFiniteSet(AllKeys(c0)) /\ GroupKeys(c0) \subseteq Nat
  BY KeysFinite
<1>2. /\ IsFiniteSet(KeptGroups(c0)) /\ KeptGroups(c0) \subseteq GroupKeys(c0)
      /\ Cardinality(KeptGroups(c0)) <= MaxNodes
      /\ Cardinality(GroupKeys(c0)) <= MaxNodes => KeptGroups(c0) = GroupKeys(c0)
  BY <1>1, LeadingBound, BoundsAssumption DEF KeptGroups
<1>3. /\ Cardinality(GroupKeys(c0)) <= Cardinality(AllKeys(c0))
      /\ Cardinality(GroupKeys(c0)) \in Nat /\ Cardinality(AllKeys(c0)) \in Nat
  BY <1>1, FS_Subset, FS_CardinalityType
<1> QED
  BY <1>1, <1>2, <1>3, BoundsAssumption

-----------------------------------------------------------------------------
(* Contributed edges.                                                      *)

\* f[i] is the concatenation of the first i of n parts.
Concatenates(f, parts, n) ==
  f[1] = parts[1] /\ \A i \in 2..n : f[i] = f[i - 1] \o parts[i]

LEMMA Concatenation ==
  ASSUME NEW E, NEW n \in Nat, n # 0, NEW parts \in [1..n -> Seq(E)]
  PROVE  \E f \in [1..n -> Seq(E)] :
           FlattenSeq(parts) = f[n] /\ Concatenates(f, parts, n)
<1> DEFINE U == Seq(E)
           G == [p \in Nat \X U |-> IF p[1] \in 2..n THEN p[2] \o parts[p[1]] ELSE p[2]]
           Eq(f) == f = [i \in 1..n |-> IF i = 1 THEN parts[i] ELSE f[i - 1] \o parts[i]]
           flat == CHOOSE f : Eq(f)
           x0 == parts[1]
<1>1. G \in [Nat \X U -> U] /\ x0 \in U
  OBVIOUS
<1>2. PICK h \in [0..n -> U] : h[0] = x0 /\ \A k \in 1..n : h[k] = G[<<k, h[k - 1]>>]
  <2> HIDE DEF G, U, x0
  <2>1. \E h \in [0..n -> U] : Steps(h, G, x0, n)
    BY <1>1, StepsExist
  <2> QED
    BY <2>1 DEF Steps
<1> DEFINE f == [i \in 1..n |-> h[i]]
<1>3. f \in [1..n -> U]
  BY <1>2
<1>4. Concatenates(f, parts, n)
  <2>1. f[1] = parts[1]
    <3>1. 1 \in 1..n /\ 0 \in 0..n /\ 1 - 1 = 0
      OBVIOUS
    <3>2. h[1] = G[<<1, h[0]>>] /\ <<1, h[0]>> \in Nat \X U
      BY <1>2, <3>1
    <3>3. h[1] = h[0]
      BY <3>2
    <3> QED
      BY <1>2, <3>1, <3>3
  <2>2. ASSUME NEW i \in 2..n PROVE f[i] = f[i - 1] \o parts[i]
    <3>1. i \in 1..n /\ i - 1 \in 1..n /\ i - 1 \in 0..n
      OBVIOUS
    <3>2. h[i] = G[<<i, h[i - 1]>>] /\ <<i, h[i - 1]>> \in Nat \X U
      <4> HIDE DEF G
      <4> QED
        BY <1>2, <3>1
    <3>3. h[i] = h[i - 1] \o parts[i]
      BY <3>2
    <3> QED
      BY <3>1, <3>3
  <2> QED
    BY <2>1, <2>2 DEF Concatenates
<1> HIDE DEF f, U
<1>5. Eq(f)
  <2> DEFINE e == [i \in 1..n |-> IF i = 1 THEN parts[i] ELSE f[i - 1] \o parts[i]]
  <2>1. ASSUME NEW i \in 1..n PROVE f[i] = e[i]
    <3>1. CASE i = 1
      BY <1>4, <3>1 DEF Concatenates
    <3>2. CASE i # 1
      <4>1. i \in 2..n
        BY <3>2
      <4>2. f[i] = f[i - 1] \o parts[i]
        BY <1>4, <4>1 DEF Concatenates
      <4> QED
        BY <3>2, <4>2
    <3> QED
      BY <3>1, <3>2
  <2>2. f = e
    BY <1>3, <2>1
  <2> QED
    BY <2>2
<1>6. Eq(flat)
  <2>1. \E x : Eq(x)
    BY <1>5
  <2> HIDE DEF Eq
  <2> QED
    BY <2>1
<1>7. \A i \in 1..n : flat[i] = IF i = 1 THEN parts[i] ELSE flat[i - 1] \o parts[i]
  <2> HIDE DEF flat
  <2> QED
    BY <1>6
<1>8. FlattenSeq(parts) = flat[n]
  <2>1. Len(parts) = n
    OBVIOUS
  <2> QED
    BY <2>1 DEF FlattenSeq
<1> HIDE DEF flat, Eq
<1> DEFINE Off == {i \in 1..n : flat[i] # f[i]}
<1>9. Off = {}
  <2> SUFFICES ASSUME Off # {} PROVE FALSE
    OBVIOUS
  <2>1. Off \subseteq Nat
    OBVIOUS
  <2>2. PICK k \in Off : \A j \in Off : k <= j
    <3> HIDE DEF Off
    <3> QED
      BY <2>1, LeastExists
  <2>3. CASE k = 1
    BY <1>4, <1>7, <2>2, <2>3 DEF Concatenates
  <2>4. CASE k # 1
    <3>1. k \in 2..n /\ k - 1 \in 1..n /\ ~ (k <= k - 1)
      BY <2>2, <2>4
    <3>2. flat[k - 1] = f[k - 1]
      BY <2>2, <3>1
    <3>3. f[k] = f[k - 1] \o parts[k] /\ flat[k] = flat[k - 1] \o parts[k]
      BY <1>4, <1>7, <2>2, <2>4, <3>1 DEF Concatenates
    <3> QED
      BY <2>2, <3>2, <3>3
  <2> QED
    BY <2>3, <2>4
<1>10. flat[n] = f[n]
  <2>1. n \in 1..n
    OBVIOUS
  <2> QED
    BY <1>9, <2>1
<1> QED
  BY <1>3, <1>4, <1>8, <1>10 DEF U

EdgesOf(c0) == UNION {{c0[c].edges[i] : i \in DOMAIN c0[c].edges} : c \in DOMAIN c0}

EdgeParts(c0) == [c \in DOMAIN c0 |-> c0[c].edges]

LEMMA EdgePartsType ==
  ASSUME NEW c0, Contributions(c0)
  PROVE  /\ Len(c0) \in Nat /\ DOMAIN c0 = 1..Len(c0)
         /\ EdgeParts(c0) \in [1..Len(c0) -> Seq(EdgesOf(c0))]
<1>1. Len(c0) \in Nat /\ DOMAIN c0 = 1..Len(c0)
  BY Vector DEF Contributions
<1>2. ASSUME NEW c \in DOMAIN c0 PROVE c0[c].edges \in Seq(EdgesOf(c0))
  <2> DEFINE s == c0[c].edges
  <2>1. IsVector(s)
    BY DEF Contributions
  <2>2. \A i \in DOMAIN s : s[i] \in EdgesOf(c0)
    BY DEF EdgesOf
  <2> HIDE DEF s
  <2>3. Len(s) \in Nat /\ DOMAIN s = 1..Len(s) /\ s = [i \in 1..Len(s) |-> s[i]]
    BY <2>1, Vector DEF IsVector
  <2>4. s \in [1..Len(s) -> EdgesOf(c0)]
    BY <2>2, <2>3
  <2>5. s \in Seq(EdgesOf(c0))
    BY <2>3, <2>4
  <2> QED
    BY <2>5 DEF s
<1> QED
  BY <1>1, <1>2 DEF EdgeParts

\* The edges of all contributions, in one vector.
LEMMA ContributedEdgesType ==
  ASSUME NEW c0, Contributions(c0)
  PROVE  /\ ContributedEdges(c0) \in Seq(EdgesOf(c0))
         /\ Len(ContributedEdges(c0)) \in Nat
         /\ DOMAIN ContributedEdges(c0) = 1..Len(ContributedEdges(c0))
<1> DEFINE E == EdgesOf(c0)
           parts == EdgeParts(c0)
           n == Len(c0)
<1>1. n \in Nat /\ parts \in [1..n -> Seq(E)]
  BY EdgePartsType
<1>2. ContributedEdges(c0) = FlattenSeq(parts)
  BY DEF ContributedEdges, EdgeParts
<1> HIDE DEF E, parts, n
<1>3. FlattenSeq(parts) \in Seq(E)
  <2>1. CASE n = 0
    <3>1. parts \in [1..0 -> Seq(E)]
      BY <1>1, <2>1
    <3>2. parts = << >> /\ Len(parts) = 0
      BY <3>1
    <3>3. FlattenSeq(parts) = << >>
      BY <3>2 DEF FlattenSeq
    <3> QED
      BY <3>3
  <2>2. CASE n # 0
    <3>1. PICK f \in [1..n -> Seq(E)] : FlattenSeq(parts) = f[n] /\ Concatenates(f, parts, n)
      BY <1>1, <2>2, Concatenation
    <3>2. n \in 1..n
      BY <1>1, <2>2
    <3> QED
      BY <3>1, <3>2
  <2> QED
    BY <2>1, <2>2
<1>4. ContributedEdges(c0) \in Seq(E)
  BY <1>2, <1>3
<1>5. Len(ContributedEdges(c0)) \in Nat
  BY <1>4
<1>6. DOMAIN ContributedEdges(c0) = 1..Len(ContributedEdges(c0))
  BY <1>4
<1> QED
  BY <1>4, <1>5, <1>6 DEF E

-----------------------------------------------------------------------------
(* The merged graph.                                                       *)

\* An edge vector with positions up to end.
Vectored(edges, end) == DOMAIN edges \subseteq 1..end

LEMMA VectoredPositions ==
  ASSUME NEW edges, NEW end \in Nat, Vectored(edges, end)
  PROVE  Positions(edges) = DOMAIN edges /\ IsFiniteSet(DOMAIN edges) /\ DOMAIN edges \subseteq Nat
<1>1. DOMAIN edges \in SUBSET (1..end) /\ IsFiniteSet(1..end)
  BY FS_Interval DEF Vectored
<1>2. IsFiniteSet(DOMAIN edges)
  BY <1>1, FS_Subset
<1>3. DOMAIN edges \subseteq Nat
  BY <1>1
<1> QED
  BY <1>2, <1>3 DEF Positions

\* Deduplication leaves the first edge of each key, and no key is lost.
LEMMA DeduplicateKeeps ==
  ASSUME NEW edges, NEW end \in Nat, Vectored(edges, end)
  PROVE  /\ DOMAIN Deduplicate(edges) \subseteq DOMAIN edges
         /\ Vectored(Deduplicate(edges), end)
         /\ \A i \in DOMAIN Deduplicate(edges) : Deduplicate(edges)[i] = edges[i]
         /\ \A i \in Positions(Deduplicate(edges)) : IsFirst(Deduplicate(edges), i)
         /\ EdgeKeys(Deduplicate(edges)) = EdgeKeys(edges)
<1> DEFINE D == Deduplicate(edges)
<1>1. Positions(edges) = DOMAIN edges
  BY VectoredPositions
<1>2. /\ DOMAIN D = {j \in Positions(edges) : IsFirst(edges, j)}
      /\ \A i \in DOMAIN D : D[i] = edges[i]
  BY DEF Deduplicate
<1> HIDE DEF D
<1>3. Vectored(D, end)
  BY <1>1, <1>2 DEF Vectored
<1>4. Positions(D) = DOMAIN D
  BY <1>3, VectoredPositions
<1>5. \A i \in Positions(D) : IsFirst(D, i)
  BY <1>1, <1>2, <1>4 DEF IsFirst
<1>6. EdgeKeys(D) = EdgeKeys(edges)
  <2>1. ASSUME NEW i \in Positions(D) PROVE EdgeKey(D[i]) \in EdgeKeys(edges)
    BY <1>1, <1>2, <1>4, <2>1 DEF EdgeKeys
  <2>2. ASSUME NEW i \in Positions(edges) PROVE EdgeKey(edges[i]) \in EdgeKeys(D)
    <3>1. PICK j \in Positions(edges) : IsFirst(edges, j) /\ EdgeKey(edges[j]) = EdgeKey(edges[i])
      BY FirstMatchExists
    <3>2. j \in Positions(D) /\ D[j] = edges[j]
      BY <1>2, <1>4, <3>1
    <3> QED
      BY <3>1, <3>2 DEF EdgeKeys
  <2> QED
    BY <2>1, <2>2 DEF EdgeKeys
<1> QED
  BY <1>1, <1>2, <1>3, <1>5, <1>6 DEF D

\* The resolved edges: at most max_edges of them, each a contributed one.
LEMMA Resolved ==
  ASSUME NEW c0, Contributions(c0), NEW p
  PROVE  /\ ResolvableEdges(c0, p) \subseteq DOMAIN ContributedEdges(c0)
         /\ IsFiniteSet(ResolvableEdges(c0, p))
         /\ DOMAIN ResolvedEdges(c0, p) \subseteq ResolvableEdges(c0, p)
         /\ Cardinality(ResolvableEdges(c0, p)) <= MaxEdges =>
              DOMAIN ResolvedEdges(c0, p) = ResolvableEdges(c0, p)
         /\ Vectored(ResolvedEdges(c0, p), Len(ContributedEdges(c0)))
         /\ IsFiniteSet(DOMAIN ResolvedEdges(c0, p))
         /\ Cardinality(DOMAIN ResolvedEdges(c0, p)) <= MaxEdges
         /\ \A i \in DOMAIN ResolvedEdges(c0, p) : ResolvedEdges(c0, p)[i] =
              ResolvedEdge(KeptGroups(c0), p, ContributedEdges(c0)[i])
<1> DEFINE es == ContributedEdges(c0)
           I == ResolvableEdges(c0, p)
           R == ResolvedEdges(c0, p)
<1>1. Len(es) \in Nat /\ DOMAIN es = 1..Len(es)
  BY ContributedEdgesType
<1>2. I \in SUBSET DOMAIN es
  BY DEF ResolvableEdges
<1>3. /\ DOMAIN R = Leading(I, MaxEdges)
      /\ \A i \in DOMAIN R : R[i] = ResolvedEdge(KeptGroups(c0), p, es[i])
  BY DEF ResolvedEdges
<1> HIDE DEF es, I, R
<1>4. IsFiniteSet(I) /\ I \subseteq Nat
  <2>1. IsFiniteSet(1..Len(es))
    BY <1>1, FS_Interval
  <2> QED
    BY <1>1, <1>2, <2>1, FS_Subset
<1>5. /\ IsFiniteSet(Leading(I, MaxEdges)) /\ Leading(I, MaxEdges) \subseteq I
      /\ Cardinality(Leading(I, MaxEdges)) <= MaxEdges
      /\ Cardinality(I) <= MaxEdges => Leading(I, MaxEdges) = I
  BY <1>4, LeadingBound, BoundsAssumption
<1>6. Vectored(R, Len(es))
  BY <1>1, <1>2, <1>3, <1>5 DEF Vectored
<1> QED
  BY <1>2, <1>3, <1>4, <1>5, <1>6 DEF es, I, R

\* What merge_contributions returns.
LEMMA MergeShape ==
  ASSUME NEW c0, NEW p, NEW g, g = MergeContributions(c0, p)
  PROVE  /\ DOMAIN g.nodes = KeptGroups(c0)
         /\ \A k \in KeptGroups(c0) : g.nodes[k] = MergeGroup(c0, Groups(c0)[k])
         /\ g.edges = Deduplicate(ResolvedEdges(c0, p))
         /\ g = [nodes |-> g.nodes, edges |-> g.edges, conflicts |-> g.conflicts]
<1> DEFINE N == [k \in KeptGroups(c0) |-> MergeGroup(c0, Groups(c0)[k])]
           E == Deduplicate(ResolvedEdges(c0, p))
           C == MapThenSumSet(LAMBDA k : Conflicts(c0, Groups(c0)[k]), KeptGroups(c0))
<1>1. g = [nodes |-> N, edges |-> E, conflicts |-> C]
  BY DEF MergeContributions
<1>2. DOMAIN N = KeptGroups(c0) /\ \A k \in KeptGroups(c0) : N[k] = MergeGroup(c0, Groups(c0)[k])
  OBVIOUS
<1> HIDE DEF N, E, C
<1>3. g.nodes = N /\ g.edges = E /\ g.conflicts = C
  BY <1>1
<1> QED
  BY <1>1, <1>2, <1>3 DEF E

\* The merged graph respects both bounds.
LEMMA MergeBounds ==
  ASSUME NEW c0, Contributions(c0), NEW p, NEW g, g = MergeContributions(c0, p)
  PROVE  /\ IsFiniteSet(DOMAIN g.nodes) /\ Cardinality(DOMAIN g.nodes) <= MaxNodes
         /\ Vectored(g.edges, Len(ContributedEdges(c0)))
         /\ IsFiniteSet(DOMAIN g.edges) /\ Cardinality(DOMAIN g.edges) <= MaxEdges
         /\ \A i \in Positions(g.edges) : IsFirst(g.edges, i)
         /\ EdgeKeys(g.edges) = EdgeKeys(ResolvedEdges(c0, p))
         /\ DOMAIN g.edges \subseteq DOMAIN ResolvedEdges(c0, p)
         /\ \A i \in DOMAIN g.edges : g.edges[i] = ResolvedEdges(c0, p)[i]
<1> DEFINE R == ResolvedEdges(c0, p)
           end == Len(ContributedEdges(c0))
<1>1. end \in Nat
  BY ContributedEdgesType
<1>2. Vectored(R, end) /\ IsFiniteSet(DOMAIN R) /\ Cardinality(DOMAIN R) <= MaxEdges
  BY Resolved
<1>3. g.edges = Deduplicate(R) /\ DOMAIN g.nodes = KeptGroups(c0)
  BY MergeShape
<1> HIDE DEF R, end
<1>4. /\ DOMAIN g.edges \subseteq DOMAIN R
      /\ Vectored(g.edges, end)
      /\ \A i \in DOMAIN g.edges : g.edges[i] = R[i]
      /\ \A i \in Positions(g.edges) : IsFirst(g.edges, i)
      /\ EdgeKeys(g.edges) = EdgeKeys(R)
  BY <1>1, <1>2, <1>3, DeduplicateKeeps
<1>5. IsFiniteSet(DOMAIN g.edges) /\ Cardinality(DOMAIN g.edges) <= MaxEdges
  <2>1. DOMAIN g.edges \in SUBSET DOMAIN R
    BY <1>4
  <2>2. IsFiniteSet(DOMAIN g.edges) /\ Cardinality(DOMAIN g.edges) <= Cardinality(DOMAIN R)
    BY <1>2, <2>1, FS_Subset
  <2>3. Cardinality(DOMAIN g.edges) \in Nat /\ Cardinality(DOMAIN R) \in Nat
    BY <1>2, <2>2, FS_CardinalityType
  <2> QED
    BY <1>2, <2>2, <2>3, BoundsAssumption
<1>6. IsFiniteSet(DOMAIN g.nodes) /\ Cardinality(DOMAIN g.nodes) <= MaxNodes
  BY <1>3, KeptBound
<1> QED
  BY <1>4, <1>5, <1>6 DEF R, end

-----------------------------------------------------------------------------
(* The machine attach pass.                                                *)

\* h is g with new edges behind its vector: one from machine m to each resource
\* without a parent.
Attached(g, m, h, end) ==
  /\ h.nodes = g.nodes
  /\ DOMAIN h.edges \subseteq Nat /\ IsFiniteSet(DOMAIN h.edges)
  /\ DOMAIN g.edges \subseteq DOMAIN h.edges
  /\ \A i \in DOMAIN g.edges : h.edges[i] = g.edges[i]
  /\ \A i \in DOMAIN h.edges \ DOMAIN g.edges :
       /\ i > end
       /\ h.edges[i].source = m /\ h.edges[i].target \in Unparented(g, m)
       /\ h.edges[i].type = "CONTAINS" /\ h.edges[i].direction = "DIRECTED"
  /\ \A i, j \in DOMAIN h.edges \ DOMAIN g.edges :
       h.edges[i].target = h.edges[j].target => i = j
  /\ \A n \in Unparented(g, m) : \E i \in DOMAIN h.edges :
       h.edges[i].source = m /\ h.edges[i].target = n /\ h.edges[i].type = "CONTAINS"

\* An ordering of a finite set holds each element once.
LEMMA Ordering ==
  ASSUME NEW S, IsFiniteSet(S), NEW ns \in SetToSeqs(S)
  PROVE  \E k \in Nat :
           /\ DOMAIN ns = 1..k /\ \A i \in 1..k : ns[i] \in S
           /\ \A i, j \in 1..k : ns[i] = ns[j] => i = j
           /\ \A x \in S : \E i \in 1..k : ns[i] = x
<1> DEFINE k == Cardinality(S)
<1>1. k \in Nat
  BY FS_CardinalityType
<1>2. ns \in [1..k -> S] /\ \A i, j \in 1..k : i # j => ns[i] # ns[j]
  BY DEF SetToSeqs
<1> HIDE DEF k
<1>3. ns \in Injection(1..k, S)
  BY <1>2 DEF Injection, IsInjective
<1>4. Cardinality(1..k) = k
  <2>1. Cardinality(1..k) = IF 1 > k THEN 0 ELSE k - 1 + 1
    BY <1>1, FS_Interval
  <2> QED
    BY <1>1, <2>1
<1>5. ns \in Surjection(1..k, S)
  BY <1>3, <1>4, FS_Injection DEF k
<1>6. \A x \in S : \E i \in 1..k : ns[i] = x
  BY <1>5 DEF Surjection
<1> QED
  BY <1>1, <1>2, <1>6

LEMMA AttachShape ==
  ASSUME NEW g, g = [nodes |-> g.nodes, edges |-> g.edges, conflicts |-> g.conflicts],
         NEW end \in Nat, Vectored(g.edges, end), IsFiniteSet(DOMAIN g.nodes),
         NEW m, NEW ns \in SetToSeqs(Unparented(g, m)),
         NEW h, h = AttachToMachine(g, m, ns, end)
  PROVE  Attached(g, m, h, end)
<1> DEFINE old == DOMAIN g.edges
           U == Unparented(g, m)
<1>1. old \subseteq 1..end /\ old \subseteq Nat /\ IsFiniteSet(old) /\ Positions(g.edges) = old
  BY VectoredPositions DEF Vectored
<1>2. IsFiniteSet(U)
  <2>1. U \in SUBSET DOMAIN g.nodes
    BY DEF Unparented
  <2> HIDE DEF U
  <2> QED
    BY <2>1, FS_Subset
<1>3. PICK k \in Nat :
        /\ DOMAIN ns = 1..k /\ \A i \in 1..k : ns[i] \in U
        /\ \A i, j \in 1..k : ns[i] = ns[j] => i = j
        /\ \A x \in U : \E i \in 1..k : ns[i] = x
  <2> HIDE DEF U
  <2>1. ns \in SetToSeqs(U)
    BY DEF U
  <2> QED
    BY <1>2, <2>1, Ordering
<1> DEFINE new == {end + i : i \in 1..k}
           e(i) == [source |-> m, target |-> ns[i - end], type |-> "CONTAINS",
                    direction |-> "DIRECTED", link |-> 0]
           v == [i \in old \cup new |-> IF i \in old THEN g.edges[i] ELSE e(i)]
<1> HIDE DEF old, U
<1>4. h = [g EXCEPT !.edges = v]
  BY <1>1, <1>3 DEF AttachToMachine
<1>5. h.nodes = g.nodes /\ h.edges = v
  <2> HIDE DEF v
  <2> QED
    BY <1>4
<1>6. new \subseteq Nat /\ IsFiniteSet(new) /\ \A i \in new : i > end /\ i - end \in 1..k
  <2>1. new \in SUBSET (1..(end + k))
    OBVIOUS
  <2>2. IsFiniteSet(1..(end + k))
    <3>1. \A n \in Nat : IsFiniteSet(1..n)
      BY FS_Interval
    <3> QED
      BY <3>1
  <2>3. IsFiniteSet(new)
    <3> HIDE DEF new
    <3> QED
      BY <2>1, <2>2, FS_Subset
  <2> QED
    BY <2>1, <2>3
<1>7. \A i \in new : i \notin old
  BY <1>1, <1>6
<1>8. DOMAIN h.edges = old \cup new /\ \A i \in old : h.edges[i] = g.edges[i]
  BY <1>5
<1>9. \A i \in new : h.edges[i] = e(i)
  BY <1>5, <1>7
<1>10. IsFiniteSet(old \cup new) /\ old \cup new \subseteq Nat
  BY <1>1, <1>6, FS_Union
<1> HIDE DEF v
<1>11. \A i \in new : /\ h.edges[i].source = m /\ h.edges[i].target = ns[i - end]
                     /\ h.edges[i].type = "CONTAINS" /\ h.edges[i].direction = "DIRECTED"
  <2> TAKE i \in new
  <2> DEFINE d == h.edges[i]
             t == ns[i - end]
  <2>1. d = [source |-> m, target |-> t, type |-> "CONTAINS", direction |-> "DIRECTED", link |-> 0]
    BY <1>9
  <2> HIDE DEF d, t
  <2>2. d.source = m /\ d.target = t /\ d.type = "CONTAINS" /\ d.direction = "DIRECTED"
    BY <2>1
  <2> QED
    BY <2>2 DEF d, t
<1>12. \A i \in new : ns[i - end] \in U
  BY <1>3, <1>6
<1>13. ASSUME NEW i \in new, NEW j \in new, h.edges[i].target = h.edges[j].target PROVE i = j
  <2>1. ns[i - end] = ns[j - end]
    BY <1>11, <1>13
  <2>2. i - end = j - end
    BY <1>3, <1>6, <2>1
  <2>3. i \in Nat /\ j \in Nat
    BY <1>6
  <2> QED
    BY <2>2, <2>3
<1>14. ASSUME NEW n \in U PROVE \E i \in new : h.edges[i].target = n
  <2>1. PICK i \in 1..k : ns[i] = n
    BY <1>3
  <2>2. end + i \in new /\ (end + i) - end = i
    BY <2>1
  <2> QED
    BY <1>11, <2>1, <2>2
<1> HIDE DEF new
<1>15. DOMAIN h.edges \ DOMAIN g.edges = new
  BY <1>7, <1>8 DEF old
<1> QED
  BY <1>5, <1>6, <1>8, <1>10, <1>11, <1>12, <1>13, <1>14, <1>15 DEF Attached, old, U

-----------------------------------------------------------------------------
(* The pipeline.                                                           *)

\* g is what the merge makes of c0 with the resolution p, h what the attach pass
\* makes of g.
Pipeline(c0, p, g, h) ==
  /\ Contributions(c0) /\ p \in RefChoices(c0)
  /\ g = MergeContributions(c0, p)
  /\ h \in AttachedGraphs(g, Len(ContributedEdges(c0)))

LEMMA PipelineShape ==
  ASSUME NEW c0, NEW p, NEW g, NEW h, Pipeline(c0, p, g, h)
  PROVE  \/ h = g /\ Machines(g) = {}
         \/ \E m \in Machines(g) : Attached(g, m, h, Len(ContributedEdges(c0)))
<1> DEFINE end == Len(ContributedEdges(c0))
<1>1. Contributions(c0) /\ g = MergeContributions(c0, p) /\ h \in AttachedGraphs(g, end)
  BY DEF Pipeline
<1>2. end \in Nat
  BY <1>1, ContributedEdgesType
<1>3. g = [nodes |-> g.nodes, edges |-> g.edges, conflicts |-> g.conflicts]
  BY <1>1, MergeShape
<1>4. Vectored(g.edges, end) /\ IsFiniteSet(DOMAIN g.nodes)
  BY <1>1, MergeBounds
<1> HIDE DEF end
<1>5. CASE Machines(g) = {}
  BY <1>1, <1>5 DEF AttachedGraphs
<1>6. CASE Machines(g) # {}
  <2>1. PICK m \in Machines(g) :
          h \in {AttachToMachine(g, m, ns, end) : ns \in SetToSeqs(Unparented(g, m))}
    BY <1>1, <1>6 DEF AttachedGraphs
  <2>2. PICK ns \in SetToSeqs(Unparented(g, m)) : h = AttachToMachine(g, m, ns, end)
    BY <2>1
  <2>3. Attached(g, m, h, end)
    BY <1>2, <1>3, <1>4, <2>2, AttachShape
  <2> QED
    BY <2>3 DEF end
<1> QED
  BY <1>5, <1>6

\* What every outcome of the attach pass keeps of the merged graph.
LEMMA PipelineKeeps ==
  ASSUME NEW c0, NEW p, NEW g, NEW h, Pipeline(c0, p, g, h)
  PROVE  /\ h.nodes = g.nodes
         /\ DOMAIN h.edges \subseteq Nat /\ IsFiniteSet(DOMAIN h.edges)
         /\ DOMAIN g.edges \subseteq DOMAIN h.edges
         /\ \A i \in DOMAIN g.edges : h.edges[i] = g.edges[i]
         /\ \A i \in DOMAIN h.edges \ DOMAIN g.edges : i > Len(ContributedEdges(c0))
<1> DEFINE end == Len(ContributedEdges(c0))
<1>1. Contributions(c0) /\ g = MergeContributions(c0, p)
  BY DEF Pipeline
<1>2. end \in Nat
  BY <1>1, ContributedEdgesType
<1>3. Vectored(g.edges, end)
  BY <1>1, MergeBounds
<1>4. DOMAIN g.edges \subseteq Nat /\ IsFiniteSet(DOMAIN g.edges)
  <2> HIDE DEF end
  <2> QED
    BY <1>2, <1>3, VectoredPositions
<1>5. CASE h = g
  BY <1>4, <1>5
<1>6. ASSUME NEW m \in Machines(g), Attached(g, m, h, end)
      PROVE  /\ h.nodes = g.nodes
             /\ DOMAIN h.edges \subseteq Nat /\ IsFiniteSet(DOMAIN h.edges)
             /\ DOMAIN g.edges \subseteq DOMAIN h.edges
             /\ \A i \in DOMAIN g.edges : h.edges[i] = g.edges[i]
             /\ \A i \in DOMAIN h.edges \ DOMAIN g.edges : i > end
  BY <1>6 DEF Attached
<1> QED
  BY <1>5, <1>6, PipelineShape

\* The bounds, for every input and every hash order.
LEMMA PipelineBounds ==
  ASSUME NEW c0, NEW p, NEW g, NEW h, Pipeline(c0, p, g, h)
  PROVE  /\ Cardinality(DOMAIN g.nodes) <= MaxNodes
         /\ Cardinality(DOMAIN g.edges) <= MaxEdges
         /\ Cardinality(DOMAIN BuiltEdges(h)) <= MaxEdges
         /\ EdgeSet(g.edges) \subseteq EdgeSet(BuiltEdges(h))
<1> DEFINE end == Len(ContributedEdges(c0))
           old == DOMAIN g.edges
           all == DOMAIN h.edges
<1>1. Contributions(c0) /\ g = MergeContributions(c0, p)
  BY DEF Pipeline
<1>2. /\ Cardinality(DOMAIN g.nodes) <= MaxNodes
      /\ Vectored(g.edges, end) /\ IsFiniteSet(old) /\ Cardinality(old) <= MaxEdges
  BY <1>1, MergeBounds
<1>3. end \in Nat /\ old \subseteq 1..end
  BY <1>1, <1>2, ContributedEdgesType DEF Vectored
<1>4. /\ all \subseteq Nat /\ IsFiniteSet(all) /\ old \subseteq all
      /\ \A i \in old : h.edges[i] = g.edges[i]
      /\ \A i \in all \ old : i > end
  BY PipelineKeeps
<1>5. Positions(h.edges) = all /\ Positions(g.edges) = old
  BY <1>4 DEF Positions
<1>6. /\ DOMAIN BuiltEdges(h) = Leading(all, MaxEdges)
      /\ \A i \in DOMAIN BuiltEdges(h) : BuiltEdges(h)[i] = h.edges[i]
  BY <1>5 DEF BuiltEdges
<1> HIDE DEF end, old, all
<1>7. /\ Leading(all, MaxEdges) \subseteq all
      /\ Cardinality(Leading(all, MaxEdges)) <= MaxEdges
  BY <1>4, LeadingBound, BoundsAssumption
<1>8. ASSUME NEW i \in old PROVE i \in Leading(all, MaxEdges)
  <2> DEFINE B == {j \in all : j < i}
             A == {j \in old : j < i}
  <2>1. B = A
    <3>1. ASSUME NEW j \in all, j < i PROVE j \in old
      BY <1>3, <1>4, <3>1
    <3> QED
      BY <1>4, <3>1
  <2>2. Cardinality(old) \in Nat /\ Cardinality(A) + 1 \in 1..Cardinality(old)
    <3>1. old \subseteq Nat
      BY <1>4
    <3>2. /\ Cardinality(old) \in Nat
          /\ \A x \in old : Cardinality({j \in old : j < x}) + 1 \in 1..Cardinality(old)
      BY <1>2, <3>1, Ranks
    <3> QED
      BY <3>2
  <2>3. Cardinality(A) \in Nat
    <3>1. A \in SUBSET old
      OBVIOUS
    <3> HIDE DEF A
    <3> QED
      BY <1>2, <3>1, FS_Subset, FS_CardinalityType
  <2>4. Cardinality(B) < MaxEdges
    <3> HIDE DEF A, B
    <3> QED
      BY <1>2, <2>1, <2>2, <2>3, BoundsAssumption
  <2> QED
    BY <1>4, <2>4 DEF Leading
<1>9. EdgeSet(g.edges) \subseteq EdgeSet(BuiltEdges(h))
  <2> SUFFICES ASSUME NEW i \in old PROVE g.edges[i] \in EdgeSet(BuiltEdges(h))
    BY <1>5 DEF EdgeSet
  <2>1. i \in DOMAIN BuiltEdges(h) /\ BuiltEdges(h)[i] = g.edges[i] /\ i \in Nat
    BY <1>4, <1>6, <1>8
  <2> QED
    BY <2>1 DEF EdgeSet, Positions
<1> QED
  BY <1>2, <1>6, <1>7, <1>9 DEF old

-----------------------------------------------------------------------------
(* The order of the members of a group.                                    *)

RankOf(c0, m) == Rank(NodeOf(c0, m).conf)

LEMMA PrecedesDef ==
  ASSUME NEW c0, Contributions(c0), NEW a \in Members(c0), NEW b \in Members(c0)
  PROVE  /\ RankOf(c0, a) \in 1..5 /\ RankOf(c0, b) \in 1..5
         /\ a[1] \in Nat /\ a[2] \in Nat /\ b[1] \in Nat /\ b[2] \in Nat
         /\ a[1] = b[1] /\ a[2] = b[2] => a = b
         /\ Precedes(c0, a, b) <=>
              \/ RankOf(c0, a) > RankOf(c0, b)
              \/ RankOf(c0, a) = RankOf(c0, b) /\ a[1] < b[1]
              \/ RankOf(c0, a) = RankOf(c0, b) /\ a[1] = b[1] /\ a[2] < b[2]
<1>1. /\ a = <<a[1], a[2]>> /\ b = <<b[1], b[2]>>
      /\ a[1] \in Nat /\ a[2] \in Nat /\ b[1] \in Nat /\ b[2] \in Nat
      /\ ContributedNode(NodeOf(c0, a)) /\ ContributedNode(NodeOf(c0, b))
  BY MemberNode
<1>2. \A c \in Confidence : Rank(c) \in 1..5
  BY DEF Rank, Confidence
<1>3. RankOf(c0, a) \in 1..5 /\ RankOf(c0, b) \in 1..5
  BY <1>1, <1>2 DEF RankOf, ContributedNode
<1> DEFINE r == RankOf(c0, a)
           s == RankOf(c0, b)
<1>4. Precedes(c0, a, b) <=>
        IF r # s THEN r > s ELSE IF a[1] # b[1] THEN a[1] < b[1] ELSE a[2] < b[2]
  BY DEF Precedes, RankOf
<1>5. r \in Nat /\ s \in Nat
  BY <1>3
<1> HIDE DEF r, s
<1>6. Precedes(c0, a, b) <=> \/ r > s
                             \/ r = s /\ a[1] < b[1]
                             \/ r = s /\ a[1] = b[1] /\ a[2] < b[2]
  BY <1>1, <1>4, <1>5
<1>7. a[1] = b[1] /\ a[2] = b[2] => a = b
  BY <1>1
<1> QED
  BY <1>1, <1>3, <1>6, <1>7 DEF r, s

\* Of any members one comes first.
LEMMA ForemostIn ==
  ASSUME NEW c0, Contributions(c0), NEW S, S \subseteq Members(c0), S # {}
  PROVE  /\ Foremost(c0, S) \in S
         /\ \A o \in S \ {Foremost(c0, S)} : Precedes(c0, Foremost(c0, S), o)
<1> DEFINE rank(m) == RankOf(c0, m)
           A == {5 - rank(m) : m \in S}
<1>1. \A m \in S : rank(m) \in 1..5 /\ m[1] \in Nat /\ m[2] \in Nat
  BY PrecedesDef
<1> HIDE DEF rank
<1>2. PICK a \in A : \A x \in A : a <= x
  <2>1. A \subseteq Nat /\ A # {}
    BY <1>1
  <2> HIDE DEF A
  <2> QED
    BY <2>1, LeastExists
<1> DEFINE T == {m \in S : 5 - rank(m) = a}
           B == {m[1] : m \in T}
<1>3. PICK b \in B : \A x \in B : b <= x
  <2>1. B \subseteq Nat /\ B # {}
    BY <1>1, <1>2
  <2> HIDE DEF B
  <2> QED
    BY <2>1, LeastExists
<1> DEFINE V == {m \in T : m[1] = b}
           C == {m[2] : m \in V}
<1>4. PICK c \in C : \A x \in C : c <= x
  <2>1. C \subseteq Nat /\ C # {}
    BY <1>1, <1>3
  <2> HIDE DEF C
  <2> QED
    BY <2>1, LeastExists
<1>5. PICK f \in V : f[2] = c
  BY <1>4
<1>6. f \in S /\ 5 - rank(f) = a /\ f[1] = b /\ f[2] = c
  BY <1>5
<1>7. ASSUME NEW o \in S \ {f} PROVE Precedes(c0, f, o)
  <2>1. rank(f) \in 1..5 /\ rank(o) \in 1..5 /\ a <= 5 - rank(o)
    BY <1>1, <1>2, <1>6
  <2>2. rank(f) = rank(o) => b <= o[1]
    BY <1>3, <1>6
  <2>3. rank(f) = rank(o) /\ o[1] = b => c <= o[2]
    BY <1>4, <1>6
  <2>4. f[1] = o[1] /\ f[2] = o[2] => f = o
    BY <1>6, PrecedesDef
  <2>5. Precedes(c0, f, o) <=>
              \/ rank(f) > rank(o)
              \/ rank(f) = rank(o) /\ f[1] < o[1]
              \/ rank(f) = rank(o) /\ f[1] = o[1] /\ f[2] < o[2]
    BY <1>6, PrecedesDef DEF rank
  <2>6. f[1] \in Nat /\ f[2] \in Nat /\ o[1] \in Nat /\ o[2] \in Nat
    BY <1>1, <1>6
  <2> HIDE DEF A, B, C, T, V
  <2> QED
    BY <1>6, <2>1, <2>2, <2>3, <2>4, <2>5, <2>6
<1>8. \E m \in S : \A o \in S \ {m} : Precedes(c0, m, o)
  BY <1>6, <1>7
<1> QED
  BY <1>8 DEF Foremost

\* Only one comes first.
LEMMA ForemostOnly ==
  ASSUME NEW c0, Contributions(c0), NEW S, S \subseteq Members(c0), NEW f \in S,
         \A o \in S \ {f} : Precedes(c0, f, o)
  PROVE  Foremost(c0, S) = f
<1> DEFINE x == Foremost(c0, S)
<1>1. x \in S /\ \A o \in S \ {x} : Precedes(c0, x, o)
  BY ForemostIn
<1> HIDE DEF x
<1>2. ASSUME x # f PROVE FALSE
  <2>1. Precedes(c0, x, f) /\ Precedes(c0, f, x)
    BY <1>1, <1>2
  <2>2. /\ RankOf(c0, x) \in 1..5 /\ RankOf(c0, f) \in 1..5
        /\ x[1] \in Nat /\ x[2] \in Nat /\ f[1] \in Nat /\ f[2] \in Nat
        /\ \/ RankOf(c0, x) > RankOf(c0, f)
           \/ RankOf(c0, x) = RankOf(c0, f) /\ x[1] < f[1]
           \/ RankOf(c0, x) = RankOf(c0, f) /\ x[1] = f[1] /\ x[2] < f[2]
    BY <1>1, <2>1, PrecedesDef
  <2>3. \/ RankOf(c0, f) > RankOf(c0, x)
        \/ RankOf(c0, f) = RankOf(c0, x) /\ f[1] < x[1]
        \/ RankOf(c0, f) = RankOf(c0, x) /\ f[1] = x[1] /\ f[2] < x[2]
    BY <1>1, <2>1, PrecedesDef
  <2> QED
    BY <2>2, <2>3
<1> QED
  BY <1>2 DEF x

-----------------------------------------------------------------------------
(* The identity of a merged node.                                          *)

LEMMA GroupMembers ==
  ASSUME NEW c0, Contributions(c0), NEW k \in GroupKeys(c0)
  PROVE  /\ Groups(c0)[k] = {m \in Ingested(c0) : KeyOf(c0, m) = k}
         /\ Groups(c0)[k] \subseteq Members(c0) /\ Groups(c0)[k] # {}
         /\ \A m \in Groups(c0)[k] : KeyOf(c0, m) = k /\ ContributedNode(NodeOf(c0, m))
<1>1. GroupKeys(c0) = {KeyOf(c0, m) : m \in Ingested(c0)}
  BY DEF GroupKeys, Groups
<1>2. Groups(c0)[k] = {m \in Ingested(c0) : KeyOf(c0, m) = k}
  BY <1>1 DEF Groups
<1>3. Groups(c0)[k] \subseteq Members(c0) /\ Groups(c0)[k] # {}
  BY <1>1, <1>2, IngestedMembers
<1> QED
  BY <1>2, <1>3, MemberNode

\* An identity of a merged node is one a member reports, 0 if none does.
LEMMA MergedNative ==
  ASSUME NEW c0, Contributions(c0), NEW S, S \subseteq Members(c0)
  PROVE  /\ merge_native(c0, S) \in Natives
         /\ \A f \in {"pci", "storage", "net", "cuda", "machine", "numa"} :
              \/ /\ merge_native(c0, S)[f] = 0
                 /\ \A m \in S : NodeOf(c0, m).native[f] = 0
              \/ \E m \in S : /\ NodeOf(c0, m).native[f] # 0
                              /\ merge_native(c0, S)[f] = NodeOf(c0, m).native[f]
<1> DEFINE Ids == {"pci", "storage", "net", "cuda", "machine", "numa"}
           native == merge_native(c0, S)
           known(f) == {m \in S : NodeOf(c0, m).native[f] # 0}
<1>1. native = [f \in Ids |-> IF known(f) = {} THEN 0
                              ELSE NodeOf(c0, Foremost(c0, known(f))).native[f]]
  BY DEF merge_native
<1>2. ASSUME NEW f \in Ids
      PROVE  \/ native[f] = 0 /\ \A m \in S : NodeOf(c0, m).native[f] = 0
             \/ \E m \in S : NodeOf(c0, m).native[f] # 0 /\ native[f] = NodeOf(c0, m).native[f]
  <2>0. native[f] = IF known(f) = {} THEN 0 ELSE NodeOf(c0, Foremost(c0, known(f))).native[f]
    BY <1>1
  <2>1. CASE known(f) = {}
    BY <2>0, <2>1
  <2>2. CASE known(f) # {}
    <3>1. known(f) \subseteq Members(c0)
      OBVIOUS
    <3>2. Foremost(c0, known(f)) \in known(f)
      <4> HIDE DEF known
      <4> QED
        BY <2>2, <3>1, ForemostIn
    <3> HIDE DEF native
    <3> QED
      BY <2>0, <2>2, <3>2
  <2> QED
    BY <2>1, <2>2
<1>3. \A m \in S : \A f \in Ids : NodeOf(c0, m).native[f] \in 0..(KeySpan - 1)
  BY MemberNode DEF ContributedNode
<1>4. 0 \in 0..(KeySpan - 1)
  BY KeySpanAssumption
<1>5. \A f \in Ids : native[f] \in 0..(KeySpan - 1)
  BY <1>2, <1>3, <1>4
<1>6. native \in Natives
  <2>1. native = [f \in Ids |-> native[f]]
    BY <1>1
  <2> HIDE DEF native
  <2> QED
    BY <1>5, <2>1 DEF Natives
<1> QED
  BY <1>2, <1>6

LEMMA MergeGroupFields ==
  ASSUME NEW c0, NEW S
  PROVE  /\ MergeGroup(c0, S).type = NodeOf(c0, BestTyped(c0, S)).type
         /\ MergeGroup(c0, S).key = canonical_key(merge_native(c0, S))
         /\ MergeGroup(c0, S).numa = merge_native(c0, S)["numa"]
         /\ MergeGroup(c0, S).caps = UNION {NodeOf(c0, m).caps : m \in S}
         /\ MergeGroup(c0, S).conf = NodeOf(c0, Foremost(c0, S)).conf
         /\ MergeGroup(c0, S).provider = NodeOf(c0, Foremost(c0, S)).provider
         /\ MergeGroup(c0, S).props = merge_properties(c0, S)
<1> DEFINE t == NodeOf(c0, BestTyped(c0, S)).type
           k == canonical_key(merge_native(c0, S))
           u == merge_native(c0, S)["numa"]
           c == UNION {NodeOf(c0, m).caps : m \in S}
           f == NodeOf(c0, Foremost(c0, S)).conf
           v == NodeOf(c0, Foremost(c0, S)).provider
           w == merge_properties(c0, S)
<1>1. MergeGroup(c0, S) = [type |-> t, key |-> k, numa |-> u, caps |-> c, conf |-> f,
                           provider |-> v, props |-> w]
  BY DEF MergeGroup
<1> HIDE DEF t, k, u, c, f, v, w
<1>2. /\ MergeGroup(c0, S).type = t /\ MergeGroup(c0, S).key = k /\ MergeGroup(c0, S).numa = u
      /\ MergeGroup(c0, S).caps = c /\ MergeGroup(c0, S).conf = f
      /\ MergeGroup(c0, S).provider = v /\ MergeGroup(c0, S).props = w
  BY <1>1
<1> QED
  BY <1>2 DEF t, k, u, c, f, v, w

\* The identity that leads is unique.
LEMMA OneLeads ==
  ASSUME NEW native, NEW i \in 1..5, NEW j \in 1..5, Leads(native, i), Leads(native, j)
  PROVE  i = j
BY DEF Leads

\* A merged node carries the identity its group is named after, or none.
LEMMA MergedKey ==
  ASSUME NEW c0, Contributions(c0), NEW k \in GroupKeys(c0)
  PROVE  canonical_key(merge_native(c0, Groups(c0)[k])) \in {0, k}
<1> DEFINE S == Groups(c0)[k]
           native == merge_native(c0, S)
           N(m) == NodeOf(c0, m).native
           IP(i) == IdentityPriority[i]
           R(i) == PrefixRank[IdentityPriority[i]]
<1>1. /\ S \subseteq Members(c0) /\ S # {}
      /\ \A m \in S : KeyOf(c0, m) = k /\ ContributedNode(NodeOf(c0, m))
  BY GroupMembers
<1>2. native \in Natives
  BY <1>1, MergedNative
<1>3. ASSUME NEW i \in 1..5
      PROVE  \/ native[IP(i)] = 0 /\ \A m \in S : N(m)[IP(i)] = 0
             \/ \E m \in S : N(m)[IP(i)] # 0 /\ native[IP(i)] = N(m)[IP(i)]
  <2>1. IP(i) \in {"pci", "storage", "net", "cuda", "machine", "numa"}
    BY Priorities
  <2> HIDE DEF IP, S
  <2> QED
    BY <1>1, <2>1, MergedNative
<1>4. ASSUME NEW m \in S
      PROVE  \/ k >= KeySpan * 6 /\ \A i \in 1..5 : N(m)[IP(i)] = 0
             \/ \E i \in 1..5 : Leads(N(m), i) /\ k = KeySpan * R(i) + N(m)[IP(i)]
  <2>1. KeyOf(c0, m) = group_key(NodeOf(c0, m)) /\ KeyOf(c0, m) = k
    BY <1>1 DEF KeyOf
  <2> QED
    BY <1>1, <2>1, GroupKey
<1>5. ASSUME NEW m \in S, NEW i \in 1..5
      PROVE  R(i) \in 1..5 /\ N(m)[IP(i)] \in 0..(KeySpan - 1)
  BY <1>1, Priorities DEF ContributedNode
<1>6. PICK m0 \in S : TRUE
  BY <1>1
<1>7. \/ canonical_key(native) = 0 /\ \A i \in 1..5 : native[IP(i)] = 0
      \/ \E i \in 1..5 : Leads(native, i) /\ canonical_key(native) = KeySpan * R(i) + native[IP(i)]
  BY <1>2, CanonicalKey
<1> HIDE DEF S, native, N, IP, R
<1>8. CASE k >= KeySpan * 6
  <2>1. ASSUME NEW m \in S, NEW i \in 1..5, Leads(N(m), i), k = KeySpan * R(i) + N(m)[IP(i)]
        PROVE  FALSE
    <3>1. k < KeySpan * 6 /\ k \in Nat
      BY <1>5, <2>1, KeyParts
    <3>2. KeySpan * 6 \in Nat
      BY KeySpanAssumption
    <3> QED
      BY <1>8, <3>1, <3>2
  <2>2. \A m \in S : \A i \in 1..5 : N(m)[IP(i)] = 0
    BY <1>4, <2>1
  <2>3. \A i \in 1..5 : native[IP(i)] = 0
    BY <1>3, <2>2
  <2>4. \A i \in 1..5 : ~ Leads(native, i)
    BY <2>3 DEF Leads, IP
  <2>5. canonical_key(native) = 0
    BY <1>7, <2>4
  <2> QED
    BY <2>5 DEF native, S
<1>9. CASE ~ (k >= KeySpan * 6)
  <2>1. PICK i \in 1..5 : Leads(N(m0), i) /\ k = KeySpan * R(i) + N(m0)[IP(i)]
    BY <1>4, <1>6, <1>9
  <2>2. ASSUME NEW m \in S PROVE Leads(N(m), i) /\ N(m)[IP(i)] = N(m0)[IP(i)]
    <3>1. PICK j \in 1..5 : Leads(N(m), j) /\ k = KeySpan * R(j) + N(m)[IP(j)]
      BY <1>4, <1>9
    <3>2. R(j) = R(i) /\ N(m)[IP(j)] = N(m0)[IP(i)]
      <4> DEFINE r == R(j)
                 s == R(i)
                 v == N(m)[IP(j)]
                 w == N(m0)[IP(i)]
      <4>1. r \in 1..5 /\ s \in 1..5 /\ v \in 0..(KeySpan - 1) /\ w \in 0..(KeySpan - 1)
        BY <1>5
      <4>2. KeySpan * r + v = KeySpan * s + w
        BY <2>1, <3>1
      <4> HIDE DEF r, s, v, w
      <4>3. r = s /\ v = w
        BY <4>1, <4>2, KeyParts
      <4> QED
        BY <4>3 DEF r, s, v, w
    <3>3. j = i
      BY <3>2, Priorities DEF R
    <3> QED
      BY <3>1, <3>2, <3>3
  <2>3. N(m0)[IP(i)] # 0 /\ \A m \in S : \A j \in 1..5 : j < i => N(m)[IP(j)] = 0
    BY <2>1, <2>2 DEF Leads, IP
  <2>4. native[IP(i)] = N(m0)[IP(i)]
    BY <1>3, <1>6, <2>2, <2>3
  <2>5. \A j \in 1..5 : j < i => native[IP(j)] = 0
    BY <1>3, <2>3
  <2>6. Leads(native, i)
    BY <2>3, <2>4, <2>5 DEF Leads, IP
  <2>7. PICK j \in 1..5 : Leads(native, j) /\ canonical_key(native) = KeySpan * R(j) + native[IP(j)]
    BY <1>7, <2>3, <2>4
  <2>8. j = i
    BY <2>6, <2>7, OneLeads
  <2>9. canonical_key(native) = k
    BY <2>1, <2>4, <2>7, <2>8
  <2> QED
    BY <2>9 DEF native, S
<1> QED
  BY <1>8, <1>9

-----------------------------------------------------------------------------
(* Within the bounds.                                                      *)

\* Unbounded, of any contributions.
Fits(c0) ==
  Cardinality(AllKeys(c0)) <= MaxNodes /\ 2 * Len(ContributedEdges(c0)) <= MaxEdges

\* A ref resolves to a group.
LEMMA PickedGroup ==
  ASSUME NEW c0, NEW p \in RefChoices(c0), NEW r \in DOMAIN p
  PROVE  p[r] \in GroupKeys(c0)
<1> DEFINE d == Declarers(c0)
           shared == {x \in DOMAIN d : Cardinality(d[x]) > 1}
<1>1. PICK q \in {f \in [shared -> UNION {d[x] : x \in shared}] : \A x \in shared : f[x] \in d[x]} :
        p = [x \in DOMAIN d |-> IF x \in shared THEN q[x] ELSE CHOOSE k \in d[x] : TRUE]
  BY DEF RefChoices
<1>2. \A x \in shared : q[x] \in d[x]
  BY <1>1
<1>3. /\ DOMAIN d = {NodeOf(c0, m).ref : m \in Ingested(c0)}
      /\ \A x \in DOMAIN d :
           d[x] = {KeyOf(c0, m) : m \in {n \in Ingested(c0) : NodeOf(c0, n).ref = x}}
  BY DEF Declarers
<1>4. GroupKeys(c0) = {KeyOf(c0, m) : m \in Ingested(c0)}
  BY DEF GroupKeys, Groups
<1>5. \A x \in DOMAIN d : d[x] \subseteq GroupKeys(c0) /\ d[x] # {}
  <2> TAKE x \in DOMAIN d
  <2>1. PICK m \in Ingested(c0) : NodeOf(c0, m).ref = x
    BY <1>3
  <2>2. d[x] = {KeyOf(c0, n) : n \in {o \in Ingested(c0) : NodeOf(c0, o).ref = x}}
    BY <1>3
  <2>3. KeyOf(c0, m) \in d[x]
    BY <2>1, <2>2
  <2>4. d[x] \subseteq GroupKeys(c0)
    BY <1>4, <2>2
  <2> QED
    BY <2>3, <2>4
<1> HIDE DEF d, shared
<1>6. r \in DOMAIN d
  BY <1>1
<1>7. p[r] = IF r \in shared THEN q[r] ELSE CHOOSE k \in d[r] : TRUE
  BY <1>1, <1>6
<1>8. p[r] \in d[r]
  BY <1>2, <1>5, <1>6, <1>7
<1> QED
  BY <1>5, <1>6, <1>8

\* Every group is kept and every resolvable edge fits.
LEMMA NothingDropped ==
  ASSUME NEW c0, Contributions(c0), Fits(c0), NEW p
  PROVE  /\ KeptGroups(c0) = GroupKeys(c0)
         /\ DOMAIN ResolvedEdges(c0, p) = ResolvableEdges(c0, p)
<1> DEFINE es == ContributedEdges(c0)
           I == ResolvableEdges(c0, p)
<1>1. KeptGroups(c0) = GroupKeys(c0)
  BY KeptBound DEF Fits
<1>2. Len(es) \in Nat /\ DOMAIN es = 1..Len(es) /\ 2 * Len(es) <= MaxEdges
  BY ContributedEdgesType DEF Fits
<1>3. /\ I \subseteq DOMAIN es /\ IsFiniteSet(I)
      /\ Cardinality(I) <= MaxEdges => DOMAIN ResolvedEdges(c0, p) = I
  BY Resolved
<1> HIDE DEF es, I
<1>4. I \in SUBSET (1..Len(es)) /\ IsFiniteSet(1..Len(es))
  BY <1>2, <1>3, UpTo
<1>5. Cardinality(1..Len(es)) = Len(es)
  BY <1>2, UpTo
<1>6. Cardinality(I) <= Len(es) /\ Cardinality(I) \in Nat
  BY <1>3, <1>4, <1>5, FS_Subset, FS_CardinalityType
<1>7. Cardinality(I) <= MaxEdges
  BY <1>2, <1>6, BoundsAssumption
<1> QED
  BY <1>1, <1>3, <1>7 DEF I

\* A resolvable ref leads to a node of the merged graph.
LEMMA ResolveKept ==
  ASSUME NEW c0, Contributions(c0), Fits(c0), NEW p \in RefChoices(c0), NEW r,
         Resolvable(KeptGroups(c0), p, r)
  PROVE  Resolve(KeptGroups(c0), p, r) \in KeptGroups(c0)
<1>1. KeptGroups(c0) = GroupKeys(c0)
  BY NothingDropped
<1>2. CASE r \in KeptGroups(c0)
  BY <1>2 DEF Resolve
<1>3. CASE r \notin KeptGroups(c0)
  <2>1. r \in DOMAIN p
    BY <1>3 DEF Resolvable
  <2>2. p[r] \in KeptGroups(c0)
    BY <1>1, <2>1, PickedGroup
  <2> QED
    BY <1>3, <2>2 DEF Resolve
<1> QED
  BY <1>2, <1>3

\* Both ends of a merged edge are nodes.
LEMMA MergedEnds ==
  ASSUME NEW c0, Contributions(c0), Fits(c0), NEW p \in RefChoices(c0),
         NEW g, g = MergeContributions(c0, p), NEW i \in DOMAIN g.edges
  PROVE  /\ g.edges[i].source \in DOMAIN g.nodes /\ g.edges[i].target \in DOMAIN g.nodes
         /\ g.edges[i].type = ContributedEdges(c0)[i].type
         /\ g.edges[i].direction = ContributedEdges(c0)[i].direction
<1> DEFINE kept == KeptGroups(c0)
           e == ContributedEdges(c0)[i]
           s == Resolve(kept, p, e.from)
           t == Resolve(kept, p, e.to)
<1>1. DOMAIN g.nodes = kept
  BY MergeShape
<1>2. i \in DOMAIN ResolvedEdges(c0, p) /\ g.edges[i] = ResolvedEdges(c0, p)[i]
  BY MergeBounds
<1>3. i \in ResolvableEdges(c0, p) /\ ResolvedEdges(c0, p)[i] = ResolvedEdge(kept, p, e)
  BY <1>2, Resolved
<1>4. Resolvable(kept, p, e.from) /\ Resolvable(kept, p, e.to)
  BY <1>3 DEF ResolvableEdges
<1>5. s \in kept /\ t \in kept
  BY <1>4, ResolveKept
<1>6. g.edges[i] = [source |-> s, target |-> t, type |-> e.type, direction |-> e.direction,
                    link |-> e.link]
  BY <1>2, <1>3 DEF ResolvedEdge
<1> HIDE DEF s, t, e
<1>7. /\ g.edges[i].source = s /\ g.edges[i].target = t
      /\ g.edges[i].type = e.type /\ g.edges[i].direction = e.direction
  BY <1>6
<1> QED
  BY <1>1, <1>5, <1>7 DEF e

\* The merged graph is well formed.
LEMMA PipelineWellFormed ==
  ASSUME NEW c0, Contributions(c0), Fits(c0), NEW p \in RefChoices(c0),
         NEW g, g = MergeContributions(c0, p)
  PROVE  /\ DanglingEnds(g) = {}
         /\ \A i \in Positions(g.edges) : IsFirst(g.edges, i)
         /\ DuplicateIdentities(g) = 0
         /\ \A i \in DOMAIN ContributedEdges(c0) :
              {ContributedEdges(c0)[i].from, ContributedEdges(c0)[i].to}
                \subseteq DOMAIN p \cup DOMAIN g.nodes =>
              EdgeKey(ResolvedEdge(DOMAIN g.nodes, p, ContributedEdges(c0)[i])) \in EdgeKeys(g.edges)
<1> DEFINE kept == KeptGroups(c0)
           R == ResolvedEdges(c0, p)
           es == ContributedEdges(c0)
           end == Len(es)
<1>1. /\ DOMAIN g.nodes = kept /\ kept = GroupKeys(c0)
      /\ \A k \in kept : g.nodes[k] = MergeGroup(c0, Groups(c0)[k])
  BY MergeShape, NothingDropped
<1>2. /\ \A i \in Positions(g.edges) : IsFirst(g.edges, i)
      /\ EdgeKeys(g.edges) = EdgeKeys(R) /\ Vectored(g.edges, end)
  BY MergeBounds
<1>3. end \in Nat
  BY ContributedEdgesType
<1>4. Positions(g.edges) = DOMAIN g.edges
  <2> HIDE DEF end
  <2> QED
    BY <1>2, <1>3, VectoredPositions
<1>5. DanglingEnds(g) = {}
  <2>1. ASSUME NEW x \in Positions(g.edges) \X {"source", "target"}
        PROVE  g.edges[x[1]][x[2]] \in DOMAIN g.nodes
    <3>1. x[1] \in DOMAIN g.edges /\ (x[2] = "source" \/ x[2] = "target")
      BY <1>4
    <3> QED
      BY <3>1, MergedEnds
  <2> QED
    BY <2>1 DEF DanglingEnds
<1>6. DuplicateIdentities(g) = 0
  <2> DEFINE keyed == {n \in DOMAIN g.nodes : g.nodes[n].key # 0}
             keys == {g.nodes[n].key : n \in keyed}
  <2>1. ASSUME NEW k \in kept PROVE g.nodes[k].key \in {0, k}
    <3>1. g.nodes[k].key = canonical_key(merge_native(c0, Groups(c0)[k]))
      BY <1>1, MergeGroupFields
    <3> QED
      BY <1>1, <3>1, MergedKey
  <2>2. keys = keyed
    BY <1>1, <2>1
  <2>3. DuplicateIdentities(g) = Cardinality(keyed) - Cardinality(keys)
    BY DEF DuplicateIdentities
  <2>4. Cardinality(keyed) \in Nat
    <3>1. keyed \in SUBSET DOMAIN g.nodes /\ IsFiniteSet(DOMAIN g.nodes)
      BY MergeBounds
    <3> HIDE DEF keyed
    <3> QED
      BY <3>1, FS_Subset, FS_CardinalityType
  <2> HIDE DEF keyed, keys
  <2> QED
    BY <2>2, <2>3, <2>4
<1>7. ASSUME NEW i \in DOMAIN es, {es[i].from, es[i].to} \subseteq DOMAIN p \cup kept
      PROVE  EdgeKey(ResolvedEdge(kept, p, es[i])) \in EdgeKeys(g.edges)
  <2>1. i \in ResolvableEdges(c0, p)
    BY <1>7 DEF ResolvableEdges, Resolvable
  <2>2. i \in DOMAIN R /\ R[i] = ResolvedEdge(kept, p, es[i])
    BY <2>1, NothingDropped, Resolved
  <2>3. i \in Nat
    BY ContributedEdgesType
  <2>4. EdgeKey(R[i]) \in EdgeKeys(R)
    BY <2>2, <2>3 DEF EdgeKeys, Positions
  <2> QED
    BY <1>2, <2>2, <2>4
<1> QED
  BY <1>1, <1>2, <1>5, <1>6, <1>7

-----------------------------------------------------------------------------
(* Comparing a discovered graph with itself.                               *)

\* Containment is not contributed as symmetric.
Contained(c0) ==
  \A k \in DOMAIN c0 : \A i \in DOMAIN c0[k].edges :
    c0[k].edges[i].type = "CONTAINS" => c0[k].edges[i].direction = "DIRECTED"

LEMMA MergedContains ==
  ASSUME NEW c0, Contributions(c0), Contained(c0), NEW p, NEW g, g = MergeContributions(c0, p),
         NEW i \in DOMAIN g.edges, g.edges[i].type = "CONTAINS"
  PROVE  g.edges[i].direction = "DIRECTED"
<1> DEFINE kept == KeptGroups(c0)
           es == ContributedEdges(c0)
           e == es[i]
<1>1. i \in DOMAIN ResolvedEdges(c0, p) /\ g.edges[i] = ResolvedEdges(c0, p)[i]
  BY MergeBounds
<1>2. i \in DOMAIN es /\ ResolvedEdges(c0, p)[i] = ResolvedEdge(kept, p, e)
  BY <1>1, Resolved
<1>3. e \in EdgesOf(c0)
  <2>1. es \in Seq(EdgesOf(c0)) /\ Len(es) \in Nat /\ DOMAIN es = 1..Len(es)
    BY ContributedEdgesType
  <2> HIDE DEF es
  <2> QED
    BY <1>2, <2>1
<1>4. e.type = "CONTAINS" => e.direction = "DIRECTED"
  BY <1>3 DEF EdgesOf, Contained
<1>5. g.edges[i].type = e.type /\ g.edges[i].direction = e.direction
  <2> HIDE DEF e
  <2> QED
    BY <1>1, <1>2 DEF ResolvedEdge
<1> QED
  BY <1>4, <1>5

\* Without repeated keys a graph compared with itself shows nothing.
LEMMA QuietSelf ==
  ASSUME NEW a, UniqueKeys(a)
  PROVE  NoEvents(a, a)
<1>1. EdgePropertyChanged(a, a) = {}
  <2> SUFFICES ASSUME NEW j \in Positions(a.edges), NEW i \in Positions(a.edges),
                      EdgeKey(a.edges[i]) = EdgeKey(a.edges[j])
               PROVE  a.edges[i].link = a.edges[j].link
    BY DEF EdgePropertyChanged
  <2>1. i \in Nat /\ j \in Nat
    BY DEF Positions
  <2>2. i = j
    BY <2>1 DEF UniqueKeys, IsFirst
  <2> QED
    BY <2>2
<1>2. NodePropertyChanged(a, a) = {}
  BY DEF NodePropertyChanged, CommonNodes
<1>3. /\ NodeAdded(a, a) = {} /\ NodeRemoved(a, a) = {} /\ EdgeAdded(a, a) = {}
      /\ EdgeRemoved(a, a) = {}
  BY DEF NodeAdded, NodeRemoved, EdgeAdded, EdgeRemoved
<1>4. CapabilityChanged(a, a) = {} /\ LocalityChanged(a, a) = {} /\ ProviderChanged(a, a) = {}
  BY DEF CapabilityChanged, LocalityChanged, ProviderChanged
<1> QED
  BY <1>1, <1>2, <1>3, <1>4 DEF NoEvents, MaterialChange

\* An attach edge never repeats a key.
LEMMA AttachedKeys ==
  ASSUME NEW c0, NEW p, NEW g, NEW h, Pipeline(c0, p, g, h), Contained(c0),
         NEW i \in DOMAIN h.edges, NEW j \in DOMAIN h.edges, j < i
  PROVE  EdgeKey(h.edges[j]) # EdgeKey(h.edges[i])
<1> DEFINE end == Len(ContributedEdges(c0))
<1>1. Contributions(c0) /\ g = MergeContributions(c0, p)
  BY DEF Pipeline
<1>2. end \in Nat /\ DOMAIN g.edges \subseteq 1..end /\ Positions(g.edges) = DOMAIN g.edges
  <2>1. end \in Nat /\ Vectored(g.edges, end)
    BY <1>1, ContributedEdgesType, MergeBounds
  <2> HIDE DEF end
  <2> QED
    BY <2>1, VectoredPositions DEF Vectored
<1>3. \A x \in DOMAIN g.edges : \A y \in DOMAIN g.edges :
        y < x => EdgeKey(g.edges[y]) # EdgeKey(g.edges[x])
  <2>1. \A x \in Positions(g.edges) : IsFirst(g.edges, x)
    BY <1>1, MergeBounds
  <2> QED
    BY <1>2, <2>1 DEF IsFirst
<1>4. CASE h = g
  BY <1>3, <1>4
<1>5. ASSUME NEW m \in Machines(g), Attached(g, m, h, end)
      PROVE  EdgeKey(h.edges[j]) # EdgeKey(h.edges[i])
  <2> DEFINE new == DOMAIN h.edges \ DOMAIN g.edges
  <2>1. /\ DOMAIN h.edges \subseteq Nat
        /\ \A x \in DOMAIN g.edges : h.edges[x] = g.edges[x]
        /\ \A x \in new : /\ x > end
                          /\ h.edges[x].source = m /\ h.edges[x].target \in Unparented(g, m)
                          /\ h.edges[x].type = "CONTAINS" /\ h.edges[x].direction = "DIRECTED"
        /\ \A x, y \in new : h.edges[x].target = h.edges[y].target => x = y
    BY <1>5 DEF Attached
  <2>2. \A x \in new : EdgeKey(h.edges[x]) =
                         [source |-> m, target |-> h.edges[x].target, type |-> "CONTAINS"]
    BY <2>1 DEF EdgeKey
  <2>3. CASE i \in DOMAIN g.edges /\ j \in DOMAIN g.edges
    BY <1>3, <2>1, <2>3
  <2>4. CASE i \in DOMAIN g.edges /\ j \in new
    <3>1. i <= end /\ i \in Nat /\ j > end /\ j \in Nat
      BY <1>2, <2>1, <2>4
    <3> QED
      BY <1>2, <3>1
  <2>5. CASE i \in new /\ j \in DOMAIN g.edges
    <3> SUFFICES ASSUME EdgeKey(h.edges[j]) = EdgeKey(h.edges[i]) PROVE FALSE
      OBVIOUS
    <3> DEFINE e == g.edges[j]
               n == h.edges[i].target
    <3>1. EdgeKey(e) = [source |-> m, target |-> n, type |-> "CONTAINS"]
      BY <2>1, <2>2, <2>5
    <3>2. e.type = "CONTAINS"
      <4> HIDE DEF e, n
      <4> QED
        BY <3>1 DEF EdgeKey
    <3>3. e.direction = "DIRECTED"
      BY <1>1, <2>5, <3>2, MergedContains
    <3>4. e.target = n
      <4> HIDE DEF e, n
      <4> QED
        BY <3>1, <3>3 DEF EdgeKey
    <3>5. e \in EdgeSet(g.edges)
      BY <1>2, <2>5 DEF EdgeSet
    <3>6. n \in Parented(g)
      <4> HIDE DEF e, n
      <4> QED
        BY <3>2, <3>4, <3>5 DEF Parented
    <3>7. n \in Unparented(g, m)
      BY <2>1, <2>5
    <3> QED
      BY <3>6, <3>7 DEF Unparented
  <2>6. CASE i \in new /\ j \in new
    <3> SUFFICES ASSUME EdgeKey(h.edges[j]) = EdgeKey(h.edges[i]) PROVE FALSE
      OBVIOUS
    <3>1. h.edges[j].target = h.edges[i].target
      <4> DEFINE t == h.edges[j].target
                 u == h.edges[i].target
                 K(x) == [source |-> m, target |-> x, type |-> "CONTAINS"]
      <4>1. K(t) = K(u)
        BY <2>2, <2>6
      <4> HIDE DEF t, u
      <4>2. K(t).target = K(u).target
        BY <4>1
      <4>3. t = u
        BY <4>2
      <4> QED
        BY <4>3 DEF t, u
    <3>2. i = j /\ i \in Nat
      BY <2>1, <2>6, <3>1
    <3> QED
      BY <3>2
  <2> QED
    BY <2>3, <2>4, <2>5, <2>6
<1> QED
  BY <1>4, <1>5, PipelineShape

-----------------------------------------------------------------------------
(* Nothing is left out.                                                    *)

\* The keys contribution c adds to those of gs.
ReadKeys(c0, c, gs) ==
  {KeyOf(c0, <<c, i>>) : i \in {j \in DOMAIN c0[c].nodes : Admits(c0, c, gs, j)}}

LEMMA ReadKeysKnown ==
  ASSUME NEW c0, NEW c \in DOMAIN c0, NEW gs
  PROVE  ReadKeys(c0, c, gs) \subseteq AllKeys(c0)
<1>1. \A i \in DOMAIN c0[c].nodes : <<c, i>> \in Members(c0)
  BY DEF Members
<1> QED
  BY <1>1 DEF ReadKeys, AllKeys

\* The groups after any number of contributions are groups of contributed nodes.
LEMMA GroupsAfterKnown ==
  ASSUME NEW c0, Contributions(c0), NEW c \in 0..Len(c0)
  PROVE  GroupsAfter(c0)[c] \subseteq AllKeys(c0)
<1> DEFINE n == Len(c0)
           U == SUBSET AllKeys(c0)
           G == [q \in Nat \X U |-> IF q[1] \in 1..n THEN q[2] \cup ReadKeys(c0, q[1], q[2]) ELSE q[2]]
           x0 == {}
           step(f, k) == IF k = 0 THEN {} ELSE f[k - 1] \cup ReadKeys(c0, k, f[k - 1])
           Eq(f) == f = [k \in 0..n |-> step(f, k)]
           after == CHOOSE f : Eq(f)
<1>1. n \in Nat /\ DOMAIN c0 = 1..n
  BY EdgePartsType
<1>2. G \in [Nat \X U -> U] /\ x0 \in U
  <2>1. ASSUME NEW q \in Nat \X U
        PROVE  (IF q[1] \in 1..n THEN q[2] \cup ReadKeys(c0, q[1], q[2]) ELSE q[2]) \in U
    <3>1. q[2] \subseteq AllKeys(c0)
      OBVIOUS
    <3>2. q[1] \in 1..n => ReadKeys(c0, q[1], q[2]) \subseteq AllKeys(c0)
      BY <1>1, ReadKeysKnown
    <3> QED
      BY <3>1, <3>2
  <2> QED
    BY <2>1
<1>3. PICK h \in [0..n -> U] : h[0] = x0 /\ \A k \in 1..n : h[k] = G[<<k, h[k - 1]>>]
  <2> HIDE DEF G, U, x0, n
  <2>1. \E h \in [0..n -> U] : Steps(h, G, x0, n)
    BY <1>1, <1>2, StepsExist
  <2> QED
    BY <2>1 DEF Steps
<1>4. ASSUME NEW k \in 1..n PROVE h[k] = h[k - 1] \cup ReadKeys(c0, k, h[k - 1])
  <2>1. k - 1 \in 0..n
    BY <1>1
  <2>2. <<k, h[k - 1]>> \in Nat \X U
    <3> HIDE DEF U
    <3> QED
      BY <1>1, <1>3, <2>1
  <2>3. h[k] = G[<<k, h[k - 1]>>]
    BY <1>3
  <2> HIDE DEF U
  <2> QED
    BY <2>2, <2>3
<1>5. Eq(h)
  <2> DEFINE e == [k \in 0..n |-> step(h, k)]
  <2>1. ASSUME NEW k \in 0..n PROVE h[k] = e[k]
    <3>1. CASE k = 0
      BY <1>3, <3>1
    <3>2. CASE k # 0
      <4>1. k \in 1..n
        BY <1>1, <3>2
      <4> QED
        BY <1>4, <3>2, <4>1
    <3> QED
      BY <3>1, <3>2
  <2>2. h = e
    <3> HIDE DEF U
    <3> QED
      BY <1>3, <2>1
  <2> QED
    BY <2>2
<1>6. Eq(after)
  <2>1. \E x : Eq(x)
    BY <1>5
  <2> HIDE DEF Eq
  <2> QED
    BY <2>1
<1>7. \A k \in 0..n : after[k] = step(after, k)
  <2> HIDE DEF after, step
  <2> QED
    BY <1>6
<1>8. GroupsAfter(c0) = after
  BY DEF GroupsAfter, ReadKeys
<1> HIDE DEF after, Eq
<1> DEFINE Off == {k \in 0..n : ~ (after[k] \subseteq AllKeys(c0))}
<1>9. Off = {}
  <2> SUFFICES ASSUME Off # {} PROVE FALSE
    OBVIOUS
  <2>1. Off \subseteq Nat
    BY <1>1
  <2>2. PICK k \in Off : \A j \in Off : k <= j
    <3> HIDE DEF Off
    <3> QED
      BY <2>1, LeastExists
  <2>3. k \in 1..n
    <3>1. 0 \in 0..n /\ step(after, 0) = {}
      BY <1>1
    <3>2. after[0] = {}
      BY <1>7, <3>1
    <3>3. k # 0
      BY <2>2, <3>2
    <3> QED
      BY <1>1, <2>2, <3>3
  <2>4. k - 1 \in 0..n /\ ~ (k <= k - 1)
    BY <1>1, <2>3
  <2>5. after[k - 1] \subseteq AllKeys(c0)
    BY <2>2, <2>4
  <2>6. after[k] = after[k - 1] \cup ReadKeys(c0, k, after[k - 1])
    BY <1>1, <1>7, <2>3
  <2> QED
    BY <1>1, <2>2, <2>3, <2>5, <2>6, ReadKeysKnown
<1> QED
  BY <1>8, <1>9

\* Within max_nodes every contributed node is ingested.
LEMMA AllIngested ==
  ASSUME NEW c0, Contributions(c0), Cardinality(AllKeys(c0)) <= MaxNodes
  PROVE  Ingested(c0) = Members(c0)
<1>1. ASSUME NEW m \in Members(c0) PROVE Admits(c0, m[1], GroupsAfter(c0)[m[1] - 1], m[2])
  <2> DEFINE c == m[1]
             i == m[2]
             gs == GroupsAfter(c0)[c - 1]
             X == gs \cup {KeyOf(c0, <<c, j>>) : j \in 1..(i - 1)}
  <2>1. c \in DOMAIN c0 /\ i \in DOMAIN c0[c].nodes /\ c \in Nat /\ i \in Nat
    BY MemberNode
  <2>2. /\ DOMAIN c0 = 1..Len(c0) /\ Len(c0) \in Nat
        /\ DOMAIN c0[c].nodes = 1..Len(c0[c].nodes) /\ Len(c0[c].nodes) \in Nat
    BY <2>1, Vector DEF Contributions
  <2>3. c - 1 \in 0..Len(c0)
    BY <2>1, <2>2
  <2>4. gs \subseteq AllKeys(c0)
    BY <2>3, GroupsAfterKnown
  <2>5. \A j \in 1..(i - 1) : j \in DOMAIN c0[c].nodes
    BY <2>1, <2>2
  <2>6. \A j \in 1..(i - 1) : <<c, j>> \in Members(c0)
    BY <2>1, <2>5 DEF Members
  <2>7. X \in SUBSET AllKeys(c0)
    BY <2>4, <2>6 DEF AllKeys
  <2>8. IsFiniteSet(AllKeys(c0))
    BY KeysFinite
  <2> HIDE DEF X
  <2>9. /\ Cardinality(X) <= Cardinality(AllKeys(c0))
        /\ Cardinality(X) \in Nat /\ Cardinality(AllKeys(c0)) \in Nat
    BY <2>7, <2>8, FS_Subset, FS_CardinalityType
  <2>10. Cardinality(X) <= MaxNodes
    BY <2>9, BoundsAssumption
  <2> QED
    BY <2>10 DEF Admits, X
<1> QED
  BY <1>1 DEF Ingested

-----------------------------------------------------------------------------
(* Groups that mirror each other.                                          *)

LEMMA PrecedesTransitive ==
  ASSUME NEW c0, Contributions(c0), NEW a \in Members(c0), NEW b \in Members(c0),
         NEW c \in Members(c0), Precedes(c0, a, b), Precedes(c0, b, c)
  PROVE  Precedes(c0, a, c)
<1> DEFINE r == RankOf(c0, a)
           s == RankOf(c0, b)
           t == RankOf(c0, c)
<1>1. /\ r \in 1..5 /\ s \in 1..5 /\ t \in 1..5
      /\ a[1] \in Nat /\ a[2] \in Nat /\ b[1] \in Nat /\ b[2] \in Nat /\ c[1] \in Nat /\ c[2] \in Nat
  BY PrecedesDef
<1>2. r > s \/ (r = s /\ a[1] < b[1]) \/ (r = s /\ a[1] = b[1] /\ a[2] < b[2])
  BY PrecedesDef
<1>3. s > t \/ (s = t /\ b[1] < c[1]) \/ (s = t /\ b[1] = c[1] /\ b[2] < c[2])
  BY PrecedesDef
<1>4. (r > t \/ (r = t /\ a[1] < c[1]) \/ (r = t /\ a[1] = c[1] /\ a[2] < c[2])) => Precedes(c0, a, c)
  BY PrecedesDef
<1> HIDE DEF r, s, t
<1>5. r > t \/ (r = t /\ a[1] < c[1]) \/ (r = t /\ a[1] = c[1] /\ a[2] < c[2])
  BY <1>1, <1>2, <1>3
<1> QED
  BY <1>4, <1>5

\* The members T of c1 are those of S in c0, in the same order; one that is
\* there again comes after the one it repeats.
Mirrors(c0, S, c1, T, to, back) ==
  /\ Contributions(c0) /\ Contributions(c1)
  /\ S \subseteq Members(c0) /\ T \subseteq Members(c1)
  /\ \A a \in S : to[a] \in T /\ back[to[a]] = a
  /\ \A t \in T : /\ back[t] \in S /\ NodeOf(c1, t) = NodeOf(c0, back[t])
                  /\ to[back[t]] = t \/ Precedes(c1, to[back[t]], t)
  /\ \A a, b \in S : Precedes(c0, a, b) => Precedes(c1, to[a], to[b])

\* The foremost member is mirrored.
LEMMA MirrorForemost ==
  ASSUME NEW c0, NEW S, NEW c1, NEW T, NEW to, NEW back, Mirrors(c0, S, c1, T, to, back),
         NEW X, X \subseteq S, X # {}, NEW Y, Y = {t \in T : back[t] \in X}
  PROVE  NodeOf(c1, Foremost(c1, Y)) = NodeOf(c0, Foremost(c0, X))
<1> DEFINE f == Foremost(c0, X)
<1> USE DEF Mirrors
<1>1. f \in X /\ \A o \in X \ {f} : Precedes(c0, f, o)
  <2>1. X \subseteq Members(c0) /\ Contributions(c0)
    OBVIOUS
  <2> QED
    BY <2>1, ForemostIn
<1> HIDE DEF f
<1>2. f \in S /\ to[f] \in T /\ back[to[f]] = f
  BY <1>1
<1>3. to[f] \in Y /\ Y \subseteq Members(c1)
  BY <1>1, <1>2
<1>4. ASSUME NEW o \in Y \ {to[f]} PROVE Precedes(c1, to[f], o)
  <2> DEFINE s == back[o]
  <2>1. s \in X /\ s \in S /\ o \in T
    BY <1>4
  <2>2. CASE s = f
    BY <1>4, <2>1, <2>2
  <2>3. CASE s # f
    <3>1. Precedes(c0, f, s)
      BY <1>1, <2>1, <2>3
    <3>2. Precedes(c1, to[f], to[s])
      BY <1>2, <2>1, <3>1
    <3>3. to[s] \in Members(c1) /\ to[f] \in Members(c1) /\ o \in Members(c1)
      BY <1>2, <2>1
    <3>4. to[s] = o \/ Precedes(c1, to[s], o)
      BY <2>1
    <3>5. CASE Precedes(c1, to[s], o)
      <4>1. Contributions(c1)
        OBVIOUS
      <4> HIDE DEF Mirrors, s
      <4> QED
        BY <4>1, <3>2, <3>3, <3>5, PrecedesTransitive
    <3> QED
      BY <3>2, <3>4, <3>5
  <2> QED
    BY <2>2, <2>3
<1>5. Contributions(c1)
  OBVIOUS
<1>6. Foremost(c1, Y) = to[f]
  <2> DEFINE u == to[f]
  <2> HIDE DEF u, Mirrors
  <2>1. u \in Y /\ \A o \in Y \ {u} : Precedes(c1, u, o)
    BY <1>3, <1>4 DEF u
  <2>2. Foremost(c1, Y) = u
    BY <1>3, <1>5, <2>1, ForemostOnly
  <2> QED
    BY <2>2 DEF u
<1>7. NodeOf(c1, to[f]) = NodeOf(c0, f)
  BY <1>2
<1> QED
  BY <1>6, <1>7 DEF f

\* The property names members report.
Reported(c0, S) == UNION {DOMAIN NodeOf(c0, m).props : m \in S}

Reporters(c0, S, q) == {m \in S : q \in DOMAIN NodeOf(c0, m).props}

NoteNames == {"tf.merged_providers", "tf.merged_members"}

\* The value of the foremost member that reports q.
Valued(c0, S, q) == NodeOf(c0, Foremost(c0, Reporters(c0, S, q))).props[q]

LEMMA MergedProperties ==
  ASSUME NEW c0, NEW S
  PROVE  merge_properties(c0, S) =
           [q \in Reported(c0, S) \cup NoteNames |->
              IF q \in Reported(c0, S) THEN Valued(c0, S, q) ELSE MergeNotes(c0, S)[q]]
<1> DEFINE N == MergeNotes(c0, S)
           R == Reported(c0, S)
<1>1. DOMAIN N = NoteNames
  BY DEF MergeNotes, NoteNames
<1>2. merge_properties(c0, S) = [q \in R \cup DOMAIN N |-> IF q \in R THEN Valued(c0, S, q) ELSE N[q]]
  BY DEF merge_properties, Reported, Reporters, Valued
<1> HIDE DEF N, R
<1>3. merge_properties(c0, S) = [q \in R \cup NoteNames |-> IF q \in R THEN Valued(c0, S, q) ELSE N[q]]
  BY <1>1, <1>2
<1> QED
  BY <1>3 DEF N, R

\* What is known of each property of a merged node.
LEMMA MergedValues ==
  ASSUME NEW c0, NEW S
  PROVE  /\ DOMAIN merge_properties(c0, S) = Reported(c0, S) \cup NoteNames
         /\ \A q \in Reported(c0, S) : merge_properties(c0, S)[q] = Valued(c0, S, q)
         /\ \A q \in NoteNames \ Reported(c0, S) :
              merge_properties(c0, S)[q] = MergeNotes(c0, S)[q]
<1> DEFINE M == merge_properties(c0, S)
           R == Reported(c0, S)
           N == MergeNotes(c0, S)
<1>1. M = [q \in R \cup NoteNames |-> IF q \in R THEN Valued(c0, S, q) ELSE N[q]]
  BY MergedProperties
<1> HIDE DEF M, R, N
<1>2. /\ DOMAIN M = R \cup NoteNames
      /\ \A q \in R : M[q] = Valued(c0, S, q)
      /\ \A q \in NoteNames \ R : M[q] = N[q]
  BY <1>1
<1> QED
  BY <1>2 DEF M, R, N

\* Mirrored groups agree on everything but the notes.
LEMMA MirrorFacts ==
  ASSUME NEW c0, NEW S, NEW c1, NEW T, NEW to, NEW back, Mirrors(c0, S, c1, T, to, back), S # {}
  PROVE  /\ NodeOf(c1, BestTyped(c1, T)).type = NodeOf(c0, BestTyped(c0, S)).type
         /\ merge_native(c1, T) = merge_native(c0, S)
         /\ UNION {NodeOf(c1, t).caps : t \in T} = UNION {NodeOf(c0, m).caps : m \in S}
         /\ NodeOf(c1, Foremost(c1, T)) = NodeOf(c0, Foremost(c0, S))
         /\ Reported(c1, T) = Reported(c0, S)
         /\ \A q \in Reported(c0, S) : merge_properties(c1, T)[q] = merge_properties(c0, S)[q]
<1>1. /\ \A a \in S : to[a] \in T /\ back[to[a]] = a /\ NodeOf(c1, to[a]) = NodeOf(c0, a)
      /\ \A t \in T : back[t] \in S /\ NodeOf(c1, t) = NodeOf(c0, back[t])
  BY DEF Mirrors
<1>2. NodeOf(c1, Foremost(c1, T)) = NodeOf(c0, Foremost(c0, S))
  <2>1. T = {t \in T : back[t] \in S}
    BY <1>1
  <2> QED
    BY <2>1, MirrorForemost
<1>3. UNION {NodeOf(c1, t).caps : t \in T} = UNION {NodeOf(c0, m).caps : m \in S}
  <2>1. {NodeOf(c1, t).caps : t \in T} = {NodeOf(c0, m).caps : m \in S}
    <3>1. \A t \in T : NodeOf(c1, t).caps = NodeOf(c0, back[t]).caps /\ back[t] \in S
      BY <1>1
    <3>2. \A a \in S : NodeOf(c0, a).caps = NodeOf(c1, to[a]).caps /\ to[a] \in T
      BY <1>1
    <3> QED
      BY <3>1, <3>2
  <2> QED
    BY <2>1
<1>4. Reported(c1, T) = Reported(c0, S)
  <2>1. {DOMAIN NodeOf(c1, t).props : t \in T} = {DOMAIN NodeOf(c0, m).props : m \in S}
    <3>1. \A t \in T : DOMAIN NodeOf(c1, t).props = DOMAIN NodeOf(c0, back[t]).props /\ back[t] \in S
      BY <1>1
    <3>2. \A a \in S : DOMAIN NodeOf(c0, a).props = DOMAIN NodeOf(c1, to[a]).props /\ to[a] \in T
      BY <1>1
    <3> QED
      BY <3>1, <3>2
  <2> QED
    BY <2>1 DEF Reported
<1>5. NodeOf(c1, BestTyped(c1, T)) = NodeOf(c0, BestTyped(c0, S))
  <2> DEFINE w(n) == type_rank(n.type)
             X == {m \in S : \A o \in S : w(NodeOf(c0, m)) >= w(NodeOf(c0, o))}
             Y == {m \in T : \A o \in T : w(NodeOf(c1, m)) >= w(NodeOf(c1, o))}
  <2>1. BestTyped(c0, S) = Foremost(c0, X) /\ BestTyped(c1, T) = Foremost(c1, Y)
    BY DEF BestTyped
  <2>2. X # {}
    <3> DEFINE A == {w(NodeOf(c0, m)) : m \in S}
    <3>1. \A ty \in NodeType : type_rank(ty) \in 0..9
      BY DEF NodeType, type_rank
    <3>2. \A m \in S : w(NodeOf(c0, m)) \in 0..9
      <4>1. \A m \in S : ContributedNode(NodeOf(c0, m))
        BY MemberNode DEF Mirrors
      <4> QED
        BY <3>1, <4>1 DEF ContributedNode
    <3> HIDE DEF w
    <3>3. A \subseteq Nat /\ A # {} /\ \A x \in A : x <= 9
      BY <3>2
    <3>4. PICK x \in A : \A y \in A : y <= x
      <4> HIDE DEF A
      <4> QED
        BY <3>3, GreatestExists
    <3>5. PICK m \in S : w(NodeOf(c0, m)) = x
      BY <3>4
    <3>6. \A o \in S : w(NodeOf(c0, m)) >= w(NodeOf(c0, o))
      BY <3>2, <3>4, <3>5
    <3> QED
      BY <3>5, <3>6
  <2> HIDE DEF w
  <2>3. Y = {t \in T : back[t] \in X}
    <3>1. ASSUME NEW t \in T PROVE t \in Y <=> back[t] \in X
      <4>1. ASSUME t \in Y PROVE back[t] \in X
        BY <1>1, <4>1
      <4>2. ASSUME back[t] \in X PROVE t \in Y
        BY <1>1, <4>2
      <4> QED
        BY <4>1, <4>2
    <3> QED
      BY <3>1
  <2>4. X \subseteq S
    OBVIOUS
  <2> HIDE DEF X, Y
  <2> QED
    BY <2>1, <2>2, <2>3, <2>4, MirrorForemost
<1>6. merge_native(c1, T) = merge_native(c0, S)
  <2> DEFINE Ids == {"pci", "storage", "net", "cuda", "machine", "numa"}
             X(f) == {m \in S : NodeOf(c0, m).native[f] # 0}
             Y(f) == {m \in T : NodeOf(c1, m).native[f] # 0}
             A(f) == IF X(f) = {} THEN 0 ELSE NodeOf(c0, Foremost(c0, X(f))).native[f]
             B(f) == IF Y(f) = {} THEN 0 ELSE NodeOf(c1, Foremost(c1, Y(f))).native[f]
  <2>1. merge_native(c0, S) = [f \in Ids |-> A(f)] /\ merge_native(c1, T) = [f \in Ids |-> B(f)]
    BY DEF merge_native
  <2>2. ASSUME NEW f \in Ids PROVE A(f) = B(f)
    <3>1. Y(f) = {t \in T : back[t] \in X(f)}
      BY <1>1
    <3>2. X(f) \subseteq S
      OBVIOUS
    <3>3. Y(f) = {} <=> X(f) = {}
      BY <1>1
    <3>4. CASE X(f) = {}
      BY <3>3, <3>4
    <3>5. CASE X(f) # {}
      <4>1. NodeOf(c1, Foremost(c1, Y(f))) = NodeOf(c0, Foremost(c0, X(f)))
        <5> HIDE DEF X, Y
        <5> QED
          BY <3>1, <3>2, <3>5, MirrorForemost
      <4> HIDE DEF X, Y
      <4> QED
        BY <3>3, <3>5, <4>1
    <3> QED
      BY <3>4, <3>5
  <2> HIDE DEF A, B
  <2> QED
    BY <2>1, <2>2
<1>7. ASSUME NEW q \in Reported(c0, S) PROVE merge_properties(c1, T)[q] = merge_properties(c0, S)[q]
  <2> DEFINE X == Reporters(c0, S, q)
             Y == Reporters(c1, T, q)
  <2>1. Y = {t \in T : back[t] \in X} /\ X \subseteq S
    BY <1>1 DEF Reporters
  <2>2. X # {}
    BY <1>7 DEF Reported, Reporters
  <2>3. NodeOf(c1, Foremost(c1, Y)) = NodeOf(c0, Foremost(c0, X))
    <3> HIDE DEF X, Y
    <3> QED
      BY <2>1, <2>2, MirrorForemost
  <2>4. merge_properties(c0, S)[q] = NodeOf(c0, Foremost(c0, X)).props[q]
    BY MergedValues DEF Valued
  <2>5. merge_properties(c1, T)[q] = NodeOf(c1, Foremost(c1, Y)).props[q]
    BY <1>4, MergedValues DEF Valued
  <2> QED
    BY <2>3, <2>4, <2>5
<1> QED
  BY <1>2, <1>3, <1>4, <1>5, <1>6, <1>7

-----------------------------------------------------------------------------
(* The merge notes of a group without equally confident members.           *)

\* No two members are equally confident.
Distinct(c0, S) == \A a, b \in S : RankOf(c0, a) = RankOf(c0, b) => a = b

\* Where a member stands in the order of confidence.
Standing(c0, m) == 5 - RankOf(c0, m)

Standings(c0, S) == {Standing(c0, m) : m \in S}

Above(c0, S, m) == {o \in S : Precedes(c0, o, m)}

BelowIn(I, x) == {y \in I : y < x}

\* A member has as many before it as there are better standings.
LEMMA AboveCount ==
  ASSUME NEW c0, Contributions(c0), NEW S, S \subseteq Members(c0), Distinct(c0, S)
  PROVE  /\ Standings(c0, S) \subseteq Nat /\ IsFiniteSet(Standings(c0, S))
         /\ Cardinality(Standings(c0, S)) = Cardinality(S)
         /\ \A m \in S : Cardinality(Above(c0, S, m)) =
                         Cardinality(BelowIn(Standings(c0, S), Standing(c0, m)))
<1> DEFINE I == Standings(c0, S)
           st(m) == Standing(c0, m)
<1>1. IsFiniteSet(S)
  BY MembersFinite, FS_Subset
<1>2. \A m \in S : st(m) \in 0..4 /\ RankOf(c0, m) \in 1..5 /\ st(m) = 5 - RankOf(c0, m)
  BY PrecedesDef DEF Standing
<1>3. \A a, b \in S : st(a) = st(b) => a = b
  BY <1>2 DEF Distinct
<1>4. \A a, b \in S : Precedes(c0, a, b) <=> st(a) < st(b)
  <2> TAKE a \in S, b \in S
  <2>1. /\ RankOf(c0, a) \in 1..5 /\ RankOf(c0, b) \in 1..5
        /\ a[1] \in Nat /\ a[2] \in Nat /\ b[1] \in Nat /\ b[2] \in Nat
        /\ Precedes(c0, a, b) <=>
              \/ RankOf(c0, a) > RankOf(c0, b)
              \/ RankOf(c0, a) = RankOf(c0, b) /\ a[1] < b[1]
              \/ RankOf(c0, a) = RankOf(c0, b) /\ a[1] = b[1] /\ a[2] < b[2]
    BY PrecedesDef
  <2>2. RankOf(c0, a) = RankOf(c0, b) => a = b
    BY DEF Distinct
  <2>3. Precedes(c0, a, b) <=> RankOf(c0, a) > RankOf(c0, b)
    BY <2>1, <2>2
  <2> QED
    BY <1>2, <2>1, <2>3
<1>5. I = {st(m) : m \in S}
  BY DEF Standings
<1> HIDE DEF I, st
<1>6. \A X \in SUBSET S : /\ IsFiniteSet({st(m) : m \in X})
                          /\ Cardinality({st(m) : m \in X}) = Cardinality(X)
  <2> TAKE X \in SUBSET S
  <2> DEFINE Y == {st(m) : m \in X}
             f == [m \in X |-> st(m)]
  <2>1. f \in Surjection(X, Y)
    BY DEF Surjection
  <2>2. f \in Injection(X, Y)
    BY <1>3 DEF Injection, IsInjective
  <2>3. IsFiniteSet(X)
    BY <1>1, FS_Subset
  <2> HIDE DEF Y, f
  <2>4. IsFiniteSet(Y) /\ Cardinality(Y) = Cardinality(X)
    BY <2>1, <2>2, <2>3, FS_Surjection
  <2> QED
    BY <2>4 DEF Y
<1>7. I \subseteq Nat /\ IsFiniteSet(I) /\ Cardinality(I) = Cardinality(S)
  BY <1>2, <1>5, <1>6
<1>8. ASSUME NEW m \in S PROVE Cardinality(Above(c0, S, m)) = Cardinality(BelowIn(I, st(m)))
  <2>1. Above(c0, S, m) \in SUBSET S
    BY DEF Above
  <2>2. {st(o) : o \in Above(c0, S, m)} = BelowIn(I, st(m))
    BY <1>4, <1>5 DEF Above, BelowIn
  <2> QED
    BY <1>6, <2>1, <2>2
<1> QED
  BY <1>7, <1>8 DEF I, st

\* The member at place i.
At(c0, S, i) == CHOOSE m \in S : Cardinality(Above(c0, S, m)) = i - 1

LEMMA AtPlace ==
  ASSUME NEW c0, Contributions(c0), NEW S, S \subseteq Members(c0), Distinct(c0, S),
         NEW i \in 1..Cardinality(S)
  PROVE  /\ At(c0, S, i) \in S
         /\ Cardinality(BelowIn(Standings(c0, S), Standing(c0, At(c0, S, i)))) = i - 1
<1> DEFINE I == Standings(c0, S)
<1>1. /\ I \subseteq Nat /\ IsFiniteSet(I) /\ Cardinality(I) = Cardinality(S)
      /\ \A m \in S : Cardinality(Above(c0, S, m)) = Cardinality(BelowIn(I, Standing(c0, m)))
  BY AboveCount
<1>2. \A x \in I : \E m \in S : x = Standing(c0, m)
  BY DEF Standings
<1> HIDE DEF I
<1>3. \E x \in I : Cardinality(BelowIn(I, x)) = i - 1
  <2>1. \A k \in 1..Cardinality(I) : \E x \in I : Cardinality({j \in I : j < x}) = k - 1
    BY <1>1, Ranks
  <2> QED
    BY <1>1, <2>1 DEF BelowIn
<1>4. PICK m \in S : Cardinality(Above(c0, S, m)) = i - 1
  BY <1>1, <1>2, <1>3
<1>5. At(c0, S, i) \in S /\ Cardinality(Above(c0, S, At(c0, S, i))) = i - 1
  BY <1>4 DEF At
<1> QED
  BY <1>1, <1>5 DEF I

\* Mirrored groups without equally confident members have the same notes.
LEMMA MirrorNotes ==
  ASSUME NEW c0, NEW S, NEW c1, NEW T, NEW to, NEW back, Mirrors(c0, S, c1, T, to, back),
         Distinct(c0, S), \A t \in T : to[back[t]] = t
  PROVE  MergeNotes(c1, T) = MergeNotes(c0, S)
<1>1. /\ Contributions(c0) /\ Contributions(c1) /\ S \subseteq Members(c0) /\ T \subseteq Members(c1)
      /\ \A a \in S : to[a] \in T /\ back[to[a]] = a /\ NodeOf(c1, to[a]) = NodeOf(c0, a)
      /\ \A t \in T : back[t] \in S /\ NodeOf(c1, t) = NodeOf(c0, back[t])
  BY DEF Mirrors
<1>2. \A t \in T : Standing(c1, t) = Standing(c0, back[t]) /\ RankOf(c1, t) = RankOf(c0, back[t])
  BY <1>1 DEF Standing, RankOf
<1>3. Standings(c1, T) = Standings(c0, S)
  BY <1>1, <1>2 DEF Standings
<1>4. Distinct(c1, T)
  <2> SUFFICES ASSUME NEW a \in T, NEW b \in T, RankOf(c1, a) = RankOf(c1, b) PROVE a = b
    BY DEF Distinct
  <2>1. back[a] = back[b]
    BY <1>1, <1>2 DEF Distinct
  <2> QED
    BY <2>1
<1> DEFINE I == Standings(c0, S)
           n == Cardinality(S)
<1>5. /\ I \subseteq Nat /\ IsFiniteSet(I) /\ Cardinality(I) = n
  BY <1>1, AboveCount
<1>6. Cardinality(T) = n
  BY <1>1, <1>3, <1>4, <1>5, AboveCount
<1>7. ASSUME NEW i \in 1..n
      PROVE  NodeOf(c1, At(c1, T, i)) = NodeOf(c0, At(c0, S, i))
  <2> DEFINE a == At(c0, S, i)
             t == At(c1, T, i)
             x == Standing(c0, a)
             y == Standing(c1, t)
  <2>1. a \in S /\ Cardinality(BelowIn(I, x)) = i - 1
    BY <1>1, AtPlace
  <2>2. t \in T /\ Cardinality(BelowIn(I, y)) = i - 1
    BY <1>1, <1>3, <1>4, <1>6, AtPlace
  <2>3. x \in I /\ y \in I
    BY <1>3, <2>1, <2>2 DEF Standings
  <2>4. x = y
    <3> HIDE DEF I, x, y
    <3>1. \A k, l \in I : Cardinality({j \in I : j < k}) = Cardinality({j \in I : j < l}) => k = l
      BY <1>5, Ranks
    <3> QED
      BY <2>1, <2>2, <2>3, <3>1 DEF BelowIn
  <2>5. back[t] \in S /\ Standing(c0, back[t]) = Standing(c0, a)
    BY <1>1, <1>2, <2>2, <2>4
  <2>6. RankOf(c0, back[t]) = RankOf(c0, a)
    <3>1. RankOf(c0, back[t]) \in 1..5 /\ RankOf(c0, a) \in 1..5
      BY <1>1, <2>1, <2>5, PrecedesDef
    <3> HIDE DEF a, t
    <3> QED
      BY <2>5, <3>1 DEF Standing
  <2>7. back[t] = a
    BY <2>1, <2>5, <2>6 DEF Distinct
  <2> QED
    BY <1>1, <2>2, <2>7
<1>8. ASSUME NEW c2, NEW S2
      PROVE  MergeNotes(c2, S2) =
               [q \in NoteNames |->
                  IF q = "tf.merged_members" THEN Cardinality(S2)
                  ELSE [i \in 1..Cardinality(S2) |->
                          <<NodeOf(c2, At(c2, S2, i)).provider, NodeOf(c2, At(c2, S2, i)).ref>>]]
  BY DEF MergeNotes, NoteNames, At, Above
<1> DEFINE u == [i \in 1..n |-> <<NodeOf(c0, At(c0, S, i)).provider, NodeOf(c0, At(c0, S, i)).ref>>]
           v == [i \in 1..n |-> <<NodeOf(c1, At(c1, T, i)).provider, NodeOf(c1, At(c1, T, i)).ref>>]
<1>9. u = v
  BY <1>7
<1>10. MergeNotes(c0, S) = [q \in NoteNames |-> IF q = "tf.merged_members" THEN n ELSE u]
  BY <1>8
<1>11. MergeNotes(c1, T) = [q \in NoteNames |-> IF q = "tf.merged_members" THEN n ELSE v]
  <2>1. MergeNotes(c1, T) =
          [q \in NoteNames |->
             IF q = "tf.merged_members" THEN Cardinality(T)
             ELSE [i \in 1..Cardinality(T) |->
                     <<NodeOf(c1, At(c1, T, i)).provider, NodeOf(c1, At(c1, T, i)).ref>>]]
    BY <1>8
  <2> QED
    BY <1>6, <2>1
<1> QED
  BY <1>9, <1>10, <1>11

-----------------------------------------------------------------------------
(* Registration order.                                                     *)

\* Member m after the registration order is reversed.
Flip(n, m) == <<(n - m[1]) + 1, m[2]>>

LEMMA ReverseShape ==
  ASSUME NEW c0, Contributions(c0)
  PROVE  /\ Contributions(Reverse(c0)) /\ Len(Reverse(c0)) = Len(c0) /\ Len(c0) \in Nat
         /\ \A k \in 1..Len(c0) : Reverse(c0)[k] = c0[(Len(c0) - k) + 1]
<1> DEFINE n == Len(c0)
           c1 == Reverse(c0)
<1>1. n \in Nat /\ DOMAIN c0 = 1..n
  BY EdgePartsType
<1>2. c1 = [k \in 1..n |-> c0[(n - k) + 1]]
  BY DEF Reverse
<1> HIDE DEF c1, n
<1>3. Len(c1) = n /\ DOMAIN c1 = 1..n /\ \A k \in 1..n : c1[k] = c0[(n - k) + 1]
  BY <1>1, <1>2
<1>4. IsVector(c1)
  <2>1. c1 = [k \in 1..n |-> c1[k]]
    BY <1>2
  <2> QED
    BY <1>1, <1>3, <2>1 DEF IsVector
<1>5. \A k \in DOMAIN c1 : (n - k) + 1 \in DOMAIN c0
  BY <1>1, <1>3
<1>6. Contributions(c1)
  BY <1>3, <1>4, <1>5 DEF Contributions
<1> QED
  BY <1>1, <1>3, <1>6 DEF c1, n

LEMMA FlipMember ==
  ASSUME NEW c0, Contributions(c0), NEW c1, Contributions(c1), NEW n \in Nat,
         Len(c0) = n, Len(c1) = n, \A k \in 1..n : c1[k] = c0[(n - k) + 1],
         NEW m \in Members(c0)
  PROVE  /\ Flip(n, m) \in Members(c1) /\ Flip(n, Flip(n, m)) = m
         /\ NodeOf(c1, Flip(n, m)) = NodeOf(c0, m) /\ KeyOf(c1, Flip(n, m)) = KeyOf(c0, m)
<1> DEFINE a == m[1]
           b == m[2]
           k == (n - a) + 1
<1>1. m = <<a, b>> /\ a \in DOMAIN c0 /\ b \in DOMAIN c0[a].nodes
  BY MemberNode
<1>2. DOMAIN c0 = 1..n /\ DOMAIN c1 = 1..n
  BY EdgePartsType
<1> HIDE DEF a, b
<1>3. k \in 1..n /\ (n - k) + 1 = a
  BY <1>1, <1>2
<1>4. c1[k] = c0[a]
  BY <1>3
<1>5. Flip(n, m) = <<k, b>>
  BY DEF Flip, a, b
<1> HIDE DEF k
<1>6. <<k, b>> \in Members(c1)
  BY <1>1, <1>2, <1>3, <1>4 DEF Members
<1>7. Flip(n, <<k, b>>) = <<a, b>>
  BY <1>3 DEF Flip
<1>8. NodeOf(c1, <<k, b>>) = NodeOf(c0, m)
  BY <1>1, <1>4 DEF NodeOf
<1> QED
  BY <1>1, <1>5, <1>6, <1>7, <1>8 DEF KeyOf

\* Two inputs, each the other in reverse.
Reversed(c0, c1, n) ==
  /\ Contributions(c0) /\ Contributions(c1) /\ n \in Nat /\ Len(c0) = n /\ Len(c1) = n
  /\ \A k \in 1..n : c1[k] = c0[(n - k) + 1]
  /\ \A k \in 1..n : c0[k] = c1[(n - k) + 1]

LEMMA ReverseReversed ==
  ASSUME NEW c0, Contributions(c0)
  PROVE  Reversed(c0, Reverse(c0), Len(c0))
<1> DEFINE n == Len(c0)
           c1 == Reverse(c0)
<1>1. /\ Contributions(c1) /\ Len(c1) = n /\ n \in Nat
      /\ \A k \in 1..n : c1[k] = c0[(n - k) + 1]
  BY ReverseShape
<1> HIDE DEF c1, n
<1>2. ASSUME NEW k \in 1..n PROVE c0[k] = c1[(n - k) + 1]
  <2>1. (n - k) + 1 \in 1..n /\ (n - ((n - k) + 1)) + 1 = k
    BY <1>1
  <2> QED
    BY <1>1, <2>1
<1> QED
  BY <1>1, <1>2 DEF Reversed, c1, n

LEMMA ReversedMember ==
  ASSUME NEW c0, NEW c1, NEW n, Reversed(c0, c1, n)
  PROVE  /\ \A m \in Members(c0) :
              /\ Flip(n, m) \in Members(c1) /\ Flip(n, Flip(n, m)) = m
              /\ NodeOf(c1, Flip(n, m)) = NodeOf(c0, m) /\ KeyOf(c1, Flip(n, m)) = KeyOf(c0, m)
         /\ \A m \in Members(c1) :
              /\ Flip(n, m) \in Members(c0) /\ Flip(n, Flip(n, m)) = m
              /\ NodeOf(c0, Flip(n, m)) = NodeOf(c1, m) /\ KeyOf(c0, Flip(n, m)) = KeyOf(c1, m)
<1>1. ASSUME NEW m \in Members(c0)
      PROVE  /\ Flip(n, m) \in Members(c1) /\ Flip(n, Flip(n, m)) = m
             /\ NodeOf(c1, Flip(n, m)) = NodeOf(c0, m) /\ KeyOf(c1, Flip(n, m)) = KeyOf(c0, m)
  BY FlipMember DEF Reversed
<1>2. ASSUME NEW m \in Members(c1)
      PROVE  /\ Flip(n, m) \in Members(c0) /\ Flip(n, Flip(n, m)) = m
             /\ NodeOf(c0, Flip(n, m)) = NodeOf(c1, m) /\ KeyOf(c0, Flip(n, m)) = KeyOf(c1, m)
  BY FlipMember DEF Reversed
<1> QED
  BY <1>1, <1>2

\* The groups of the reversed input are the groups, flipped.
LEMMA ReversedGroups ==
  ASSUME NEW c0, NEW c1, NEW n, Reversed(c0, c1, n), Fits(c0), NEW k \in GroupKeys(c0)
  PROVE  /\ k \in GroupKeys(c1)
         /\ Groups(c0)[k] = {m \in Members(c0) : KeyOf(c0, m) = k}
         /\ Groups(c1)[k] = {m \in Members(c1) : KeyOf(c1, m) = k}
<1>1. AllKeys(c0) = AllKeys(c1)
  BY ReversedMember DEF AllKeys
<1>2. Contributions(c0) /\ Contributions(c1)
  BY DEF Reversed
<1>3. Ingested(c0) = Members(c0) /\ Ingested(c1) = Members(c1)
  BY <1>1, <1>2, AllIngested DEF Fits
<1>4. GroupKeys(c0) = AllKeys(c0) /\ GroupKeys(c1) = AllKeys(c1)
  BY <1>3 DEF GroupKeys, Groups, AllKeys
<1>5. k \in GroupKeys(c1)
  BY <1>1, <1>4
<1> QED
  BY <1>2, <1>3, <1>5, GroupMembers

\* A group without equally confident members mirrors itself.
LEMMA ReversedMirrors ==
  ASSUME NEW c0, NEW c1, NEW n, Reversed(c0, c1, n), Fits(c0), NEW k \in GroupKeys(c0),
         Distinct(c0, Groups(c0)[k])
  PROVE  \E to, back : /\ Mirrors(c0, Groups(c0)[k], c1, Groups(c1)[k], to, back)
                       /\ \A t \in Groups(c1)[k] : to[back[t]] = t
<1> DEFINE S == Groups(c0)[k]
           T == Groups(c1)[k]
           to == [m \in S |-> Flip(n, m)]
           back == [m \in T |-> Flip(n, m)]
<1>1. /\ S = {m \in Members(c0) : KeyOf(c0, m) = k}
      /\ T = {m \in Members(c1) : KeyOf(c1, m) = k}
  BY ReversedGroups
<1>2. Contributions(c0) /\ Contributions(c1) /\ Distinct(c0, S)
  BY DEF Reversed
<1> HIDE DEF S, T
<1>3. \A a \in S : /\ Flip(n, a) \in T /\ Flip(n, Flip(n, a)) = a
                   /\ NodeOf(c1, Flip(n, a)) = NodeOf(c0, a)
  BY <1>1, ReversedMember
<1>4. \A t \in T : /\ Flip(n, t) \in S /\ Flip(n, Flip(n, t)) = t
                   /\ NodeOf(c1, t) = NodeOf(c0, Flip(n, t))
  BY <1>1, ReversedMember
<1>5. \A a \in S : to[a] \in T /\ back[to[a]] = a /\ NodeOf(c1, to[a]) = NodeOf(c0, a)
  BY <1>3
<1>6. \A t \in T : /\ back[t] \in S /\ NodeOf(c1, t) = NodeOf(c0, back[t]) /\ to[back[t]] = t
  BY <1>4
<1> HIDE DEF to, back
<1>7. ASSUME NEW a \in S, NEW b \in S, Precedes(c0, a, b) PROVE Precedes(c1, to[a], to[b])
  <2> DEFINE r == RankOf(c0, a)
             s == RankOf(c0, b)
  <2>0. S \subseteq Members(c0) /\ T \subseteq Members(c1)
    BY <1>1
  <2>1. /\ r \in 1..5 /\ s \in 1..5
        /\ a[1] \in Nat /\ a[2] \in Nat
        /\ r > s \/ (r = s /\ a[1] < b[1]) \/ (r = s /\ a[1] = b[1] /\ a[2] < b[2])
    BY <1>2, <1>7, <2>0, PrecedesDef
  <2>2. r = s => a = b
    BY <1>2 DEF Distinct
  <2>3. r > s
    <3> HIDE DEF r, s
    <3> QED
      BY <2>1, <2>2
  <2>4. RankOf(c1, to[a]) = r /\ RankOf(c1, to[b]) = s
    BY <1>5 DEF RankOf
  <2> HIDE DEF r, s
  <2>5. to[a] \in Members(c1) /\ to[b] \in Members(c1)
    BY <1>5, <2>0
  <2> QED
    BY <1>2, <2>3, <2>4, <2>5, PrecedesDef
<1>8. Mirrors(c0, S, c1, T, to, back)
  BY <1>1, <1>2, <1>5, <1>6, <1>7 DEF Mirrors
<1> QED
  BY <1>6, <1>8 DEF S, T

LEMMA ReversedGroup ==
  ASSUME NEW c0, NEW c1, NEW n, Reversed(c0, c1, n), Fits(c0), NEW k \in GroupKeys(c0),
         Distinct(c0, Groups(c0)[k])
  PROVE  MergeGroup(c1, Groups(c1)[k]) = MergeGroup(c0, Groups(c0)[k])
<1> DEFINE S == Groups(c0)[k]
           T == Groups(c1)[k]
<1>1. S # {}
  BY GroupMembers DEF Reversed
<1>2. PICK to, back : Mirrors(c0, S, c1, T, to, back) /\ \A t \in T : to[back[t]] = t
  BY ReversedMirrors
<1>3. Distinct(c0, S)
  OBVIOUS
<1> HIDE DEF S, T
<1>4. /\ NodeOf(c1, BestTyped(c1, T)).type = NodeOf(c0, BestTyped(c0, S)).type
      /\ merge_native(c1, T) = merge_native(c0, S)
      /\ UNION {NodeOf(c1, t).caps : t \in T} = UNION {NodeOf(c0, m).caps : m \in S}
      /\ NodeOf(c1, Foremost(c1, T)) = NodeOf(c0, Foremost(c0, S))
      /\ Reported(c1, T) = Reported(c0, S)
      /\ \A q \in Reported(c0, S) : merge_properties(c1, T)[q] = merge_properties(c0, S)[q]
  BY <1>1, <1>2, MirrorFacts
<1>5. MergeNotes(c1, T) = MergeNotes(c0, S)
  BY <1>2, <1>3, MirrorNotes
<1>6. merge_properties(c1, T) = merge_properties(c0, S)
  <2> DEFINE R == Reported(c0, S)
             N == MergeNotes(c0, S)
  <2>1. merge_properties(c0, S) =
          [q \in R \cup NoteNames |-> IF q \in R THEN Valued(c0, S, q) ELSE N[q]]
    BY MergedProperties
  <2>2. merge_properties(c1, T) =
          [q \in R \cup NoteNames |-> IF q \in R THEN Valued(c1, T, q) ELSE N[q]]
    <3>1. merge_properties(c1, T) =
           [q \in Reported(c1, T) \cup NoteNames |->
              IF q \in Reported(c1, T) THEN Valued(c1, T, q) ELSE MergeNotes(c1, T)[q]]
      BY MergedProperties
    <3> QED
      BY <1>4, <1>5, <3>1
  <2>3. /\ \A q \in Reported(c0, S) : merge_properties(c0, S)[q] = Valued(c0, S, q)
        /\ \A q \in Reported(c1, T) : merge_properties(c1, T)[q] = Valued(c1, T, q)
    BY MergedValues
  <2>4. \A q \in R : Valued(c1, T, q) = Valued(c0, S, q)
    BY <1>4, <2>3
  <2> HIDE DEF R, N
  <2> QED
    BY <2>1, <2>2, <2>4
<1> DEFINE c == UNION {NodeOf(c0, m).caps : m \in S}
           d == UNION {NodeOf(c1, m).caps : m \in T}
<1>7. /\ MergeGroup(c0, S) =
           [type |-> NodeOf(c0, BestTyped(c0, S)).type, key |-> canonical_key(merge_native(c0, S)),
            numa |-> merge_native(c0, S)["numa"], caps |-> c,
            conf |-> NodeOf(c0, Foremost(c0, S)).conf,
            provider |-> NodeOf(c0, Foremost(c0, S)).provider, props |-> merge_properties(c0, S)]
      /\ MergeGroup(c1, T) =
           [type |-> NodeOf(c1, BestTyped(c1, T)).type, key |-> canonical_key(merge_native(c1, T)),
            numa |-> merge_native(c1, T)["numa"], caps |-> d,
            conf |-> NodeOf(c1, Foremost(c1, T)).conf,
            provider |-> NodeOf(c1, Foremost(c1, T)).provider, props |-> merge_properties(c1, T)]
  BY DEF MergeGroup
<1>8. c = d
  BY <1>4
<1> HIDE DEF c, d
<1>9. MergeGroup(c1, T) = MergeGroup(c0, S)
  BY <1>4, <1>6, <1>7, <1>8
<1> QED
  BY <1>9 DEF S, T

-----------------------------------------------------------------------------
(* Reporting twice.                                                        *)

\* c1 is c0 twice in a row.
Doubled(c0, c1, n) ==
  /\ Contributions(c0) /\ Contributions(c1) /\ n \in Nat
  /\ Len(c0) = n /\ DOMAIN c0 = 1..n /\ Len(c1) = n + n /\ DOMAIN c1 = 1..(n + n)
  /\ \A k \in 1..n : c1[k] = c0[k] /\ c1[n + k] = c0[k]

LEMMA ConcatAt ==
  ASSUME NEW E, NEW s \in Seq(E), NEW t \in Seq(E)
  PROVE  /\ s \o t \in Seq(E) /\ Len(s \o t) = Len(s) + Len(t)
         /\ \A i \in 1..Len(s) : (s \o t)[i] = s[i]
         /\ \A i \in 1..Len(t) : (s \o t)[Len(s) + i] = t[i]
<1>1. s \o t \in Seq(E) /\ Len(s \o t) = Len(s) + Len(t)
  OBVIOUS
<1>2. \A i \in 1..Len(s) : (s \o t)[i] = s[i]
  OBVIOUS
<1>3. \A i \in 1..Len(t) : (s \o t)[Len(s) + i] = t[i]
  OBVIOUS
<1> QED
  BY <1>1, <1>2, <1>3

\* The sequences a and b, concatenated.
Joined(a, b) == a \o b

LEMMA ConcatThree ==
  ASSUME NEW E, NEW s \in Seq(E), NEW t \in Seq(E), NEW u \in Seq(E)
  PROVE  Joined(Joined(s, t), u) = Joined(s, Joined(t, u))
<1>1. s \o t \in Seq(E) /\ t \o u \in Seq(E)
  OBVIOUS
<1> DEFINE a == (s \o t) \o u
           b == s \o (t \o u)
<1>2. a \in Seq(E) /\ b \in Seq(E) /\ Len(a) = Len(b)
  BY <1>1
<1>3. \A i \in 1..Len(a) : a[i] = b[i]
  BY <1>1
<1> HIDE DEF a, b
<1>4. a = b
  BY <1>2, <1>3
<1> QED
  BY <1>4 DEF a, b, Joined

LEMMA Doubling ==
  ASSUME NEW c0, Contributions(c0)
  PROVE  Doubled(c0, c0 \o c0, Len(c0))
<1> DEFINE n == Len(c0)
           c1 == c0 \o c0
           E == {c0[i] : i \in 1..Len(c0)}
<1>1. n \in Nat /\ DOMAIN c0 = 1..n /\ c0 \in Seq(E)
  BY Vector DEF Contributions
<1>2. /\ c1 \in Seq(E) /\ Len(c1) = n + n
      /\ \A i \in 1..n : c1[i] = c0[i]
      /\ \A i \in 1..n : c1[n + i] = c0[i]
  <2> HIDE DEF E
  <2> QED
    BY <1>1, ConcatAt
<1> HIDE DEF E, n, c1
<1>3. DOMAIN c1 = 1..(n + n) /\ c1 = [i \in 1..(n + n) |-> c1[i]]
  BY <1>1, <1>2
<1>4. IsVector(c1)
  BY <1>1, <1>2, <1>3 DEF IsVector
<1>5. ASSUME NEW k \in DOMAIN c1 PROVE \E j \in DOMAIN c0 : c1[k] = c0[j]
  <2>1. CASE k <= n
    <3>1. k \in 1..n
      BY <1>1, <1>3, <2>1
    <3> QED
      BY <1>1, <1>2, <3>1
  <2>2. CASE ~(k <= n)
    <3>1. (k - n) \in 1..n /\ n + (k - n) = k
      BY <1>1, <1>3, <2>2
    <3>2. c1[n + (k - n)] = c0[k - n]
      BY <1>2, <3>1
    <3> QED
      BY <1>1, <3>1, <3>2
  <2> QED
    BY <2>1, <2>2
<1>6. Contributions(c1)
  BY <1>4, <1>5 DEF Contributions
<1> QED
  BY <1>1, <1>2, <1>3, <1>6 DEF Doubled, n, c1

\* n parts, and the same parts twice in a row.
Repeats(once, twice, n, E) ==
  /\ n \in Nat /\ n # 0 /\ once \in [1..n -> Seq(E)] /\ twice \in [1..(n + n) -> Seq(E)]
  /\ \A k \in 1..n : twice[k] = once[k] /\ twice[n + k] = once[k]

LEMMA FlattenTwice ==
  ASSUME NEW E, NEW n, NEW once, NEW twice, Repeats(once, twice, n, E)
  PROVE  FlattenSeq(twice) = Joined(FlattenSeq(once), FlattenSeq(once))
<1> USE DEF Repeats
<1>1. PICK f \in [1..n -> Seq(E)] : FlattenSeq(once) = f[n] /\ Concatenates(f, once, n)
  BY Concatenation
<1>2. n + n \in Nat /\ n + n # 0
  OBVIOUS
<1>3. PICK g \in [1..(n + n) -> Seq(E)] :
        FlattenSeq(twice) = g[n + n] /\ Concatenates(g, twice, n + n)
  <2> DEFINE m == n + n
  <2>1. m \in Nat /\ m # 0 /\ twice \in [1..m -> Seq(E)]
    BY <1>2
  <2> HIDE DEF m
  <2>2. \E g \in [1..m -> Seq(E)] : FlattenSeq(twice) = g[m] /\ Concatenates(g, twice, m)
    BY <2>1, Concatenation
  <2> QED
    BY <2>2 DEF m
<1>4. f[1] = once[1] /\ \A i \in 2..n : f[i] = f[i - 1] \o once[i]
  BY <1>1 DEF Concatenates
<1>5. g[1] = twice[1] /\ \A i \in 2..(n + n) : g[i] = g[i - 1] \o twice[i]
  BY <1>3 DEF Concatenates
<1> DEFINE Off == {i \in 1..n : g[i] # f[i]}
           Far == {i \in 1..n : g[n + i] # f[n] \o f[i]}
<1>6. Off = {}
  <2> SUFFICES ASSUME Off # {} PROVE FALSE
    OBVIOUS
  <2>1. Off \subseteq Nat
    OBVIOUS
  <2>2. PICK k \in Off : \A j \in Off : k <= j
    <3> HIDE DEF Off
    <3> QED
      BY <2>1, LeastExists
  <2>3. k \in 1..n /\ g[k] # f[k] /\ twice[k] = once[k]
    BY <2>2
  <2>4. k # 1
    BY <1>4, <1>5, <2>3
  <2>5. k \in 2..n /\ k \in 2..(n + n) /\ k - 1 \in 1..n /\ ~ (k <= k - 1)
    BY <2>3, <2>4
  <2>6. g[k - 1] = f[k - 1]
    BY <2>2, <2>5
  <2> QED
    BY <1>4, <1>5, <2>3, <2>5, <2>6
<1>7. g[n] = f[n]
  <2>1. n \in 1..n
    OBVIOUS
  <2> QED
    BY <1>6, <2>1
<1>8. Far = {}
  <2> SUFFICES ASSUME Far # {} PROVE FALSE
    OBVIOUS
  <2>1. Far \subseteq Nat
    OBVIOUS
  <2>2. PICK k \in Far : \A j \in Far : k <= j
    <3> HIDE DEF Far
    <3> QED
      BY <2>1, LeastExists
  <2>3. k \in 1..n /\ g[n + k] # f[n] \o f[k] /\ twice[n + k] = once[k]
    BY <2>2
  <2>4. n + k \in 2..(n + n)
    BY <2>3
  <2>5. g[n + k] = g[(n + k) - 1] \o once[k]
    BY <1>5, <2>3, <2>4
  <2>6. k # 1
    <3> SUFFICES ASSUME k = 1 PROVE FALSE
      OBVIOUS
    <3>1. (n + k) - 1 = n
      OBVIOUS
    <3> QED
      BY <1>4, <1>7, <2>3, <2>5, <3>1
  <2>7. k \in 2..n /\ k - 1 \in 1..n /\ ~ (k <= k - 1) /\ (n + k) - 1 = n + (k - 1) /\ n \in 1..n
    BY <2>3, <2>6
  <2>8. g[n + (k - 1)] = f[n] \o f[k - 1]
    BY <2>2, <2>7
  <2>9. f[k] = f[k - 1] \o once[k]
    BY <1>4, <2>7
  <2> DEFINE x == f[n]
             y == f[k - 1]
             z == once[k]
  <2>10. x \in Seq(E) /\ y \in Seq(E) /\ z \in Seq(E)
    BY <2>3, <2>7
  <2>11. (x \o y) \o z = x \o (y \o z)
    <3> HIDE DEF x, y, z
    <3>1. Joined(Joined(x, y), z) = Joined(x, Joined(y, z))
      BY ONLY <2>10, ConcatThree
    <3> QED
      BY <3>1 DEF Joined
  <2> QED
    BY <2>3, <2>5, <2>7, <2>8, <2>9, <2>11
<1>9. g[n + n] = f[n] \o f[n]
  <2>1. n \in 1..n
    OBVIOUS
  <2> QED
    BY <1>8, <2>1
<1> QED
  BY <1>1, <1>3, <1>9 DEF Joined

LEMMA DoubledEdges ==
  ASSUME NEW c0, NEW c1, NEW n, Doubled(c0, c1, n)
  PROVE  /\ Len(ContributedEdges(c0)) \in Nat
         /\ DOMAIN ContributedEdges(c0) = 1..Len(ContributedEdges(c0))
         /\ Len(ContributedEdges(c1)) = Len(ContributedEdges(c0)) + Len(ContributedEdges(c0))
         /\ DOMAIN ContributedEdges(c1) = 1..(Len(ContributedEdges(c0)) + Len(ContributedEdges(c0)))
         /\ \A i \in DOMAIN ContributedEdges(c0) :
              /\ ContributedEdges(c1)[i] = ContributedEdges(c0)[i]
              /\ ContributedEdges(c1)[Len(ContributedEdges(c0)) + i] = ContributedEdges(c0)[i]
<1> DEFINE E == EdgesOf(c0)
           once == EdgeParts(c0)
           twice == EdgeParts(c1)
           s == ContributedEdges(c0)
           t == ContributedEdges(c1)
<1>1. /\ Contributions(c0) /\ Contributions(c1) /\ n \in Nat
      /\ Len(c0) = n /\ DOMAIN c0 = 1..n /\ Len(c1) = n + n /\ DOMAIN c1 = 1..(n + n)
      /\ \A k \in 1..n : c1[k] = c0[k] /\ c1[n + k] = c0[k]
  BY DEF Doubled
<1>2. once \in [1..n -> Seq(E)]
  BY <1>1, EdgePartsType
<1>3. \A k \in 1..n : k \in 1..(n + n) /\ n + k \in 1..(n + n)
  BY <1>1
<1>4. \A k \in 1..n : twice[k] = once[k] /\ twice[n + k] = once[k]
  BY <1>1, <1>3 DEF EdgeParts
<1>5. twice \in [1..(n + n) -> Seq(E)]
  <2>1. ASSUME NEW k \in 1..(n + n) PROVE twice[k] \in Seq(E)
    <3>1. CASE k <= n
      <4>1. k \in 1..n
        BY <1>1, <3>1
      <4> QED
        BY <1>2, <1>4, <4>1
    <3>2. CASE ~(k <= n)
      <4>1. (k - n) \in 1..n /\ n + (k - n) = k
        BY <1>1, <3>2
      <4>2. twice[n + (k - n)] = once[k - n]
        BY <1>4, <4>1
      <4> QED
        BY <1>2, <4>1, <4>2
    <3> QED
      BY <3>1, <3>2
  <2>2. DOMAIN twice = 1..(n + n) /\ twice = [k \in 1..(n + n) |-> twice[k]]
    BY <1>1 DEF EdgeParts
  <2> HIDE DEF twice, E
  <2> QED
    BY <2>1, <2>2
<1>6. s = FlattenSeq(once) /\ t = FlattenSeq(twice)
  BY DEF ContributedEdges, EdgeParts
<1>7. s \in Seq(E)
  BY <1>1, ContributedEdgesType
<1>8. t = s \o s
  <2>1. CASE n = 0
    <3> HIDE DEF once, twice, s, t
    <3>1. once \in [1..0 -> Seq(E)] /\ twice \in [1..0 -> Seq(E)]
      BY <1>2, <1>5, <2>1
    <3>2. once = << >> /\ Len(once) = 0 /\ twice = << >> /\ Len(twice) = 0
      BY <3>1
    <3>3. FlattenSeq(once) = << >> /\ FlattenSeq(twice) = << >>
      BY <3>2 DEF FlattenSeq
    <3> QED
      BY <1>6, <3>3
  <2>2. CASE n # 0
    <3> HIDE DEF once, twice, s, t, E
    <3>0. Repeats(once, twice, n, E)
      BY <1>1, <1>2, <1>4, <1>5, <2>2 DEF Repeats
    <3>1. FlattenSeq(twice) = Joined(FlattenSeq(once), FlattenSeq(once))
      BY <3>0, FlattenTwice
    <3> QED
      BY <1>6, <3>1 DEF Joined
  <2> QED
    BY <2>1, <2>2
<1> HIDE DEF E, s, t
<1>9. Len(s) \in Nat /\ DOMAIN s = 1..Len(s)
  BY <1>7
<1>10. /\ t \in Seq(E) /\ Len(t) = Len(s) + Len(s)
       /\ \A i \in 1..Len(s) : t[i] = s[i]
       /\ \A i \in 1..Len(s) : t[Len(s) + i] = s[i]
  BY <1>7, <1>8, ConcatAt
<1>11. DOMAIN t = 1..(Len(s) + Len(s))
  BY <1>10
<1> QED
  BY <1>9, <1>10, <1>11 DEF s, t

\* The member that m repeats.
Original(n, m) == IF m[1] <= n THEN m ELSE <<m[1] - n, m[2]>>

LEMMA DoubledMember ==
  ASSUME NEW c0, NEW c1, NEW n, Doubled(c0, c1, n)
  PROVE  /\ \A m \in Members(c0) :
              /\ m \in Members(c1) /\ Original(n, m) = m
              /\ NodeOf(c1, m) = NodeOf(c0, m) /\ KeyOf(c1, m) = KeyOf(c0, m)
         /\ \A m \in Members(c1) :
              /\ Original(n, m) \in Members(c0)
              /\ NodeOf(c1, m) = NodeOf(c0, Original(n, m))
              /\ KeyOf(c1, m) = KeyOf(c0, Original(n, m))
              /\ Original(n, m) = m \/ Original(n, m)[1] < m[1]
<1>1. /\ Contributions(c0) /\ Contributions(c1) /\ n \in Nat
      /\ DOMAIN c0 = 1..n /\ DOMAIN c1 = 1..(n + n)
      /\ \A k \in 1..n : c1[k] = c0[k] /\ c1[n + k] = c0[k]
  BY DEF Doubled
<1>2. ASSUME NEW m \in Members(c0)
      PROVE  /\ m \in Members(c1) /\ Original(n, m) = m
             /\ NodeOf(c1, m) = NodeOf(c0, m) /\ KeyOf(c1, m) = KeyOf(c0, m)
  <2> DEFINE a == m[1]
             b == m[2]
  <2>1. m = <<a, b>> /\ a \in DOMAIN c0 /\ b \in DOMAIN c0[a].nodes
    BY <1>1, MemberNode
  <2> HIDE DEF a, b
  <2>2. a \in 1..n /\ a \in 1..(n + n) /\ a <= n
    BY <1>1, <2>1
  <2>3. c1[a] = c0[a]
    BY <1>1, <2>2
  <2>4. <<a, b>> \in Members(c1)
    BY <1>1, <2>1, <2>2, <2>3 DEF Members
  <2>5. NodeOf(c1, m) = NodeOf(c0, m)
    BY <2>1, <2>3 DEF NodeOf
  <2>6. Original(n, m) = m
    BY <2>1, <2>2 DEF Original
  <2> QED
    BY <2>1, <2>4, <2>5, <2>6 DEF KeyOf
<1>3. ASSUME NEW m \in Members(c1)
      PROVE  /\ Original(n, m) \in Members(c0)
             /\ NodeOf(c1, m) = NodeOf(c0, Original(n, m))
             /\ KeyOf(c1, m) = KeyOf(c0, Original(n, m))
             /\ Original(n, m) = m \/ Original(n, m)[1] < m[1]
  <2> DEFINE a == m[1]
             b == m[2]
  <2>1. m = <<a, b>> /\ a \in DOMAIN c1 /\ b \in DOMAIN c1[a].nodes
    BY <1>1, MemberNode
  <2> HIDE DEF a, b
  <2>2. CASE a <= n
    <3>1. a \in 1..n
      BY <1>1, <2>1, <2>2
    <3>2. c1[a] = c0[a] /\ a \in DOMAIN c0
      BY <1>1, <3>1
    <3>3. <<a, b>> \in Members(c0)
      BY <2>1, <3>2 DEF Members
    <3>4. Original(n, m) = m
      BY <2>1, <2>2 DEF Original
    <3>5. NodeOf(c1, m) = NodeOf(c0, m)
      BY <2>1, <3>2 DEF NodeOf
    <3> QED
      BY <2>1, <3>3, <3>4, <3>5 DEF KeyOf
  <2>3. CASE ~(a <= n)
    <3> DEFINE d == a - n
    <3>1. d \in 1..n /\ n + d = a /\ d < a
      BY <1>1, <2>1, <2>3
    <3>4. Original(n, m) = <<d, b>>
      BY <2>1, <2>3 DEF Original, b
    <3> HIDE DEF d
    <3>2. c1[n + d] = c0[d] /\ d \in DOMAIN c0
      BY <1>1, <3>1
    <3>3. <<d, b>> \in Members(c0)
      BY <2>1, <3>1, <3>2 DEF Members
    <3>5. NodeOf(c1, m) = NodeOf(c0, <<d, b>>)
      BY <2>1, <3>1, <3>2 DEF NodeOf
    <3>6. Original(n, m)[1] < m[1]
      BY <2>1, <3>1, <3>4 DEF a
    <3> QED
      BY <3>3, <3>4, <3>5, <3>6 DEF KeyOf
  <2> QED
    BY <2>2, <2>3
<1> QED
  BY <1>2, <1>3

\* The same groups, each with the members and their repetitions.
LEMMA DoubledGroups ==
  ASSUME NEW c0, NEW c1, NEW n, Doubled(c0, c1, n), Fits(c0)
  PROVE  /\ KeptGroups(c1) = KeptGroups(c0) /\ GroupKeys(c0) = KeptGroups(c0)
         /\ GroupKeys(c1) = KeptGroups(c0)
         /\ \A k \in KeptGroups(c0) :
              /\ Groups(c0)[k] = {m \in Members(c0) : KeyOf(c0, m) = k}
              /\ Groups(c1)[k] = {m \in Members(c1) : KeyOf(c1, m) = k}
<1>1. AllKeys(c0) = AllKeys(c1)
  BY DoubledMember DEF AllKeys
<1>2. Contributions(c0) /\ Contributions(c1)
  BY DEF Doubled
<1>3. Ingested(c0) = Members(c0) /\ Ingested(c1) = Members(c1)
  BY <1>1, <1>2, AllIngested DEF Fits
<1>4. GroupKeys(c0) = AllKeys(c0) /\ GroupKeys(c1) = AllKeys(c1)
  BY <1>3 DEF GroupKeys, Groups, AllKeys
<1>5. KeptGroups(c0) = GroupKeys(c0) /\ KeptGroups(c1) = GroupKeys(c1)
  BY <1>1, <1>2, KeptBound DEF Fits
<1>6. \A k \in GroupKeys(c0) :
        /\ Groups(c0)[k] = {m \in Members(c0) : KeyOf(c0, m) = k}
        /\ Groups(c1)[k] = {m \in Members(c1) : KeyOf(c1, m) = k}
  BY <1>1, <1>2, <1>3, <1>4, GroupMembers
<1> QED
  BY <1>1, <1>4, <1>5, <1>6

LEMMA DoubledMirrors ==
  ASSUME NEW c0, NEW c1, NEW n, Doubled(c0, c1, n), Fits(c0), NEW k \in KeptGroups(c0)
  PROVE  \E to, back : Mirrors(c0, Groups(c0)[k], c1, Groups(c1)[k], to, back)
<1> DEFINE S == Groups(c0)[k]
           T == Groups(c1)[k]
           to == [m \in S |-> m]
           back == [m \in T |-> Original(n, m)]
<1>1. /\ S = {m \in Members(c0) : KeyOf(c0, m) = k}
      /\ T = {m \in Members(c1) : KeyOf(c1, m) = k}
  BY DoubledGroups
<1>2. Contributions(c0) /\ Contributions(c1)
  BY DEF Doubled
<1> HIDE DEF S, T
<1>3. \A a \in S : a \in T /\ Original(n, a) = a /\ NodeOf(c1, a) = NodeOf(c0, a)
  BY <1>1, DoubledMember
<1>4. \A t \in T : /\ Original(n, t) \in S /\ NodeOf(c1, t) = NodeOf(c0, Original(n, t))
                   /\ Original(n, t) = t \/ Original(n, t)[1] < t[1]
  BY <1>1, DoubledMember
<1>5. \A a \in S : to[a] \in T /\ back[to[a]] = a /\ to[a] = a
  BY <1>3
<1>6. \A t \in T : /\ back[t] \in S /\ NodeOf(c1, t) = NodeOf(c0, back[t])
                   /\ to[back[t]] = back[t] /\ back[t] = Original(n, t)
  BY <1>4
<1> HIDE DEF to, back
<1>7. S \subseteq Members(c0) /\ T \subseteq Members(c1) /\ S \subseteq T
  BY <1>1, <1>3
<1>8. ASSUME NEW t \in T PROVE to[back[t]] = t \/ Precedes(c1, to[back[t]], t)
  <2> DEFINE o == Original(n, t)
  <2>1. to[back[t]] = o /\ o \in S /\ NodeOf(c1, o) = NodeOf(c0, o) /\ NodeOf(c1, t) = NodeOf(c0, o)
    BY <1>3, <1>4, <1>6
  <2>2. o = t \/ o[1] < t[1]
    BY <1>4
  <2> HIDE DEF o
  <2>3. RankOf(c1, o) = RankOf(c1, t)
    BY <2>1 DEF RankOf
  <2>4. o[1] < t[1] => Precedes(c1, o, t)
    BY <1>2, <1>7, <2>1, <2>3, PrecedesDef
  <2> QED
    BY <2>1, <2>2, <2>4
<1>9. ASSUME NEW a \in S, NEW b \in S, Precedes(c0, a, b) PROVE Precedes(c1, to[a], to[b])
  <2>1. NodeOf(c1, a) = NodeOf(c0, a) /\ NodeOf(c1, b) = NodeOf(c0, b) /\ to[a] = a /\ to[b] = b
    BY <1>3, <1>5
  <2>2. Precedes(c1, a, b)
    BY <1>9, <2>1 DEF Precedes
  <2> QED
    BY <2>1, <2>2
<1>10. Mirrors(c0, S, c1, T, to, back)
  BY <1>2, <1>5, <1>6, <1>7, <1>8, <1>9 DEF Mirrors
<1> QED
  BY <1>10 DEF S, T

\* Facts, of one node.
Told(r) == [r EXCEPT !.props = [q \in DOMAIN @ \ NoteNames |-> @[q]]]

LEMMA FactsTold ==
  ASSUME NEW nodes
  PROVE  Facts(nodes) = [k \in DOMAIN nodes |-> Told(nodes[k])]
  BY DEF Facts, Told, NoteNames

\* What is told of a merged group, notes aside.
LEMMA MergedTold ==
  ASSUME NEW c0, NEW S
  PROVE  Told(MergeGroup(c0, S)) =
           [type |-> NodeOf(c0, BestTyped(c0, S)).type, key |-> canonical_key(merge_native(c0, S)),
            numa |-> merge_native(c0, S)["numa"], caps |-> UNION {NodeOf(c0, m).caps : m \in S},
            conf |-> NodeOf(c0, Foremost(c0, S)).conf,
            provider |-> NodeOf(c0, Foremost(c0, S)).provider,
            props |-> [q \in Reported(c0, S) \ NoteNames |-> merge_properties(c0, S)[q]]]
<1> DEFINE a == NodeOf(c0, BestTyped(c0, S)).type
           b == canonical_key(merge_native(c0, S))
           c == merge_native(c0, S)["numa"]
           d == UNION {NodeOf(c0, m).caps : m \in S}
           e == NodeOf(c0, Foremost(c0, S)).conf
           f == NodeOf(c0, Foremost(c0, S)).provider
           g == merge_properties(c0, S)
           h == [q \in Reported(c0, S) \ NoteNames |-> g[q]]
           r == MergeGroup(c0, S)
<1>1. r = [type |-> a, key |-> b, numa |-> c, caps |-> d, conf |-> e, provider |-> f, props |-> g]
  BY DEF MergeGroup
<1>2. DOMAIN g = Reported(c0, S) \cup NoteNames
  BY MergedValues
<1> HIDE DEF a, b, c, d, e, f, g, r
<1>3. r.props = g
  BY <1>1
<1>4. h = [q \in DOMAIN g \ NoteNames |-> g[q]]
  BY <1>2
<1>5. Told(r) = [r EXCEPT !.props = h]
  BY <1>3, <1>4 DEF Told
<1> HIDE DEF h
<1>6. Told(r) = [type |-> a, key |-> b, numa |-> c, caps |-> d, conf |-> e, provider |-> f,
                 props |-> h]
  BY <1>1, <1>5
<1> QED
  BY <1>6 DEF a, b, c, d, e, f, g, h, r

LEMMA DoubledTold ==
  ASSUME NEW c0, NEW c1, NEW n, Doubled(c0, c1, n), Fits(c0), NEW k \in KeptGroups(c0)
  PROVE  Told(MergeGroup(c1, Groups(c1)[k])) = Told(MergeGroup(c0, Groups(c0)[k]))
<1> DEFINE S == Groups(c0)[k]
           T == Groups(c1)[k]
<1>1. S # {}
  <2>1. k \in GroupKeys(c0) /\ Contributions(c0)
    BY DoubledGroups DEF Doubled
  <2> QED
    BY <2>1, GroupMembers
<1>2. PICK to, back : Mirrors(c0, S, c1, T, to, back)
  BY DoubledMirrors
<1> HIDE DEF S, T
<1>3. /\ NodeOf(c1, BestTyped(c1, T)).type = NodeOf(c0, BestTyped(c0, S)).type
      /\ merge_native(c1, T) = merge_native(c0, S)
      /\ UNION {NodeOf(c1, t).caps : t \in T} = UNION {NodeOf(c0, m).caps : m \in S}
      /\ NodeOf(c1, Foremost(c1, T)) = NodeOf(c0, Foremost(c0, S))
      /\ Reported(c1, T) = Reported(c0, S)
      /\ \A q \in Reported(c0, S) : merge_properties(c1, T)[q] = merge_properties(c0, S)[q]
  BY <1>1, <1>2, MirrorFacts
<1> DEFINE g == [q \in Reported(c0, S) \ NoteNames |-> merge_properties(c0, S)[q]]
           h == [q \in Reported(c1, T) \ NoteNames |-> merge_properties(c1, T)[q]]
           c == UNION {NodeOf(c0, m).caps : m \in S}
           d == UNION {NodeOf(c1, m).caps : m \in T}
<1>4. g = h /\ c = d
  BY <1>3
<1>5. /\ Told(MergeGroup(c0, S)) =
           [type |-> NodeOf(c0, BestTyped(c0, S)).type, key |-> canonical_key(merge_native(c0, S)),
            numa |-> merge_native(c0, S)["numa"], caps |-> c,
            conf |-> NodeOf(c0, Foremost(c0, S)).conf,
            provider |-> NodeOf(c0, Foremost(c0, S)).provider, props |-> g]
      /\ Told(MergeGroup(c1, T)) =
           [type |-> NodeOf(c1, BestTyped(c1, T)).type, key |-> canonical_key(merge_native(c1, T)),
            numa |-> merge_native(c1, T)["numa"], caps |-> d,
            conf |-> NodeOf(c1, Foremost(c1, T)).conf,
            provider |-> NodeOf(c1, Foremost(c1, T)).provider, props |-> h]
  BY MergedTold
<1> HIDE DEF c, d, g, h
<1>6. Told(MergeGroup(c1, T)) = Told(MergeGroup(c0, S))
  BY <1>3, <1>4, <1>5
<1> QED
  BY <1>6 DEF S, T

\* The edges at positions up to n of t are those of s, and so are the next n.
EdgesTwice(s, t, n) ==
  /\ n \in Nat /\ DOMAIN s \subseteq 1..n /\ DOMAIN t \subseteq 1..(n + n)
  /\ \A i \in 1..n : /\ i \in DOMAIN t <=> i \in DOMAIN s
                     /\ n + i \in DOMAIN t <=> i \in DOMAIN s
  /\ \A i \in DOMAIN s : t[i] = s[i] /\ t[n + i] = s[i]

LEMMA DeduplicateTwice ==
  ASSUME NEW n, NEW s, NEW t, EdgesTwice(s, t, n)
  PROVE  EdgeSet(Deduplicate(t)) = EdgeSet(Deduplicate(s))
<1> USE DEF EdgesTwice
<1>1. Positions(s) = DOMAIN s /\ Positions(t) = DOMAIN t
  <2>1. DOMAIN s \subseteq Nat
    OBVIOUS
  <2>2. DOMAIN t \subseteq Nat
    OBVIOUS
  <2> QED
    BY <2>1, <2>2 DEF Positions
<1>2. ASSUME NEW i \in DOMAIN t, IsFirst(t, i) PROVE i \in DOMAIN s
  <2>1. CASE i <= n
    BY <2>1
  <2>2. CASE ~(i <= n)
    <3> DEFINE j == i - n
    <3>1. j \in 1..n /\ n + j = i /\ (n = 0 \/ j < i)
      BY <2>2
    <3> HIDE DEF j
    <3>2. j \in DOMAIN s /\ j \in DOMAIN t
      BY <3>1
    <3>3. t[j] = s[j] /\ t[i] = s[j]
      BY <3>1, <3>2
    <3>4. j < i
      BY <3>1
    <3> QED
      BY <1>1, <1>2, <3>2, <3>3, <3>4 DEF IsFirst
  <2> QED
    BY <2>1, <2>2
<1>3. DOMAIN s \subseteq DOMAIN t
  OBVIOUS
<1>4. ASSUME NEW i \in DOMAIN s PROVE IsFirst(t, i) <=> IsFirst(s, i)
  <2>1. i \in 1..n /\ t[i] = s[i]
    OBVIOUS
  <2>2. ASSUME NEW j \in DOMAIN t, j < i PROVE j \in DOMAIN s /\ t[j] = s[j]
    <3>1. j \in 1..n
      BY <2>1, <2>2
    <3> QED
      BY <3>1
  <2>3. \A j \in DOMAIN s : j \in DOMAIN t /\ t[j] = s[j]
    BY <1>3
  <2>4. IsFirst(t, i) <=> \A j \in DOMAIN t : j < i => EdgeKey(t[j]) # EdgeKey(t[i])
    BY <1>1 DEF IsFirst
  <2>5. IsFirst(s, i) <=> \A j \in DOMAIN s : j < i => EdgeKey(s[j]) # EdgeKey(s[i])
    BY <1>1 DEF IsFirst
  <2>6. ASSUME IsFirst(t, i) PROVE IsFirst(s, i)
    BY <2>1, <2>3, <2>4, <2>5, <2>6
  <2>7. ASSUME IsFirst(s, i) PROVE IsFirst(t, i)
    BY <2>1, <2>2, <2>4, <2>5, <2>7
  <2> QED
    BY <2>6, <2>7
<1> DEFINE D == {j \in DOMAIN s : IsFirst(s, j)}
           C == {j \in DOMAIN t : IsFirst(t, j)}
<1>5. C = D
  BY <1>2, <1>3, <1>4
<1>6. Deduplicate(s) = [i \in D |-> s[i]] /\ Deduplicate(t) = [i \in C |-> t[i]]
  BY <1>1 DEF Deduplicate
<1>7. \A i \in D : t[i] = s[i]
  OBVIOUS
<1> HIDE DEF D, C
<1>8. Deduplicate(t) = Deduplicate(s)
  BY <1>5, <1>6, <1>7
<1> QED
  BY <1>8

LEMMA DoubledEdgeSet ==
  ASSUME NEW c0, NEW c1, NEW n, Doubled(c0, c1, n), Fits(c0), NEW p
  PROVE  EdgeSet(Deduplicate(ResolvedEdges(c1, p))) = EdgeSet(Deduplicate(ResolvedEdges(c0, p)))
<1> DEFINE es == ContributedEdges(c0)
           fs == ContributedEdges(c1)
           s == ResolvedEdges(c0, p)
           t == ResolvedEdges(c1, p)
           I == ResolvableEdges(c0, p)
           J == ResolvableEdges(c1, p)
           K == KeptGroups(c0)
           l == Len(es)
<1>1. Contributions(c0) /\ Contributions(c1)
  BY DEF Doubled
<1>2. /\ l \in Nat /\ DOMAIN es = 1..l /\ Len(fs) = l + l /\ DOMAIN fs = 1..(l + l)
      /\ \A i \in DOMAIN es : fs[i] = es[i] /\ fs[l + i] = es[i]
  BY DoubledEdges
<1>3. KeptGroups(c1) = K
  BY DoubledGroups
<1>4. /\ J \subseteq DOMAIN fs /\ IsFiniteSet(J)
      /\ Cardinality(J) <= MaxEdges => DOMAIN t = J
      /\ \A i \in DOMAIN t : t[i] = ResolvedEdge(K, p, fs[i])
  BY <1>1, <1>3, Resolved
<1>5. /\ I \subseteq DOMAIN es /\ \A i \in DOMAIN s : s[i] = ResolvedEdge(K, p, es[i])
  BY <1>1, Resolved
<1>6. DOMAIN s = I
  BY <1>1, NothingDropped
<1>7. 2 * l <= MaxEdges
  BY DEF Fits
<1>8. /\ \A i \in DOMAIN es : i \in I <=> Resolvable(K, p, es[i].from) /\ Resolvable(K, p, es[i].to)
      /\ \A i \in DOMAIN fs : i \in J <=> Resolvable(K, p, fs[i].from) /\ Resolvable(K, p, fs[i].to)
  BY <1>3 DEF ResolvableEdges
<1> HIDE DEF es, fs, s, t, I, J, K, l
<1>9. DOMAIN t = J
  <2>1. l + l \in Nat /\ l + l <= MaxEdges
    BY <1>2, <1>7, BoundsAssumption
  <2>2. IsFiniteSet(1..(l + l)) /\ Cardinality(1..(l + l)) = l + l
    BY <2>1, UpTo
  <2>3. J \in SUBSET (1..(l + l))
    BY <1>2, <1>4
  <2>4. Cardinality(J) <= l + l /\ Cardinality(J) \in Nat
    BY <1>4, <2>2, <2>3, FS_Subset, FS_CardinalityType
  <2> QED
    BY <1>4, <2>1, <2>4, BoundsAssumption
<1>10. DOMAIN s \subseteq 1..l /\ DOMAIN t \subseteq 1..(l + l)
  BY <1>2, <1>4, <1>5, <1>6, <1>9
<1>11. \A i \in 1..l : i \in DOMAIN es /\ i \in DOMAIN fs /\ l + i \in DOMAIN fs
  BY <1>2
<1>12. \A i \in 1..l : /\ i \in DOMAIN t <=> i \in DOMAIN s
                       /\ l + i \in DOMAIN t <=> i \in DOMAIN s
  BY <1>2, <1>6, <1>8, <1>9, <1>11
<1>13. \A i \in DOMAIN s : t[i] = s[i] /\ t[l + i] = s[i]
  BY <1>2, <1>4, <1>5, <1>6, <1>10, <1>12
<1>14. EdgesTwice(s, t, l)
  BY <1>2, <1>10, <1>12, <1>13 DEF EdgesTwice
<1>15. EdgeSet(Deduplicate(t)) = EdgeSet(Deduplicate(s))
  BY <1>14, DeduplicateTwice
<1> QED
  BY <1>15 DEF s, t

-----------------------------------------------------------------------------
(* The specification.                                                      *)

\* Before the merge nothing is there; after it mg and graph are what the
\* pipeline made of the input.
MergeInv ==
  /\ cs \in Inputs
  /\ (mg = NotMerged /\ graph = NotMerged) \/ Pipeline(cs, pick, mg, graph)

LEMMA MergeInvHolds == Spec => []MergeInv
<1>1. Init => MergeInv
  BY DEF Init, MergeInv
<1>2. MergeInv /\ [MergeInput]_vars => MergeInv'
  <2> SUFFICES ASSUME MergeInv, [MergeInput]_vars PROVE MergeInv'
    OBVIOUS
  <2>1. CASE MergeInput
    <3>1. cs' = cs /\ cs \in Inputs /\ Contributions(cs)
      BY <2>1, InputsAssumption DEF MergeInput, MergeInv
    <3>2. Pipeline(cs, pick', mg', graph')
      BY <2>1, <3>1 DEF MergeInput, Pipeline
    <3> QED
      BY <3>1, <3>2 DEF MergeInv
  <2>2. CASE UNCHANGED vars
    BY <2>2 DEF MergeInv, vars
  <2> QED
    BY <2>1, <2>2
<1> QED
  BY <1>1, <1>2, PTL DEF Spec

\* For all contributions, bounds and hash orders: the merged graph and what the
\* snapshot builder makes of it respect max_nodes and max_edges, and no
\* resolved edge gives way to an attach edge.
THEOREM BoundsHold == Spec => []BoundsRespected
<1>1. ASSUME MergeInv PROVE BoundsRespected
  <2>1. CASE mg = NotMerged /\ graph = NotMerged
    <3> DEFINE none == << >>
    <3>1. mg.nodes = none /\ mg.edges = none /\ graph.edges = none /\ DOMAIN none = {}
      BY <2>1 DEF NotMerged
    <3>2. EdgeSet(mg.edges) = {} /\ Positions(graph.edges) = {}
      BY <3>1 DEF EdgeSet, Positions
    <3>3. DOMAIN BuiltEdges(graph) = {}
      BY <3>2 DEF BuiltEdges, Leading
    <3>4. Cardinality({}) = 0 /\ 0 <= MaxNodes /\ 0 <= MaxEdges
      BY FS_EmptySet, BoundsAssumption
    <3> QED
      BY <3>1, <3>2, <3>3, <3>4 DEF BoundsRespected
  <2>2. CASE Pipeline(cs, pick, mg, graph)
    BY <2>2, PipelineBounds DEF BoundsRespected
  <2> QED
    BY <1>1, <2>1, <2>2 DEF MergeInv
<1> QED
  BY <1>1, MergeInvHolds, PTL

LEMMA UnboundedFits == Unbounded <=> Fits(cs)
  BY DEF Unbounded, Fits, AllKeys

\* For all contributions within the bounds and every hash order: the merged graph
\* has no dangling edge, no edge key twice, no native identity on two nodes,
\* and every contributed edge between declared refs is there.
THEOREM MergeIsWellFormed == Spec => []MergedWellFormed
<1>1. ASSUME MergeInv PROVE MergedWellFormed
  <2> SUFFICES ASSUME Unbounded, mg # NotMerged
               PROVE  /\ DanglingEnds(mg) = {}
                      /\ \A i \in Positions(mg.edges) : IsFirst(mg.edges, i)
                      /\ DuplicateIdentities(mg) = 0
                      /\ \A i \in DOMAIN ContributedEdges(cs) :
                           {ContributedEdges(cs)[i].from, ContributedEdges(cs)[i].to}
                             \subseteq DOMAIN pick \cup DOMAIN mg.nodes =>
                           EdgeKey(ResolvedEdge(DOMAIN mg.nodes, pick, ContributedEdges(cs)[i]))
                             \in EdgeKeys(mg.edges)
    BY DEF MergedWellFormed
  <2>1. Pipeline(cs, pick, mg, graph)
    BY <1>1 DEF MergeInv
  <2>2. Contributions(cs) /\ Fits(cs) /\ pick \in RefChoices(cs) /\ mg = MergeContributions(cs, pick)
    BY <2>1, UnboundedFits DEF Pipeline
  <2> QED
    BY <2>2, PipelineWellFormed
<1> QED
  BY <1>1, MergeInvHolds, PTL

LEMMA BuiltQuiet ==
  ASSUME NEW h, \A i \in Positions(h.edges), j \in Positions(h.edges) :
                  j < i => EdgeKey(h.edges[j]) # EdgeKey(h.edges[i])
  PROVE  NoEvents(Built(h), Built(h))
<1> DEFINE B == BuiltEdges(h)
<1>1. /\ DOMAIN B \subseteq Positions(h.edges)
      /\ \A i \in DOMAIN B : B[i] = h.edges[i]
  BY DEF BuiltEdges, Leading
<1>2. \A i \in Positions(B) : IsFirst(B, i)
  <2> HIDE DEF B
  <2> QED
    BY <1>1 DEF IsFirst, Positions
<1>3. Built(h).edges = B
  BY DEF Built
<1> HIDE DEF B
<1>4. UniqueKeys(Built(h))
  BY <1>2, <1>3 DEF UniqueKeys
<1> QED
  BY <1>4, QuietSelf

\* For all contributions that keep containment directed, all bounds and hash
\* orders: discovering the same hardware again is not a change.
THEOREM RediscoveryIsQuiet == Spec => []RediscoveryQuiet
<1>1. ASSUME MergeInv PROVE RediscoveryQuiet
  <2>1. CASE mg = NotMerged /\ graph = NotMerged
    <3>1. Positions(graph.edges) = {}
      BY <2>1 DEF NotMerged, Positions
    <3> QED
      BY <3>1, BuiltQuiet DEF RediscoveryQuiet
  <2>2. CASE Pipeline(cs, pick, mg, graph)
    <3>1. Contained(cs)
      BY <1>1, ContainmentAssumption DEF MergeInv, Contained
    <3>2. \A i \in Positions(graph.edges), j \in Positions(graph.edges) :
            j < i => EdgeKey(graph.edges[j]) # EdgeKey(graph.edges[i])
      BY <2>2, <3>1, AttachedKeys DEF Positions
    <3> QED
      BY <3>2, BuiltQuiet DEF RediscoveryQuiet
  <2> QED
    BY <1>1, <2>1, <2>2 DEF MergeInv
<1> QED
  BY <1>1, MergeInvHolds, PTL

-----------------------------------------------------------------------------
(* Connectedness.                                                          *)

\* A containment or attachment edge of a closed set ends in it.
LEMMA HierarchyClosed ==
  ASSUME NEW edges, NEW S, Hierarchy(edges, S) = S, NEW i \in Positions(edges),
         edges[i].type \in {"CONTAINS", "ATTACHED_TO"}, edges[i].source \in S
  PROVE  edges[i].target \in S
<1> DEFINE e == edges[i]
           E == {f \in EdgeSet(edges) : /\ f.type \in {"CONTAINS", "ATTACHED_TO"}
                                        /\ {f.source, f.target} \cap S # {}}
<1>1. e \in E
  BY DEF EdgeSet
<1>2. e.target \in UNION {{f.source, f.target} : f \in E}
  BY <1>1
<1>3. Hierarchy(edges, S) = S \cup UNION {{f.source, f.target} : f \in E}
  BY DEF Hierarchy
<1> QED
  BY <1>2, <1>3

\* For all contributions within the bounds and every hash order: with one machine
\* and an acyclic hierarchy in which only resources lack a parent, the attach
\* pass leaves no node cut off from the machine.
THEOREM AttachIsConnecting == Spec => []AttachConnects
<1>1. ASSUME MergeInv PROVE AttachConnects
  <2> SUFFICES ASSUME NEW m \in Machines(graph),
                 Unbounded, Machines(graph) = {m},
                 \A n \in DOMAIN mg.nodes \ {m} :
                   n \in Parented(mg) \/ mg.nodes[n].type \in Resources,
                 \A X \in (SUBSET DOMAIN mg.nodes) \ {{}} : \E n \in X :
                   \A e \in EdgeSet(mg.edges) :
                     (e.type \in {"CONTAINS", "ATTACHED_TO"} /\ e.target = n) => e.source \notin X,
                 NEW S \in SUBSET DOMAIN graph.nodes, m \in S, Hierarchy(graph.edges, S) = S
               PROVE  S = DOMAIN graph.nodes
    BY DEF AttachConnects
  <2>1. graph # NotMerged
    <3>1. Machines(NotMerged) = {}
      BY DEF Machines, NotMerged
    <3> QED
      BY <3>1
  <2>2. Pipeline(cs, pick, mg, graph)
    BY <1>1, <2>1 DEF MergeInv
  <2>3. /\ Contributions(cs) /\ Fits(cs) /\ pick \in RefChoices(cs)
        /\ mg = MergeContributions(cs, pick)
    BY <2>2, UnboundedFits DEF Pipeline
  <2>4. /\ graph.nodes = mg.nodes /\ DOMAIN graph.edges \subseteq Nat
        /\ DOMAIN mg.edges \subseteq DOMAIN graph.edges
        /\ \A i \in DOMAIN mg.edges : graph.edges[i] = mg.edges[i]
    BY <2>2, PipelineKeeps
  <2>5. Machines(mg) = {m}
    BY <2>4 DEF Machines
  <2>6. PICK end : Attached(mg, m, graph, end)
    BY <2>2, <2>5, PipelineShape
  <2> DEFINE X == DOMAIN mg.nodes \ S
  <2> SUFFICES ASSUME X # {} PROVE FALSE
    BY <2>4
  <2>7. PICK n \in X : \A e \in EdgeSet(mg.edges) :
          (e.type \in {"CONTAINS", "ATTACHED_TO"} /\ e.target = n) => e.source \notin X
    OBVIOUS
  <2>8. n \in DOMAIN mg.nodes \ {m} /\ n \notin S
    BY <2>7
  <2>9. CASE n \in Parented(mg)
    <3>1. PICK e \in EdgeSet(mg.edges) : e.type \in {"CONTAINS", "ATTACHED_TO"} /\ e.target = n
      BY <2>9 DEF Parented
    <3>2. PICK i \in DOMAIN mg.edges : i \in Nat /\ e = mg.edges[i]
      BY <3>1 DEF EdgeSet, Positions
    <3>3. e.source \in DOMAIN mg.nodes
      BY <2>3, <3>2, MergedEnds
    <3>4. e.source \in S
      BY <2>7, <3>1, <3>3
    <3>5. i \in Positions(graph.edges) /\ graph.edges[i] = e
      BY <2>4, <3>2 DEF Positions
    <3> QED
      BY <2>8, <3>1, <3>4, <3>5, HierarchyClosed
  <2>10. CASE n \notin Parented(mg)
    <3>1. n \in Unparented(mg, m)
      BY <2>8, <2>10 DEF Unparented
    <3>2. PICK i \in DOMAIN graph.edges : /\ graph.edges[i].source = m
                                          /\ graph.edges[i].target = n
                                          /\ graph.edges[i].type = "CONTAINS"
      BY <2>6, <3>1 DEF Attached
    <3>3. i \in Positions(graph.edges)
      BY <2>4 DEF Positions
    <3> QED
      BY <2>8, <3>2, <3>3, HierarchyClosed
  <2> QED
    BY <2>9, <2>10
<1> QED
  BY <1>1, MergeInvHolds, PTL

\* For all contributions within the bounds: unless two reports of one thing are
\* equally confident, the registration order of the providers does not show in
\* the merged node.
THEOREM OrderIsIrrelevant == Spec => []ProviderOrderIrrelevant
<1>1. ASSUME MergeInv PROVE ProviderOrderIrrelevant
  <2> SUFFICES ASSUME Unbounded,
                 \A k \in GroupKeys(cs) : \A a, b \in Groups(cs)[k] :
                   NodeOf(cs, a).conf = NodeOf(cs, b).conf => a = b,
                 NEW k \in GroupKeys(cs)
               PROVE  MergeGroup(Reverse(cs), Groups(Reverse(cs))[k]) = MergeGroup(cs, Groups(cs)[k])
    BY DEF ProviderOrderIrrelevant
  <2>1. Contributions(cs) /\ Fits(cs)
    BY <1>1, InputsAssumption, UnboundedFits DEF MergeInv
  <2>2. Distinct(cs, Groups(cs)[k])
    <3> SUFFICES ASSUME NEW a \in Groups(cs)[k], NEW b \in Groups(cs)[k],
                        RankOf(cs, a) = RankOf(cs, b)
                 PROVE  a = b
      BY DEF Distinct
    <3>1. \A x, y \in Confidence : Rank(x) = Rank(y) => x = y
      BY DEF Confidence, Rank
    <3>2. NodeOf(cs, a).conf \in Confidence /\ NodeOf(cs, b).conf \in Confidence
      BY <2>1, GroupMembers DEF ContributedNode
    <3>3. NodeOf(cs, a).conf = NodeOf(cs, b).conf
      BY <3>1, <3>2 DEF RankOf
    <3> QED
      BY <3>3
  <2>3. Reversed(cs, Reverse(cs), Len(cs))
    BY <2>1, ReverseReversed
  <2> QED
    BY <2>1, <2>2, <2>3, ReversedGroup
<1> QED
  BY <1>1, MergeInvHolds, PTL

\* For all contributions within the bounds: contributing everything once more
\* changes nothing of the merged graph but the merge notes.
THEOREM MergeIsIdempotent == Spec => []MergeIdempotent
<1>1. ASSUME MergeInv PROVE MergeIdempotent
  <2> SUFFICES ASSUME Unbounded, mg # NotMerged,
                      NEW twice, twice = MergeContributions(cs \o cs, pick)
               PROVE  Facts(twice.nodes) = Facts(mg.nodes) /\ EdgeSet(twice.edges) = EdgeSet(mg.edges)
    BY DEF MergeIdempotent
  <2>1. Contributions(cs) /\ Fits(cs) /\ Pipeline(cs, pick, mg, graph)
    BY <1>1, InputsAssumption, UnboundedFits DEF MergeInv
  <2>2. mg = MergeContributions(cs, pick)
    BY <2>1 DEF Pipeline
  <2> DEFINE c1 == cs \o cs
             K == KeptGroups(cs)
             n == Len(cs)
  <2>3. Doubled(cs, c1, n)
    BY <2>1, Doubling
  <2>4. twice = MergeContributions(c1, pick)
    OBVIOUS
  <2> HIDE DEF c1, n
  <2>5. KeptGroups(c1) = K
    BY <2>1, <2>3, DoubledGroups
  <2>6. /\ DOMAIN mg.nodes = K /\ \A k \in K : mg.nodes[k] = MergeGroup(cs, Groups(cs)[k])
        /\ mg.edges = Deduplicate(ResolvedEdges(cs, pick))
    BY <2>2, MergeShape
  <2>7. /\ DOMAIN twice.nodes = K /\ \A k \in K : twice.nodes[k] = MergeGroup(c1, Groups(c1)[k])
        /\ twice.edges = Deduplicate(ResolvedEdges(c1, pick))
    BY <2>4, <2>5, MergeShape
  <2>8. EdgeSet(twice.edges) = EdgeSet(mg.edges)
    BY <2>1, <2>3, <2>6, <2>7, DoubledEdgeSet
  <2>9. \A k \in K : Told(twice.nodes[k]) = Told(mg.nodes[k])
    BY <2>1, <2>3, <2>6, <2>7, DoubledTold
  <2>10. /\ Facts(mg.nodes) = [k \in K |-> Told(mg.nodes[k])]
         /\ Facts(twice.nodes) = [k \in K |-> Told(twice.nodes[k])]
    BY <2>6, <2>7, FactsTold
  <2>11. Facts(twice.nodes) = Facts(mg.nodes)
    BY <2>9, <2>10
  <2> QED
    BY <2>8, <2>11
<1> QED
  BY <1>1, MergeInvHolds, PTL
=============================================================================
