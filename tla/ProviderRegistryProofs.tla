----------------------- MODULE ProviderRegistryProofs ------------------------
(***************************************************************************)
(* byName_ and order_ stay consistent and iteration order is stable, for   *)
(* any number of providers and names and any sequence of registry calls.   *)
(***************************************************************************)
EXTENDS ProviderRegistry, TLAPS

RegistryInv == RegistryTypeOK /\ RegistryConsistent

\* Appending a name that is not registered keeps the positions injective.
LEMMA RegisterPreserves ==
  ASSUME RegistryInv, NEW p \in Providers, register_provider(p)
  PROVE  RegistryInv'
<1> DEFINE n == NameOf[p]
<1>1. n \in Names
  BY RegistryAssumption
<1>2. /\ DOMAIN byName' = DOMAIN byName \cup {n}
      /\ \A m \in DOMAIN byName' : byName'[m] = IF m = n THEN p ELSE byName[m]
  BY DEF register_provider, Insert
<1>3. CASE n \in DOMAIN byName
  <2>1. order' = order
    BY <1>3 DEF register_provider
  <2> QED
    BY <1>1, <1>2, <1>3, <2>1 DEF RegistryInv, RegistryTypeOK, RegistryConsistent
<1>4. CASE n \notin DOMAIN byName
  <2>1. order' = Append(order, n)
    BY <1>4 DEF register_provider
  <2>2. order \in Seq(Names)
    BY DEF RegistryInv, RegistryTypeOK
  <2>3. /\ order' \in Seq(Names)
        /\ DOMAIN order = 1..Len(order)
        /\ DOMAIN order' = 1..(Len(order) + 1)
        /\ \A i \in 1..Len(order) : order'[i] = order[i]
        /\ order'[Len(order) + 1] = n
        /\ Len(order) \in Nat
    BY <1>1, <2>1, <2>2
  <2>4. \A i \in DOMAIN order : order[i] \in DOMAIN byName
    BY DEF RegistryInv, RegistryConsistent
  <2>5. {order'[i] : i \in DOMAIN order'} = DOMAIN byName'
    <3>1. {order'[i] : i \in DOMAIN order'} = {order[i] : i \in DOMAIN order} \cup {n}
      BY <2>3
    <3> QED
      BY <1>2, <3>1 DEF RegistryInv, RegistryConsistent
  <2>6. \A i, j \in DOMAIN order' : order'[i] = order'[j] => i = j
    BY <1>4, <2>3, <2>4 DEF RegistryInv, RegistryConsistent
  <2> QED
    BY <1>1, <1>2, <2>3, <2>5, <2>6 DEF RegistryInv, RegistryTypeOK, RegistryConsistent
<1> QED
  BY <1>3, <1>4

\* The name is at one position k, and closing the gap at k removes it.
LEMMA UnregisterPreserves ==
  ASSUME RegistryInv, NEW n \in Names, unregister(n)
  PROVE  RegistryInv'
<1>1. /\ DOMAIN byName' = DOMAIN byName \ {n}
      /\ \A m \in DOMAIN byName' : byName'[m] = byName[m]
      /\ n \in DOMAIN byName
  BY DEF unregister, Erase
<1>2. /\ order \in Seq(Names)
      /\ DOMAIN order = 1..Len(order)
      /\ Len(order) \in Nat
  BY DEF RegistryInv, RegistryTypeOK
<1>3. PICK k \in DOMAIN order :
        /\ order[k] = n
        /\ order' = [i \in 1..(Len(order) - 1) |->
                       IF i < k THEN order[i] ELSE order[i + 1]]
  <2>1. \E i \in DOMAIN order : order[i] = n
    BY <1>1 DEF RegistryInv, RegistryConsistent
  <2> QED
    BY <2>1 DEF unregister
<1>4. /\ DOMAIN order' = 1..(Len(order) - 1)
      /\ \A i \in 1..(Len(order) - 1) : order'[i] = IF i < k THEN order[i] ELSE order[i + 1]
  BY <1>3
<1>5. order' \in Seq(Names)
  <2>1. Len(order) - 1 \in Nat
    BY <1>2
  <2>2. order' \in [1..(Len(order) - 1) -> Names]
    <3>1. \A i \in 1..(Len(order) - 1) : i \in DOMAIN order /\ i + 1 \in DOMAIN order
      BY <1>2
    <3>2. \A i \in DOMAIN order : order[i] \in Names
      BY <1>2
    <3> QED
      BY <1>3, <3>1, <3>2
  <2> QED
    BY <2>1, <2>2
<1>6. \A i, j \in DOMAIN order : order[i] = order[j] => i = j
  BY DEF RegistryInv, RegistryConsistent
<1>7. \A i, j \in DOMAIN order' : order'[i] = order'[j] => i = j
  <2> SUFFICES ASSUME NEW i \in DOMAIN order', NEW j \in DOMAIN order',
                      order'[i] = order'[j]
               PROVE  i = j
    OBVIOUS
  <2> DEFINE old(x) == IF x < k THEN x ELSE x + 1
  <2>1. k \in Nat /\ i \in Nat /\ j \in Nat
    BY <1>2, <1>4
  <2>2. old(i) \in DOMAIN order /\ old(j) \in DOMAIN order
    BY <1>2, <1>4
  <2>3. order'[i] = order[old(i)] /\ order'[j] = order[old(j)]
    BY <1>4
  <2>4. old(i) = old(j)
    BY <1>6, <2>2, <2>3
  <2> QED
    BY <2>1, <2>4
<1>8. {order'[i] : i \in DOMAIN order'} = DOMAIN byName'
  <2>1. \A i \in DOMAIN order' : order'[i] \in DOMAIN byName'
    <3>1. \A i \in DOMAIN order' : \E j \in DOMAIN order : order'[i] = order[j] /\ j # k
      BY <1>2, <1>4
    <3>2. \A j \in DOMAIN order : order[j] \in DOMAIN byName
      BY DEF RegistryInv, RegistryConsistent
    <3> QED
      BY <1>1, <1>3, <1>6, <3>1, <3>2
  <2>2. ASSUME NEW m \in DOMAIN byName'
        PROVE  \E i \in DOMAIN order' : order'[i] = m
    <3>1. PICK j \in DOMAIN order : order[j] = m
      BY <1>1 DEF RegistryInv, RegistryConsistent
    <3>2. j # k
      BY <1>1, <1>3, <3>1
    <3>3. CASE j < k
      BY <1>2, <1>4, <3>1, <3>3
    <3>4. CASE j > k
      <4>1. j - 1 \in DOMAIN order' /\ order'[j - 1] = order[j]
        BY <1>2, <1>4, <3>4
      <4> QED
        BY <3>1, <4>1
    <3> QED
      BY <1>2, <3>2, <3>3, <3>4
  <2> QED
    BY <2>1, <2>2
<1> QED
  BY <1>1, <1>5, <1>7, <1>8 DEF RegistryInv, RegistryTypeOK, RegistryConsistent

\* RegistryInv is inductive.
LEMMA RegistryInvariant == RegistrySpec => []RegistryInv
<1>1. RegistryInit => RegistryInv
  BY DEF RegistryInit, RegistryInv, RegistryTypeOK, RegistryConsistent
<1>2. RegistryInv /\ [RegistryNext]_registryVars => RegistryInv'
  <2> SUFFICES ASSUME RegistryInv, [RegistryNext]_registryVars
               PROVE  RegistryInv'
    OBVIOUS
  <2>1. CASE \E p \in Providers : register_provider(p)
    BY <2>1, RegisterPreserves
  <2>2. CASE \E n \in Names : unregister(n)
    BY <2>2, UnregisterPreserves
  <2>3. CASE clear
    BY <2>3 DEF clear, RegistryInv, RegistryTypeOK, RegistryConsistent
  <2>4. CASE UNCHANGED registryVars
    BY <2>4 DEF registryVars, RegistryInv, RegistryTypeOK, RegistryConsistent
  <2> QED
    BY <2>1, <2>2, <2>3, <2>4 DEF RegistryNext
<1> QED
  BY <1>1, <1>2, PTL DEF RegistrySpec

\* After any calls of register_provider, unregister and clear, byName_ and
\* order_ list the same names, each once, and every provider is found under
\* the name it reports.
THEOREM RegistryStaysConsistent == RegistrySpec => []RegistryConsistent
<1>1. RegistryInv => RegistryConsistent
  BY DEF RegistryInv
<1> QED
  BY <1>1, RegistryInvariant, PTL

\* Registering a name again (a stub overridden by a real backend) or removing
\* another one never changes the relative order of two names that stay, so the
\* precedence between providers of equal confidence is stable.
THEOREM RegistrationOrderStable == RegistrySpec => OrderStable
<1> DEFINE Keeps == \A i, j \in DOMAIN order : \A k, l \in DOMAIN order' :
              (i < j /\ order'[k] = order[i] /\ order'[l] = order[j]) => k < l
<1>2. RegistryInv /\ [RegistryNext]_registryVars => [Keeps]_registryVars
  <2> SUFFICES ASSUME RegistryInv, RegistryNext,
                      NEW i \in DOMAIN order, NEW j \in DOMAIN order,
                      NEW k \in DOMAIN order', NEW l \in DOMAIN order',
                      i < j, order'[k] = order[i], order'[l] = order[j]
               PROVE  k < l
    OBVIOUS
  <2>0. /\ order \in Seq(Names)
        /\ DOMAIN order = 1..Len(order)
        /\ \A x, y \in DOMAIN order : order[x] = order[y] => x = y
        /\ \A x \in DOMAIN order : order[x] \in DOMAIN byName
    BY DEF RegistryInv, RegistryTypeOK, RegistryConsistent
  <2>1. CASE \E p \in Providers : register_provider(p)
    <3>1. PICK p \in Providers : register_provider(p)
      BY <2>1
    <3>2. CASE NameOf[p] \in DOMAIN byName
      BY <2>0, <3>1, <3>2 DEF register_provider
    <3>3. CASE NameOf[p] \notin DOMAIN byName
      <4>1. NameOf[p] \in Names /\ order' = Append(order, NameOf[p])
        BY <3>1, <3>3, RegistryAssumption DEF register_provider
      <4>2. /\ DOMAIN order' = 1..(Len(order) + 1)
            /\ \A x \in 1..Len(order) : order'[x] = order[x]
            /\ order'[Len(order) + 1] = NameOf[p]
            /\ Len(order) \in Nat
        BY <2>0, <4>1
      <4>3. k \in DOMAIN order /\ l \in DOMAIN order
        BY <2>0, <3>3, <4>2
      <4> QED
        BY <2>0, <4>2, <4>3
    <3> QED
      BY <3>2, <3>3
  <2>2. CASE \E n \in Names : unregister(n)
    <3>1. PICK n \in Names : unregister(n)
      BY <2>2
    <3>2. PICK h \in Nat :
            /\ DOMAIN order' = 1..(Len(order) - 1)
            /\ \A x \in 1..(Len(order) - 1) :
                 order'[x] = IF x < h THEN order[x] ELSE order[x + 1]
      <4>1. \E x \in DOMAIN order : order[x] = n
        BY <3>1 DEF unregister, RegistryInv, RegistryConsistent
      <4>2. (CHOOSE x \in DOMAIN order : order[x] = n) \in Nat
        BY <2>0, <4>1
      <4> QED
        BY <3>1, <4>2 DEF unregister
    <3> DEFINE old(x) == IF x < h THEN x ELSE x + 1
    <3>3. old(k) \in DOMAIN order /\ old(l) \in DOMAIN order /\ k \in Nat /\ l \in Nat
      BY <2>0, <3>2
    <3>4. order[old(k)] = order[i] /\ order[old(l)] = order[j]
      BY <3>2
    <3>5. old(k) = i /\ old(l) = j
      BY <2>0, <3>3, <3>4
    <3> QED
      BY <2>0, <3>3, <3>5
  <2>3. CASE clear
    BY <2>3 DEF clear
  <2> QED
    BY <2>1, <2>2, <2>3 DEF RegistryNext
<1>3. RegistrySpec => []RegistryInv
  BY RegistryInvariant
<1> QED
  BY <1>2, <1>3, PTL DEF RegistrySpec, OrderStable
=============================================================================
