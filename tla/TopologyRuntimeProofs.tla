------------------------ MODULE TopologyRuntimeProofs ------------------------
(***************************************************************************)
(* What discover() guarantees for any number of threads, providers and     *)
(* discoveries, for any merge result, and with the registry and telemetry  *)
(* changing at any moment: the generation number can be trusted, and the   *)
(* runtime implements the atomic register of PublishedTopology.            *)
(***************************************************************************)
EXTENDS TopologyRuntime, GraphLemmas, ProviderRegistryProofs,
        SequenceTheorems

\* The generation discover() must give to graph g now.
GenerationFor(g) ==
  IF current.id = 0 THEN 1
  ELSE IF MaterialChange(current, g) THEN current.generation + 1
       ELSE current.generation

\* The snapshot that will be published is built.
IsBuilt(t) == pc[t] \in {"edges", "types", "validation", "publish"}

\* discover_mu_: a thread inside discover() holds the lock.
LockInv == \A t \in Threads : pc[t] # "idle" => lock = t

\* What a discovery has decided is still right when it publishes: the snapshot
\* it compared with is still the published one.
DecidedInv ==
  \A t \in Threads :
    /\ pc[t] = "build" => gen[t] = GenerationFor(Built(merged[t]))
    /\ IsBuilt(t) =>
         /\ snap[t].generation = GenerationFor(snap[t])
         /\ snap[t].id > current.id
         /\ snap[t].id <= snapshot_counter

\* current_ is the last snapshot published, its number the largest given away,
\* and its generation the largest so far.
HistoryInv ==
  /\ current.id <= snapshot_counter
  /\ current.id = 0 <=> Len(history) = 0
  /\ Len(history) > 0 => current = history[Len(history)]
  /\ \A i \in DOMAIN history : history[i].generation <= current.generation

TypeInv == TypeOK /\ RegistryConsistent

Inv == TypeInv /\ LockInv /\ DecidedInv /\ HistoryInv /\ GenerationSound

-----------------------------------------------------------------------------
(* Typing.                                                                 *)

\* A snapshot that build_snapshot makes is well typed.
LEMMA BuiltSnapshotTyped ==
  ASSUME NEW t, NEW i \in Nat, NEW g \in Nat
  PROVE  IsSnapshot(build_snapshot(t, i, g))
BY DEF IsSnapshot, build_snapshot

\* Appending a typed snapshot keeps the history a typed sequence.
LEMMA HistoryTyped ==
  ASSUME NEW h, h \in Seq(Range(h)), NEW s
  PROVE  /\ Append(h, s) \in Seq(Range(Append(h, s)))
         /\ Len(h) \in Nat
         /\ DOMAIN h = 1..Len(h)
         /\ DOMAIN Append(h, s) = 1..(Len(h) + 1)
         /\ Len(Append(h, s)) = Len(h) + 1
         /\ \A i \in 1..Len(h) : Append(h, s)[i] = h[i]
         /\ Append(h, s)[Len(h) + 1] = s
<1> DEFINE S == Range(h) \cup {s}
           a == Append(h, s)
<1>1. h \in Seq(S)
  BY SeqMonotonic
<1>2. s \in S
  OBVIOUS
<1> HIDE DEF S
<1>3. /\ a \in Seq(S)
      /\ Len(h) \in Nat
      /\ DOMAIN h = 1..Len(h)
      /\ DOMAIN a = 1..(Len(h) + 1)
      /\ Len(a) = Len(h) + 1
      /\ \A i \in 1..Len(h) : a[i] = h[i]
      /\ a[Len(h) + 1] = s
  BY <1>1, <1>2
<1>4. a \in Seq(Range(a))
  BY <1>3, SeqOfRange
<1> QED
  BY <1>3, <1>4

\* Every step of discover() preserves the types.
LEMMA StepTyped ==
  ASSUME TypeInv, NEW t \in Threads, Step(t)
  PROVE  TypeInv'
<1> USE DEF TypeInv, TypeOK, RegistryTypeOK, RegistryConsistent, PC, Goto
<1>1. CASE CopyProviders(t)
  <2>1. \A i \in DOMAIN all : i \in Nat /\ all[i] \in Providers
    BY DEF all
  <2>2. queue' = [queue EXCEPT ![t] = all]
    BY <1>1 DEF CopyProviders
  <2> QED
    BY <1>1, <2>1, <2>2 DEF CopyProviders, registryVars, bounds
<1>2. CASE RunProvider(t)
  <2>1. \A i \in DOMAIN Erase(queue[t], Upcoming(t)) :
          i \in DOMAIN queue[t] /\ Erase(queue[t], Upcoming(t))[i] = queue[t][i]
    BY DEF Erase
  <2>2. queue' = [queue EXCEPT ![t] = Erase(queue[t], Upcoming(t))]
    BY <1>2 DEF RunProvider
  <2>3. pc' \in [Threads -> PC]
    BY <1>2 DEF RunProvider
  <2> QED
    BY <1>2, <2>1, <2>2, <2>3 DEF RunProvider, registryVars, bounds
<1>3. CASE ProviderEscapes(t)
  BY <1>3 DEF ProviderEscapes, registryVars, bounds
<1>4. CASE RecordPartial(t)
  BY <1>4 DEF RecordPartial, registryVars, bounds, locals
<1>5. CASE Merge(t)
  BY <1>5 DEF Merge, registryVars, bounds
<1>6. CASE DecideGeneration(t)
  <2>1. current.generation \in Nat
    BY DEF IsSnapshot
  <2>2. gen' \in [Threads -> Nat] /\ snapshot_counter' \in Nat
    BY <1>6, <2>1 DEF DecideGeneration
  <2> QED
    BY <1>6, <2>2 DEF DecideGeneration, registryVars, bounds
<1>7. CASE BuildFinal(t)
  <2>1. IsSnapshot(build_snapshot(t, snapshot_counter + 1, gen[t]))
    BY BuiltSnapshotTyped
  <2>2. snap' = [snap EXCEPT ![t] = build_snapshot(t, snapshot_counter + 1, gen[t])]
    BY <1>7 DEF BuildFinal
  <2>3. DOMAIN snap' = Threads /\ \A u \in Threads : IsSnapshot(snap'[u])
    BY <2>1, <2>2
  <2> QED
    BY <1>7, <2>3 DEF BuildFinal, registryVars, bounds
<1>8. CASE RecordCreated(t)
  <2>1. pc' \in [Threads -> PC]
    BY <1>8 DEF RecordCreated
  <2> QED
    BY <1>8, <2>1 DEF RecordCreated, registryVars, bounds, locals
<1>9. CASE Publish(t)
  <2>1. IsSnapshot(NoSnapshot)
    BY DEF IsSnapshot, NoSnapshot, Published!NoSnapshot
  <2>2. history' = Append(history, snap[t]) /\ current' = snap[t]
    BY <1>9 DEF Publish
  <2>3. history' \in Seq(Range(history')) /\ \A i \in DOMAIN history' : IsSnapshot(history'[i])
    BY <2>2, HistoryTyped
  <2>4. DOMAIN snap' = Threads /\ \A u \in Threads : IsSnapshot(snap'[u])
    BY <1>9, <2>1 DEF Publish
  <2> QED
    BY <1>9, <2>2, <2>3, <2>4 DEF Publish, registryVars, bounds
<1>10. CASE RecordEdges(t)
  BY <1>10 DEF RecordEdges, registryVars, bounds
<1>11. CASE RecordType(t)
  BY <1>11 DEF RecordType, registryVars, bounds
<1>12. CASE RecordValidation(t)
  BY <1>12 DEF RecordValidation, registryVars, bounds, locals
<1> QED
  BY <1>1, <1>2, <1>3, <1>4, <1>5, <1>6, <1>7, <1>8, <1>9, <1>10, <1>11, <1>12 DEF Step

\* So do the steps that begin a discovery, change the registry or reset the
\* telemetry.
LEMMA NextTyped ==
  ASSUME TypeInv, [Next]_vars
  PROVE  TypeInv'
<1>1. CASE \E t \in Threads : Discover(t)
  BY <1>1 DEF Discover, Goto, TypeInv, TypeOK, RegistryTypeOK, RegistryConsistent, PC,
              registryVars, locals
<1>2. CASE \E t \in Threads : Step(t)
  BY <1>2, StepTyped
<1>3. CASE ChangeRegistry
  <2>1. RegistryInv
    BY DEF TypeInv, TypeOK, RegistryInv
  <2>2. RegistryInv'
    <3>1. CASE \E p \in Providers : register_provider(p)
      BY <2>1, <3>1, RegisterPreserves
    <3>2. CASE \E n \in Names : unregister(n)
      BY <2>1, <3>2, UnregisterPreserves
    <3>3. CASE clear
      BY <3>3 DEF clear, RegistryInv, RegistryTypeOK, RegistryConsistent
    <3> QED
      BY <1>3, <3>1, <3>2, <3>3 DEF ChangeRegistry, RegistryNext
  <2> QED
    BY <1>3, <2>2 DEF ChangeRegistry, RegistryInv, TypeInv, TypeOK, locals, bounds
<1>4. CASE ResetTelemetry
  <2>1. /\ {since'.resets, since'.runs, since'.created, since'.generation} \subseteq Nat
        /\ since'.quiet \in BOOLEAN
    <3>1. Len(history) \in Nat /\ current.generation \in Nat /\ started \in Nat
          /\ since.resets \in Nat
      BY DEF TypeInv, TypeOK, IsSnapshot
    <3> QED
      BY <1>4, <3>1 DEF ResetTelemetry
  <2> QED
    BY <1>4, <2>1 DEF ResetTelemetry, TypeInv, TypeOK, RegistryTypeOK, RegistryConsistent,
                      registryVars, locals
<1>5. CASE UNCHANGED vars
  BY <1>5 DEF vars, locals, bounds, TypeInv, TypeOK, RegistryTypeOK, RegistryConsistent
<1> QED
  BY <1>1, <1>2, <1>3, <1>4, <1>5 DEF Next

\* Nothing is registered, running or published at the beginning.
LEMMA InitTyped == Init => TypeInv
<1> SUFFICES ASSUME Init PROVE TypeInv
  OBVIOUS
<1>1. RegistryTypeOK /\ RegistryConsistent
  BY DEF Init, RegistryInit, RegistryTypeOK, RegistryConsistent
<1>2. IsSnapshot(NoSnapshot)
  BY DEF IsSnapshot, NoSnapshot, Published!NoSnapshot
<1>3. history = << >> /\ history \in Seq(Range(history)) /\ DOMAIN history = {}
  BY DEF Init
<1>4. \A t \in Threads : DOMAIN queue[t] = {}
  BY DEF Init
<1>5. DOMAIN snap = Threads /\ \A t \in Threads : IsSnapshot(snap[t])
  BY <1>2 DEF Init
<1>6. pc \in [Threads -> PC] /\ gen \in [Threads -> Nat]
  BY DEF Init, PC
<1> QED
  BY <1>1, <1>2, <1>3, <1>4, <1>5, <1>6 DEF Init, TypeInv, TypeOK

-----------------------------------------------------------------------------
(* Generations.                                                            *)

\* A comparison sees only nodes and edges.
LEMMA SameGraphSameChange ==
  ASSUME NEW p, NEW g, NEW h, g.nodes = h.nodes, g.edges = h.edges
  PROVE  MaterialChange(p, g) <=> MaterialChange(p, h)
BY DEF MaterialChange, NodeAdded, NodeRemoved, CommonNodes, CapabilityChanged,
       LocalityChanged, ProviderChanged, EdgeAdded, EdgeRemoved, EdgePropertyChanged

\* The facts about generations survive every step that leaves current_ alone.
LEMMA InsideStep ==
  ASSUME Inv, NEW t \in Threads,
         \/ CopyProviders(t) \/ RunProvider(t) \/ ProviderEscapes(t)
         \/ RecordPartial(t) \/ Merge(t) \/ DecideGeneration(t)
         \/ BuildFinal(t) \/ RecordEdges(t) \/ RecordType(t)
         \/ RecordCreated(t) \/ RecordValidation(t)
  PROVE  LockInv' /\ DecidedInv' /\ HistoryInv' /\ GenerationSound'
<1> USE DEF Inv, TypeInv, TypeOK
<1>1. UNCHANGED <<current, history>> /\ lock' \in {lock, NoThread}
  BY DEF CopyProviders, RunProvider, ProviderEscapes, RecordPartial, Merge,
         DecideGeneration, BuildFinal, RecordEdges, RecordType, RecordCreated,
         RecordValidation
<1>2. snapshot_counter' \in Nat /\ snapshot_counter' >= snapshot_counter
  BY DEF CopyProviders, RunProvider, ProviderEscapes, RecordPartial, Merge,
         DecideGeneration, BuildFinal, RecordEdges, RecordType, RecordCreated,
         RecordValidation
<1>3. current.id \in Nat /\ current.generation \in Nat
  BY DEF IsSnapshot
<1>4. lock = t /\ \A u \in Threads \ {t} : pc[u] = "idle" /\ pc'[u] = "idle"
  <2>1. pc[t] # "idle" /\ \A u \in Threads \ {t} : pc'[u] = pc[u]
    BY DEF CopyProviders, RunProvider, ProviderEscapes, RecordPartial, Merge,
           DecideGeneration, BuildFinal, RecordEdges, RecordType, RecordCreated,
         RecordValidation, Goto
  <2> QED
    BY <2>1 DEF LockInv
<1>5. LockInv'
  <2>1. pc'[t] # "idle" => lock' = t
    BY <1>4 DEF CopyProviders, RunProvider, ProviderEscapes, RecordPartial, Merge,
                DecideGeneration, BuildFinal, RecordEdges, RecordType, RecordCreated,
         RecordValidation, Goto
  <2> QED
    BY <1>4, <2>1 DEF LockInv
<1>6. HistoryInv'
  BY <1>1, <1>2, <1>3 DEF HistoryInv
<1>7. GenerationSound'
  BY <1>1 DEF GenerationSound
<1>8. DecidedInv'
  <2> SUFFICES /\ pc'[t] = "build" => gen'[t] = GenerationFor(Built(merged'[t]))
               /\ IsBuilt(t)' =>
                    /\ snap'[t].generation = GenerationFor(snap'[t])
                    /\ snap'[t].id > current.id
                    /\ snap'[t].id <= snapshot_counter'
    BY <1>1, <1>4 DEF DecidedInv, GenerationFor, IsBuilt
  <2>1. CASE CopyProviders(t) \/ RunProvider(t) \/ ProviderEscapes(t)
             \/ RecordPartial(t) \/ Merge(t)
    <3>1. pc'[t] # "build" /\ ~IsBuilt(t)'
      BY <2>1 DEF IsBuilt, CopyProviders, RunProvider, ProviderEscapes, RecordPartial, Merge, Goto
    <3> QED
      BY <3>1
  <2>2. CASE DecideGeneration(t)
    <3>1. pc'[t] = "build" /\ ~IsBuilt(t)'
      BY <2>2 DEF DecideGeneration, Goto, IsBuilt
    <3>2. gen'[t] = GenerationFor(Built(merged[t])) /\ merged' = merged
      BY <2>2 DEF DecideGeneration, GenerationFor
    <3> QED
      BY <3>1, <3>2
  <2>3. CASE BuildFinal(t)
    <3> DEFINE s == build_snapshot(t, snapshot_counter + 1, gen[t])
               b == Built(merged[t])
    <3>1. pc'[t] = "edges" /\ snap'[t] = s /\ snapshot_counter' = snapshot_counter + 1
      BY <2>3 DEF BuildFinal, Goto
    <3>2. /\ s.nodes = b.nodes /\ s.edges = b.edges
          /\ s.id = snapshot_counter + 1 /\ s.generation = gen[t]
      BY DEF build_snapshot
    <3>3. gen[t] = GenerationFor(b)
      BY <2>3 DEF BuildFinal, DecidedInv
    <3>4. GenerationFor(b) = GenerationFor(s)
      <4> HIDE DEF s, b
      <4> QED
        BY <3>2, SameGraphSameChange DEF GenerationFor
    <3>5. s.id > current.id
      BY <1>3, <3>2 DEF HistoryInv
    <3> HIDE DEF s, b
    <3> QED
      BY <3>1, <3>2, <3>3, <3>4, <3>5
  <2>4. CASE RecordEdges(t) \/ RecordType(t) \/ RecordCreated(t) \/ RecordValidation(t)
    <3>1. /\ IsBuilt(t) /\ pc'[t] # "build"
          /\ UNCHANGED <<snap, snapshot_counter>>
      BY <2>4 DEF RecordEdges, RecordType, RecordCreated, RecordValidation, Goto, locals, IsBuilt
    <3> QED
      BY <3>1 DEF DecidedInv
  <2> QED
    BY <2>1, <2>2, <2>3, <2>4
<1> QED
  BY <1>5, <1>6, <1>7, <1>8

\* Publication: the snapshot stored was compared with the one it replaces, and
\* by transitivity with every older one of its generation.
LEMMA PublishStep ==
  ASSUME Inv, NEW t \in Threads, Publish(t)
  PROVE  LockInv' /\ DecidedInv' /\ HistoryInv' /\ GenerationSound'
<1> DEFINE s == snap[t]
           n == Len(history)
<1>1. /\ pc[t] = "publish" /\ pc' = [pc EXCEPT ![t] = "idle"]
      /\ current' = s /\ history' = Append(history, s) /\ snapshot_counter' = snapshot_counter
  BY DEF Publish, Goto
<1>2. \A u \in Threads : pc'[u] = "idle"
  BY <1>1 DEF Inv, TypeInv, TypeOK, LockInv
<1>3. /\ s.generation = GenerationFor(s) /\ s.id > current.id /\ s.id <= snapshot_counter
  BY <1>1 DEF Inv, DecidedInv, IsBuilt
<1>4. /\ n \in Nat /\ DOMAIN history = 1..n
      /\ DOMAIN history' = 1..(n + 1) /\ Len(history') = n + 1
      /\ \A i \in 1..n : history'[i] = history[i]
      /\ history'[n + 1] = s
  BY <1>1, HistoryTyped DEF Inv, TypeInv, TypeOK
<1>5. /\ current.id \in Nat /\ current.generation \in Nat
      /\ s.id \in Nat /\ s.generation \in Nat /\ snapshot_counter \in Nat
      /\ \A i \in 1..n : history[i].generation \in Nat
  BY <1>4 DEF Inv, TypeInv, TypeOK, IsSnapshot
<1> HIDE DEF s, n
<1>6. LockInv' /\ DecidedInv'
  BY <1>2 DEF LockInv, DecidedInv, IsBuilt
<1>7. n > 0 => s.generation >= current.generation
  <2>1. n > 0 => current.id # 0
    BY <1>4 DEF Inv, HistoryInv, n
  <2> QED
    BY <1>3, <1>5, <2>1 DEF GenerationFor
<1>8. HistoryInv'
  <2>1. \A i \in 1..n : history[i].generation <= current.generation
    BY <1>4 DEF Inv, HistoryInv
  <2>2. \A i \in 1..n : history[i].generation <= s.generation
    BY <1>4, <1>5, <1>7, <2>1
  <2>3. s.id # 0
    BY <1>3, <1>5
  <2> QED
    BY <1>1, <1>3, <1>4, <1>5, <2>2, <2>3 DEF HistoryInv
<1>9. GenerationSound'
  <2> SUFFICES ASSUME NEW i \in 1..(n + 1), NEW j \in 1..(n + 1), i < j,
                      history'[i].generation = history'[j].generation
               PROVE  ~MaterialChange(history'[i], history'[j])
    BY <1>4 DEF GenerationSound
  <2>1. CASE j \in 1..n
    <3>1. i \in 1..n
      BY <1>4, <2>1
    <3> QED
      BY <1>4, <2>1, <3>1 DEF Inv, GenerationSound
  <2>2. CASE j = n + 1
    <3>1. /\ i \in 1..n /\ n \in 1..n
          /\ history'[i] = history[i] /\ history'[j] = s
      BY <1>4, <2>2
    <3>2. current = history[n] /\ current.id # 0
      BY <1>4, <3>1 DEF Inv, HistoryInv, n
    <3>3. history[i].generation <= current.generation
      BY <1>4, <3>1 DEF Inv, HistoryInv
    <3>4. ~MaterialChange(current, s)
      BY <1>3, <1>5, <3>1, <3>2, <3>3 DEF GenerationFor
    <3>5. history[i].generation = history[n].generation
      BY <1>3, <3>1, <3>2, <3>4 DEF GenerationFor
    <3>6. CASE i = n
      BY <3>1, <3>2, <3>4, <3>6
    <3>7. CASE i < n
      <4>1. ~MaterialChange(history[i], current)
        BY <1>4, <3>1, <3>2, <3>5, <3>7 DEF Inv, GenerationSound
      <4> QED
        BY <3>1, <3>4, <4>1, MaterialChangeTransitive
    <3> QED
      BY <1>4, <3>1, <3>6, <3>7
  <2> QED
    BY <1>4, <2>1, <2>2
<1> QED
  BY <1>6, <1>8, <1>9

\* A runtime that has not discovered anything satisfies the invariant.
LEMMA InvInit == Init => Inv
<1> SUFFICES ASSUME Init PROVE Inv
  OBVIOUS
<1>1. Len(history) = 0 /\ DOMAIN history = {}
  BY DEF Init
<1>2. current.id = 0 /\ snapshot_counter = 0
  BY DEF Init, NoSnapshot, Published!NoSnapshot
<1>3. \A t \in Threads : pc[t] = "idle"
  BY DEF Init
<1> QED
  BY <1>1, <1>2, <1>3, InitTyped
     DEF Inv, LockInv, DecidedInv, IsBuilt, HistoryInv, GenerationSound

\* Every step of the system preserves the invariant.
LEMMA InvNext == Inv /\ [Next]_vars => Inv'
<1> SUFFICES ASSUME Inv, [Next]_vars PROVE Inv'
  OBVIOUS
<1>1. TypeInv'
  BY NextTyped DEF Inv
<1>2. LockInv' /\ DecidedInv' /\ HistoryInv' /\ GenerationSound'
  <2>1. CASE \E t \in Threads : Discover(t)
    <3>1. PICK t \in Threads : Discover(t)
      BY <2>1
    <3>2. /\ pc[t] = "idle" /\ lock = NoThread /\ lock' = t /\ pc' = [pc EXCEPT ![t] = "copy"]
          /\ UNCHANGED <<merged, gen, snap, current, snapshot_counter, history>>
      BY <3>1 DEF Discover, Goto, locals
    <3>3. \A u \in Threads : pc[u] = "idle"
      BY <3>2, NoThreadAssumption DEF Inv, LockInv
    <3>4. \A u \in Threads : pc'[u] = IF u = t THEN "copy" ELSE "idle"
      BY <3>2, <3>3 DEF Inv, TypeInv, TypeOK
    <3> QED
      BY <3>2, <3>4 DEF Inv, LockInv, DecidedInv, IsBuilt, HistoryInv, GenerationSound
  <2>2. CASE \E t \in Threads : Step(t)
    BY <2>2, InsideStep, PublishStep DEF Step
  <2>3. CASE ChangeRegistry \/ ResetTelemetry \/ UNCHANGED vars
    <3>1. UNCHANGED <<lock, pc, merged, gen, snap, current, snapshot_counter, history>>
      BY <2>3 DEF ChangeRegistry, ResetTelemetry, vars, locals
    <3> QED
      BY <3>1 DEF Inv, LockInv, DecidedInv, IsBuilt, GenerationFor, HistoryInv, GenerationSound
  <2> QED
    BY <2>1, <2>2, <2>3 DEF Next
<1> QED
  BY <1>1, <1>2 DEF Inv

\* The invariant holds throughout every run of discover() calls.
LEMMA InvAlways == Spec => []Inv
BY InvInit, InvNext, PTL DEF Spec

-----------------------------------------------------------------------------
(* The theorems.                                                           *)

\* Every variable keeps its type, and the registry stays well formed, under
\* any interleaving of discover() calls with registry changes and resets.
THEOREM RuntimeTypeCorrect == Spec => []TypeOK
<1>1. Inv => TypeOK
  BY DEF Inv, TypeInv
<1> QED
  BY <1>1, InvAlways, PTL

\* Two snapshots current() ever returned have the same generation only if
\* compare_snapshots finds no material change from the older to the newer.
THEOREM GenerationTrustworthy == Spec => []GenerationSound
<1>1. Inv => GenerationSound
  BY DEF Inv
<1> QED
  BY <1>1, InvAlways, PTL

\* The abstract specification's comparison is the same one.
LEMMA SameComparison ==
  ASSUME NEW a, NEW b
  PROVE  Published!MaterialChange(a, b) <=> MaterialChange(a, b)
<1>1. \A e : Published!EdgeKey(e) = EdgeKey(e)
  BY DEF Published!EdgeKey, EdgeKey
<1>2. \A e : Published!Positions(e) = Positions(e)
  BY DEF Published!Positions, Positions
<1>3. \A e : Published!EdgeKeys(e) = EdgeKeys(e)
  BY <1>1, <1>2 DEF Published!EdgeKeys, EdgeKeys
<1>4. \A e, i : Published!IsFirst(e, i) <=> IsFirst(e, i)
  BY <1>1, <1>2 DEF Published!IsFirst, IsFirst
<1>5. Published!EdgePropertyChanged(a, b) = EdgePropertyChanged(a, b)
  BY <1>1, <1>2, <1>4 DEF Published!EdgePropertyChanged, EdgePropertyChanged
<1>6. /\ Published!EdgeAdded(a, b) = EdgeAdded(a, b)
      /\ Published!EdgeRemoved(a, b) = EdgeRemoved(a, b)
  BY <1>3 DEF Published!EdgeAdded, Published!EdgeRemoved, EdgeAdded, EdgeRemoved
<1>7. Published!CommonNodes(a, b) = CommonNodes(a, b)
  BY DEF Published!CommonNodes, CommonNodes
<1>8. /\ Published!CapabilityChanged(a, b) = CapabilityChanged(a, b)
      /\ Published!LocalityChanged(a, b) = LocalityChanged(a, b)
      /\ Published!ProviderChanged(a, b) = ProviderChanged(a, b)
  BY <1>7 DEF Published!CapabilityChanged, Published!LocalityChanged, Published!ProviderChanged,
              CapabilityChanged, LocalityChanged, ProviderChanged
<1>9. /\ Published!NodeAdded(a, b) = NodeAdded(a, b)
      /\ Published!NodeRemoved(a, b) = NodeRemoved(a, b)
  BY DEF Published!NodeAdded, Published!NodeRemoved, NodeAdded, NodeRemoved
<1> QED
  BY <1>5, <1>6, <1>8, <1>9 DEF Published!MaterialChange, MaterialChange

\* For its readers the runtime is the atomic register of PublishedTopology:
\* every step of it replaces current_ by a snapshot whose generation was
\* decided against the one replaced and whose number is larger, or leaves
\* current_ alone.
THEOREM RuntimeImplementsPublished == Spec => ImplementsPublished
<1>1. Init => Published!Init
  BY DEF Init, Published!Init, NoSnapshot
<1>2. Inv /\ [Next]_vars => [Published!Refresh]_current
  <2> SUFFICES ASSUME Inv, [Next]_vars, current' # current
               PROVE  Published!Refresh
    OBVIOUS
  <2>1. PICK t \in Threads : Publish(t)
    BY DEF Next, Step, vars, Discover, CopyProviders, RunProvider, ProviderEscapes,
           RecordPartial, Merge, DecideGeneration, BuildFinal, RecordEdges, RecordType,
           RecordCreated, RecordValidation, ChangeRegistry, ResetTelemetry
  <2>2. pc[t] = "publish" /\ current' = snap[t]
    BY <2>1 DEF Publish
  <2>3. snap[t].generation = GenerationFor(snap[t]) /\ snap[t].id > current.id
    BY <2>2 DEF Inv, DecidedInv, IsBuilt
  <2>4. Published!NextGeneration(current, snap[t]) = GenerationFor(snap[t])
    BY SameComparison DEF Published!NextGeneration, GenerationFor
  <2> QED
    BY <2>2, <2>3, <2>4 DEF Published!Refresh
<1> QED
  BY <1>1, <1>2, InvAlways, PTL DEF Spec, ImplementsPublished, Published!Spec

-----------------------------------------------------------------------------
(* The providers behind one snapshot.                                      *)

\* No name but Unsigned appears twice in f, a function to contributions.
SignedOnce(f) ==
  \A i, j \in DOMAIN f : (f[i].provider = f[j].provider /\ f[i].provider # Unsigned) => i = j

\* Two different providers of one discovery have different names, and none that
\* is still to run has the name of one that ran.
RunsOnce(cs, ahead) ==
  /\ cs \in Seq(Range(cs))
  /\ SignedOnce(cs)
  /\ \A k, l \in DOMAIN ahead : NameOf[ahead[k]] = NameOf[ahead[l]] => k = l
  /\ \A i \in DOMAIN cs, k \in DOMAIN ahead :
       cs[i].provider = NameOf[ahead[k]] => cs[i].provider = Unsigned

ListsOnce(s) ==
  \A i, j \in DOMAIN s.providers :
    (s.providers[i] = s.providers[j] /\ s.providers[i] # Unsigned) => i = j

OnceInv ==
  /\ DOMAIN contributions = Threads
  /\ \A t \in Threads :
       /\ pc[t] \in {"providers", "partial", "decide", "build"} =>
            RunsOnce(contributions[t], queue[t])
       /\ IsBuilt(t) => ListsOnce(snap[t])
  /\ \A i \in DOMAIN history : ListsOnce(history[i])

\* The loop has a next provider as long as there is one.
LEMMA UpcomingExists ==
  ASSUME TypeOK, NEW t \in Threads, DOMAIN queue[t] # {}
  PROVE  Upcoming(t) \in DOMAIN queue[t]
<1>1. DOMAIN queue[t] \subseteq Nat
  BY DEF TypeOK
<1>2. \E x \in DOMAIN queue[t] : \A y \in DOMAIN queue[t] : x <= y
  BY <1>1, LeastExists
<1> QED
  BY <1>2 DEF Upcoming

\* registry_.all() holds every name once.
LEMMA CopiedOnce ==
  ASSUME RegistryConsistent, NEW i \in DOMAIN all, NEW j \in DOMAIN all,
         NameOf[all[i]] = NameOf[all[j]]
  PROVE  i = j
<1>1. NameOf[all[i]] = order[i] /\ NameOf[all[j]] = order[j]
  BY DEF all, RegistryConsistent
<1> QED
  BY <1>1 DEF all, RegistryConsistent

\* A provider that ran is no longer ahead, and its name does not come again.
LEMMA RunOnce ==
  ASSUME NEW cs, NEW ahead, RunsOnce(cs, ahead), NEW u \in DOMAIN ahead,
         NEW c, c.provider \in {Unsigned, NameOf[ahead[u]]}
  PROVE  RunsOnce(Append(cs, c), Erase(ahead, u))
<1> DEFINE n == Len(cs)
           new == Append(cs, c)
           rest == Erase(ahead, u)
<1>0. cs \in Seq(Range(cs))
  BY DEF RunsOnce
<1>1. /\ new \in Seq(Range(new))
      /\ n \in Nat /\ DOMAIN cs = 1..n /\ DOMAIN new = 1..(n + 1)
      /\ \A i \in 1..n : new[i] = cs[i]
      /\ new[n + 1] = c
  BY <1>0, HistoryTyped
<1>9. n \in Nat /\ \A i \in 1..(n + 1) : i \in 1..n \/ i = n + 1
  <2>1. n \in Nat
    BY <1>1
  <2> HIDE DEF n
  <2> QED
    BY <2>1
<1>2. /\ DOMAIN rest = DOMAIN ahead \ {u}
      /\ \A k \in DOMAIN rest : rest[k] = ahead[k]
  BY DEF Erase
<1> HIDE DEF n, new, rest
<1>3. \A i \in 1..n : cs[i].provider = c.provider => c.provider = Unsigned
  BY <1>1 DEF RunsOnce
<1>4. SignedOnce(cs)
  BY DEF RunsOnce
<1>5. SignedOnce(new)
  <2> SUFFICES ASSUME NEW i \in 1..(n + 1), NEW j \in 1..(n + 1),
                      new[i].provider = new[j].provider, new[i].provider # Unsigned
               PROVE  i = j
    BY <1>1 DEF SignedOnce
  <2>1. CASE i \in 1..n /\ j \in 1..n
    BY <1>1, <1>4, <2>1 DEF SignedOnce
  <2>2. CASE i = n + 1 /\ j \in 1..n
    BY <1>1, <1>3, <2>2
  <2>3. CASE j = n + 1 /\ i \in 1..n
    BY <1>1, <1>3, <2>3
  <2> QED
    BY <1>9, <2>1, <2>2, <2>3
<1>6. \A k, l \in DOMAIN rest : NameOf[rest[k]] = NameOf[rest[l]] => k = l
  BY <1>2 DEF RunsOnce
<1>7. \A k \in DOMAIN rest : c.provider = NameOf[rest[k]] => c.provider = Unsigned
  BY <1>2 DEF RunsOnce
<1>8. \A i \in DOMAIN new, k \in DOMAIN rest :
        new[i].provider = NameOf[rest[k]] => new[i].provider = Unsigned
  <2> SUFFICES ASSUME NEW i \in 1..(n + 1), NEW k \in DOMAIN rest,
                      new[i].provider = NameOf[rest[k]]
               PROVE  new[i].provider = Unsigned
    BY <1>1
  <2>1. CASE i \in 1..n
    <3>1. new[i] = cs[i] /\ i \in DOMAIN cs /\ k \in DOMAIN ahead /\ rest[k] = ahead[k]
      BY <1>1, <1>2, <2>1
    <3> QED
      BY <3>1 DEF RunsOnce
  <2>2. CASE i = n + 1
    BY <1>1, <1>7, <2>2
  <2> QED
    BY <1>9, <2>1, <2>2
<1> QED
  BY <1>1, <1>5, <1>6, <1>8 DEF RunsOnce, new, rest

\* What discover() lists is listed once, whatever happens to the registry.
LEMMA OnceNext ==
  ASSUME Inv, OnceInv, [Next]_vars
  PROVE  OnceInv'
<1> USE DEF Inv, TypeInv
<1>1. ASSUME NEW t \in Threads,
             \/ CopyProviders(t) \/ RunProvider(t) \/ ProviderEscapes(t)
             \/ RecordPartial(t) \/ Merge(t) \/ DecideGeneration(t) \/ RecordEdges(t)
             \/ RecordType(t) \/ RecordCreated(t) \/ RecordValidation(t)
      PROVE  OnceInv'
  <2>1. /\ UNCHANGED <<snap, history>> /\ DOMAIN contributions' = Threads
        /\ \A u \in Threads \ {t} : /\ pc'[u] = pc[u] /\ queue'[u] = queue[u]
                                    /\ contributions'[u] = contributions[u]
    BY <1>1 DEF CopyProviders, RunProvider, ProviderEscapes, RecordPartial, Merge,
                DecideGeneration, RecordEdges, RecordType, RecordCreated, RecordValidation,
                Goto, locals, OnceInv, TypeOK
  <2>2. \/ /\ pc'[t] \in {"providers", "partial", "decide", "build"}
           /\ RunsOnce(contributions'[t], queue'[t])
        \/ pc'[t] = "idle"
        \/ IsBuilt(t)' /\ IsBuilt(t) /\ pc'[t] # "build"
    <3>1. CASE CopyProviders(t)
      <4>1. contributions'[t] = << >> /\ queue'[t] = all /\ pc'[t] = "providers"
        BY <3>1 DEF CopyProviders, Goto, OnceInv, TypeOK
      <4>2. RunsOnce(<< >>, all)
        BY CopiedOnce DEF RunsOnce, SignedOnce
      <4> QED
        BY <4>1, <4>2
    <3>2. CASE RunProvider(t)
      <4> DEFINE u == Upcoming(t)
                 p == queue[t][u]
      <4>1. PICK c \in Outputs[p] \cup {Thrown} :
              contributions' = [contributions EXCEPT ![t] = Append(contributions[t], c)]
        BY <3>2 DEF RunProvider
      <4>2. u \in DOMAIN queue[t] /\ p \in Providers
        BY <3>2, UpcomingExists DEF RunProvider, TypeOK
      <4>3. c.provider \in {Unsigned, NameOf[p]}
        <5>1. CASE c \in Outputs[p]
          BY <4>2, <5>1, OutputsAssumption
        <5>2. CASE c = Thrown
          BY <5>2 DEF Thrown
        <5> QED
          BY <5>1, <5>2
      <4>4. /\ contributions'[t] = Append(contributions[t], c)
            /\ queue'[t] = Erase(queue[t], u)
            /\ pc[t] = "providers" /\ pc'[t] \in {"providers", "partial"}
        BY <3>2, <4>1 DEF RunProvider, Goto, OnceInv, TypeOK
      <4> HIDE DEF u, p
      <4>5. RunsOnce(contributions[t], queue[t])
        BY <4>4 DEF OnceInv
      <4>6. c.provider \in {Unsigned, NameOf[queue[t][u]]}
        BY <4>3 DEF p
      <4>7. RunsOnce(Append(contributions[t], c), Erase(queue[t], u))
        BY <4>2, <4>5, <4>6, RunOnce
      <4> QED
        BY <4>4, <4>7
    <3>3. CASE ProviderEscapes(t)
      BY <3>3 DEF ProviderEscapes, Goto, TypeOK
    <3>4. CASE RecordPartial(t) \/ Merge(t) \/ DecideGeneration(t)
      <4>1. /\ pc[t] \in {"providers", "partial", "decide"}
            /\ pc'[t] \in {"providers", "decide", "build"}
            /\ UNCHANGED <<queue, contributions>>
        BY <3>4 DEF RecordPartial, Merge, DecideGeneration, Goto, locals, TypeOK
      <4> QED
        BY <4>1 DEF OnceInv
    <3>5. CASE RecordEdges(t) \/ RecordType(t) \/ RecordCreated(t) \/ RecordValidation(t)
      BY <3>5 DEF RecordEdges, RecordType, RecordCreated, RecordValidation, Goto, TypeOK, IsBuilt
    <3> QED
      BY <1>1, <3>1, <3>2, <3>3, <3>4, <3>5
  <2> QED
    BY <2>1, <2>2 DEF OnceInv, IsBuilt
<1>2. ASSUME NEW t \in Threads, BuildFinal(t)
      PROVE  OnceInv'
  <2>1. /\ UNCHANGED <<queue, contributions, history>> /\ pc'[t] = "edges" /\ pc[t] = "build"
        /\ \A u \in Threads \ {t} : pc'[u] = pc[u] /\ snap'[u] = snap[u]
        /\ snap'[t] = build_snapshot(t, snapshot_counter + 1, gen[t])
    BY <1>2 DEF BuildFinal, Goto, TypeOK
  <2>2. snap'[t].providers = [i \in DOMAIN contributions[t] |-> contributions[t][i].provider]
    BY <2>1 DEF build_snapshot
  <2>3. SignedOnce(contributions[t])
    BY <2>1 DEF OnceInv, RunsOnce
  <2>4. ListsOnce(snap'[t])
    BY <2>2, <2>3 DEF SignedOnce, ListsOnce
  <2> QED
    BY <2>1, <2>4 DEF OnceInv, IsBuilt
<1>3. ASSUME NEW t \in Threads, Publish(t)
      PROVE  OnceInv'
  <2>1. /\ pc[t] = "publish" /\ pc'[t] = "idle" /\ history' = Append(history, snap[t])
        /\ DOMAIN contributions' = Threads
        /\ \A u \in Threads \ {t} : /\ pc'[u] = pc[u] /\ snap'[u] = snap[u]
                                    /\ queue'[u] = queue[u] /\ contributions'[u] = contributions[u]
    BY <1>3 DEF Publish, Goto, TypeOK, OnceInv
  <2>2. ListsOnce(snap[t])
    BY <2>1 DEF OnceInv, IsBuilt
  <2>3. /\ Len(history) \in Nat /\ DOMAIN history = 1..Len(history)
        /\ DOMAIN history' = 1..(Len(history) + 1)
        /\ \A i \in 1..Len(history) : history'[i] = history[i]
        /\ history'[Len(history) + 1] = snap[t]
    BY <2>1, HistoryTyped DEF TypeOK
  <2>4. \A i \in DOMAIN history' : ListsOnce(history'[i])
    BY <2>2, <2>3 DEF OnceInv
  <2> QED
    BY <2>1, <2>4 DEF OnceInv, IsBuilt
<1>4. ASSUME NEW t \in Threads, Discover(t)
      PROVE  OnceInv'
  <2>1. pc'[t] = "copy" /\ \A u \in Threads \ {t} : pc'[u] = pc[u]
    BY <1>4 DEF Discover, Goto, TypeOK
  <2>2. UNCHANGED <<queue, contributions, snap, history>>
    BY <1>4 DEF Discover, locals
  <2> QED
    BY <2>1, <2>2 DEF OnceInv, IsBuilt
<1>5. CASE ChangeRegistry \/ ResetTelemetry \/ UNCHANGED vars
  BY <1>5 DEF ChangeRegistry, ResetTelemetry, vars, locals, OnceInv, IsBuilt
<1> QED
  BY <1>1, <1>2, <1>3, <1>4, <1>5 DEF Next, Step

-----------------------------------------------------------------------------
(* Telemetry.                                                              *)

\* How many snapshots and changes the last reset may have taken from the
\* discovery it fell into, and the generation it left to count from.
Missing == IF since.quiet THEN 0 ELSE 1
First == IF since.generation = 0 THEN 1 ELSE since.generation

\* The changes counted when the last generation given away is g, and the
\* snapshots counted when n have been created.
ChangesTo(g) == g - First - telemetry.generation_changes \in 0..Missing
CreatedTo(n) == n - since.created - telemetry.snapshots_created \in 0..Missing

\* The totals and the count of a node's type are those of s.
NodesTotal(s) == telemetry.nodes_total = Cardinality(DOMAIN s.nodes)
EdgesTotal(s) == telemetry.edges_total = Cardinality(DOMAIN s.edges)
Counted(s, n) ==
  /\ s.nodes[n].type \in DOMAIN telemetry.nodes_by_type
  /\ telemetry.nodes_by_type[s.nodes[n].type] =
       Cardinality({o \in DOMAIN s.nodes : s.nodes[o].type = s.nodes[n].type})

Totals(s) == NodesTotal(s) /\ EdgesTotal(s) /\ \A n \in DOMAIN s.nodes : Counted(s, n)

\* record_snapshot_created has been called.
IsCounted(t) == pc[t] \in {"validation", "publish"}

\* The last reset is in the past, and what has happened since is known.
ResetInv ==
  /\ since.runs <= started /\ since.created <= Len(history)
  /\ since.runs = started =>
       /\ Len(history) <= since.created + Missing
       /\ (\E t \in Threads : pc[t] # "idle") => Len(history) = since.created /\ ~since.quiet
  /\ current.id = 0 => current.generation = 0 /\ since.generation = 0
  /\ current.id # 0 => current.generation > 0

\* The discovery that runs began after the last reset, and t has recorded the
\* totals of its snapshot as far as it got.
RecordedInv(t) ==
  since.runs < started =>
    /\ IsBuilt(t) => NodesTotal(snap[t])
    /\ pc[t] = "types" \/ IsCounted(t) => EdgesTotal(snap[t])
    /\ pc[t] = "types" =>
         \A n \in DOMAIN snap[t].nodes : snap[t].nodes[n].type \notin types[t] => Counted(snap[t], n)
    /\ IsCounted(t) => \A n \in DOMAIN snap[t].nodes : Counted(snap[t], n)

\* The counters are those of the snapshot published last, or of the one a
\* discovery is about to publish, as far as it got.
Accounts ==
  /\ telemetry.discovery_runs = started - since.runs
  /\ (\A t \in Threads : pc[t] # "build" /\ ~IsBuilt(t)) =>
       /\ current.id = 0 => telemetry.generation_changes = 0
       /\ current.id # 0 => ChangesTo(current.generation)
  /\ (\A t \in Threads : ~IsCounted(t)) => CreatedTo(Len(history))
  /\ ((\A t \in Threads : ~IsBuilt(t)) /\ Len(history) > since.created + Missing) => Totals(current)
  /\ \A t \in Threads :
       /\ pc[t] = "build" => ChangesTo(gen[t])
       /\ IsBuilt(t) => ChangesTo(snap[t].generation)
       /\ IsCounted(t) => CreatedTo(Len(history) + 1)
       /\ RecordedInv(t)

AccountInv ==
  /\ DOMAIN telemetry = DOMAIN ZeroTelemetry
  /\ telemetry.generation_changes \in Nat /\ telemetry.snapshots_created \in Nat
  /\ ResetInv
  /\ Accounts

\* A step inside discover() leaves the last reset and the number of discoveries
\* as they were, and other threads wait.
LEMMA InsideAlone ==
  ASSUME Inv, NEW t \in Threads, Step(t)
  PROVE  /\ pc[t] # "idle" /\ \A u \in Threads \ {t} : pc[u] = "idle" /\ pc'[u] = "idle"
         /\ since' = since /\ started' = started
         /\ Missing' = Missing /\ First' = First
<1>1. /\ pc[t] # "idle" /\ \A u \in Threads \ {t} : pc'[u] = pc[u]
      /\ since' = since /\ started' = started
  BY DEF Inv, TypeInv, Step, CopyProviders, RunProvider, ProviderEscapes, RecordPartial, Merge,
         DecideGeneration, BuildFinal, RecordEdges, RecordType, RecordCreated, RecordValidation,
         Publish, Goto, TypeOK, bounds, locals
<1> QED
  BY <1>1 DEF Inv, LockInv, Missing, First

\* What a step that publishes nothing keeps.
LEMMA ResetStays ==
  ASSUME ResetInv, NEW t \in Threads, pc[t] # "idle",
         UNCHANGED <<current, history, since, started>>
  PROVE  ResetInv'
<1>1. Missing' = Missing
  BY DEF Missing
<1> QED
  BY <1>1 DEF ResetInv

\* Steps before the generation is decided count nothing that is accounted for.
LEMMA CollectAccounts ==
  ASSUME Inv, AccountInv, NEW t \in Threads,
         \/ CopyProviders(t) \/ RunProvider(t) \/ ProviderEscapes(t)
         \/ RecordPartial(t) \/ Merge(t)
  PROVE  AccountInv'
<1> USE DEF Inv, TypeInv
<1>0. /\ pc[t] # "idle" /\ \A u \in Threads \ {t} : pc[u] = "idle" /\ pc'[u] = "idle"
      /\ since' = since /\ started' = started /\ Missing' = Missing /\ First' = First
  BY InsideAlone DEF Step
<1>1. /\ pc[t] \in {"copy", "providers", "partial"}
      /\ pc'[t] \in {"providers", "partial", "idle", "decide"}
      /\ UNCHANGED <<current, history>>
  BY DEF CopyProviders, RunProvider, ProviderEscapes, RecordPartial, Merge, Goto, TypeOK
<1>2. /\ DOMAIN telemetry' = DOMAIN telemetry
      /\ telemetry'.discovery_runs = telemetry.discovery_runs
      /\ telemetry'.generation_changes = telemetry.generation_changes
      /\ telemetry'.snapshots_created = telemetry.snapshots_created
      /\ telemetry'.nodes_total = telemetry.nodes_total
      /\ telemetry'.edges_total = telemetry.edges_total
      /\ telemetry'.nodes_by_type = telemetry.nodes_by_type
  <2>1. DOMAIN telemetry = DOMAIN ZeroTelemetry
    BY DEF AccountInv
  <2>2. CASE RunProvider(t)
    BY <2>1, <2>2 DEF RunProvider, record_provider_run, ZeroTelemetry
  <2>3. CASE Merge(t)
    BY <2>1, <2>3 DEF Merge, ZeroTelemetry
  <2>4. CASE CopyProviders(t) \/ ProviderEscapes(t) \/ RecordPartial(t)
    BY <2>1, <2>4 DEF CopyProviders, ProviderEscapes, RecordPartial, ZeroTelemetry
  <2> QED
    BY <2>2, <2>3, <2>4
<1>3. \A s : /\ ChangesTo(s) <=> ChangesTo(s)'
             /\ CreatedTo(s) <=> CreatedTo(s)'
             /\ Totals(s) <=> Totals(s)'
  BY <1>0, <1>2 DEF ChangesTo, CreatedTo, Totals, NodesTotal, EdgesTotal, Counted
<1>4. \A u \in Threads : ~IsBuilt(u) /\ ~IsBuilt(u)' /\ ~IsCounted(u) /\ ~IsCounted(u)'
                         /\ pc[u] # "build" /\ pc'[u] # "build" /\ pc'[u] # "types"
  BY <1>0, <1>1 DEF IsBuilt, IsCounted
<1>5. Accounts'
  BY <1>0, <1>1, <1>2, <1>3, <1>4 DEF AccountInv, Accounts, RecordedInv
<1> QED
  BY <1>0, <1>1, <1>2, <1>5, ResetStays DEF AccountInv

\* A material change is counted when the generation is decided.
LEMMA DecideAccounts ==
  ASSUME Inv, AccountInv, NEW t \in Threads, DecideGeneration(t)
  PROVE  AccountInv'
<1> USE DEF Inv, TypeInv
<1>0. /\ pc[t] # "idle" /\ \A u \in Threads \ {t} : pc[u] = "idle" /\ pc'[u] = "idle"
      /\ since' = since /\ started' = started /\ Missing' = Missing /\ First' = First
  BY InsideAlone DEF Step
<1> DEFINE changed == current.id # 0 /\ MaterialChange(current, Built(merged[t]))
<1>1. /\ pc[t] = "decide" /\ pc'[t] = "build" /\ UNCHANGED <<current, history>>
      /\ gen'[t] = IF current.id = 0 THEN 1
                   ELSE IF changed THEN current.generation + 1 ELSE current.generation
  BY DEF DecideGeneration, Goto, TypeOK
<1>2. telemetry' = IF changed THEN [telemetry EXCEPT !.generation_changes = @ + 1] ELSE telemetry
  BY DEF DecideGeneration
<1>3. changed => current.id # 0
  OBVIOUS
<1> HIDE DEF changed
<1>4. /\ DOMAIN telemetry' = DOMAIN telemetry
      /\ telemetry'.discovery_runs = telemetry.discovery_runs
      /\ telemetry'.generation_changes = IF changed THEN telemetry.generation_changes + 1
                                         ELSE telemetry.generation_changes
      /\ telemetry'.snapshots_created = telemetry.snapshots_created
      /\ telemetry'.nodes_total = telemetry.nodes_total
      /\ telemetry'.edges_total = telemetry.edges_total
      /\ telemetry'.nodes_by_type = telemetry.nodes_by_type
  BY <1>2 DEF ZeroTelemetry, AccountInv
<1>5. \A s : (CreatedTo(s) <=> CreatedTo(s)') /\ (Totals(s) <=> Totals(s)')
  BY <1>0, <1>4 DEF CreatedTo, Totals, NodesTotal, EdgesTotal, Counted
<1>6. \A u \in Threads : ~IsBuilt(u) /\ ~IsBuilt(u)' /\ ~IsCounted(u) /\ ~IsCounted(u)'
                         /\ pc[u] # "build" /\ pc'[u] # "types"
  BY <1>0, <1>1 DEF IsBuilt, IsCounted
<1>7. ChangesTo(gen[t])'
  <2>1. /\ current.id = 0 => telemetry.generation_changes = 0 /\ First = 1
        /\ current.id # 0 => ChangesTo(current.generation)
    BY <1>6 DEF AccountInv, Accounts, ResetInv, First
  <2>2. /\ current.generation \in Nat /\ First \in Nat /\ Missing \in {0, 1}
        /\ telemetry.generation_changes \in Nat
    BY DEF TypeOK, IsSnapshot, First, Missing, AccountInv
  <2>3. gen'[t] - First - telemetry'.generation_changes \in 0..Missing
    <3> DEFINE c == telemetry.generation_changes
               d == telemetry'.generation_changes
               x == First
               y == Missing
               g == current.generation
               new == gen'[t]
    <3>1. /\ current.id = 0 => c = 0 /\ x = 1
          /\ current.id # 0 => g - x - c \in 0..y
          /\ g \in Nat /\ x \in Nat /\ y \in {0, 1} /\ c \in Nat
          /\ d = IF changed THEN c + 1 ELSE c
          /\ new = IF current.id = 0 THEN 1 ELSE IF changed THEN g + 1 ELSE g
      BY <1>1, <1>4, <2>1, <2>2 DEF ChangesTo
    <3> HIDE DEF c, d, x, y, g, new
    <3>2. new - x - d \in 0..y
      <4>1. CASE current.id = 0
        <5>1. d = 0 /\ new = 1 /\ x = 1
          BY <1>3, <3>1, <4>1
        <5> QED
          BY <3>1, <5>1
      <4>2. CASE current.id # 0
        <5>1. new - x - d = g - x - c
          BY <3>1, <4>2
        <5> QED
          BY <3>1, <4>2, <5>1
      <4> QED
        BY <4>1, <4>2
    <3> QED
      BY <3>2 DEF d, x, y, new
  <2> QED
    BY <1>0, <2>3 DEF ChangesTo
<1>8. Accounts'
  BY <1>0, <1>1, <1>4, <1>5, <1>6, <1>7 DEF AccountInv, Accounts, RecordedInv
<1>9. telemetry'.generation_changes \in Nat
  BY <1>4 DEF AccountInv
<1> QED
  BY <1>0, <1>1, <1>4, <1>8, <1>9, ResetStays DEF AccountInv

\* The totals of the snapshot that will be published are recorded one by one.
LEMMA BuildAccounts ==
  ASSUME Inv, AccountInv, NEW t \in Threads,
         BuildFinal(t) \/ RecordEdges(t) \/ RecordType(t)
  PROVE  AccountInv'
<1> USE DEF Inv, TypeInv
<1>0. /\ pc[t] # "idle" /\ \A u \in Threads \ {t} : pc[u] = "idle" /\ pc'[u] = "idle"
      /\ since' = since /\ started' = started /\ Missing' = Missing /\ First' = First
  BY InsideAlone DEF Step
<1>1. /\ UNCHANGED <<current, history>>
      /\ \/ pc[t] = "build" /\ pc'[t] = "edges" /\ snap'[t].generation = gen[t]
         \/ pc[t] \in {"edges", "types"} /\ pc'[t] = "types" /\ snap'[t] = snap[t]
  BY DEF BuildFinal, RecordEdges, RecordType, Goto, TypeOK, build_snapshot
<1>2. /\ DOMAIN telemetry' = DOMAIN telemetry
      /\ telemetry'.discovery_runs = telemetry.discovery_runs
      /\ telemetry'.generation_changes = telemetry.generation_changes
      /\ telemetry'.snapshots_created = telemetry.snapshots_created
  BY DEF BuildFinal, RecordEdges, RecordType, ZeroTelemetry, AccountInv
<1>3. \A s : (ChangesTo(s) <=> ChangesTo(s)') /\ (CreatedTo(s) <=> CreatedTo(s)')
  BY <1>0, <1>2 DEF ChangesTo, CreatedTo
<1>4. /\ IsBuilt(t)' /\ ~IsCounted(t) /\ ~IsCounted(t)' /\ pc'[t] # "build"
      /\ \A u \in Threads \ {t} : ~IsBuilt(u)' /\ ~IsCounted(u) /\ ~IsCounted(u)'
  BY <1>0, <1>1 DEF IsBuilt, IsCounted
<1>5. ChangesTo(snap[t].generation)'
  BY <1>1, <1>3 DEF AccountInv, Accounts, IsBuilt
<1>6. RecordedInv(t)'
  <2> SUFFICES ASSUME since.runs < started
               PROVE  /\ NodesTotal(snap[t])'
                      /\ pc'[t] = "types" =>
                           /\ EdgesTotal(snap[t])'
                           /\ \A n \in DOMAIN snap'[t].nodes :
                                snap'[t].nodes[n].type \notin types'[t] => Counted(snap[t], n)'
    BY <1>0, <1>4 DEF RecordedInv
  <2>1. CASE BuildFinal(t)
    <3> DEFINE s == build_snapshot(t, snapshot_counter + 1, gen[t])
    <3>1. pc'[t] = "edges" /\ snap'[t] = s
          /\ telemetry' = [telemetry EXCEPT !.nodes_total = Cardinality(DOMAIN s.nodes)]
      BY <2>1 DEF BuildFinal, Goto, TypeOK
    <3> HIDE DEF s
    <3> QED
      BY <3>1 DEF NodesTotal, AccountInv, ZeroTelemetry
  <2>2. CASE RecordEdges(t)
    <3>1. /\ pc[t] = "edges" /\ snap' = snap
          /\ types'[t] = DOMAIN CountByType(snap[t].nodes)
          /\ telemetry' = [telemetry EXCEPT !.edges_total = Cardinality(DOMAIN snap[t].edges)]
      BY <2>2 DEF RecordEdges, TypeOK
    <3>2. NodesTotal(snap[t])
      BY <3>1 DEF AccountInv, Accounts, RecordedInv, IsBuilt
    <3>3. NodesTotal(snap[t])' /\ EdgesTotal(snap[t])'
      BY <3>1, <3>2 DEF NodesTotal, EdgesTotal, AccountInv, ZeroTelemetry
    <3>4. \A n \in DOMAIN snap[t].nodes : snap[t].nodes[n].type \in types'[t]
      BY <3>1 DEF CountByType
    <3> QED
      BY <3>1, <3>3, <3>4
  <2>3. CASE RecordType(t)
    <3> DEFINE s == snap[t]
               by == CountByType(s.nodes)
               old == telemetry.nodes_by_type
    <3>1. PICK ty \in types[t] :
            /\ telemetry' = [telemetry EXCEPT !.nodes_by_type = Insert(old, ty, by[ty])]
            /\ types' = [types EXCEPT ![t] = types[t] \ {ty}]
      BY <2>3 DEF RecordType
    <3>2. pc[t] = "types" /\ snap' = snap /\ types'[t] = types[t] \ {ty}
      BY <2>3, <3>1 DEF RecordType, TypeOK
    <3>3. telemetry'.nodes_by_type = Insert(old, ty, by[ty])
          /\ telemetry'.nodes_total = telemetry.nodes_total
          /\ telemetry'.edges_total = telemetry.edges_total
      BY <3>1 DEF AccountInv, ZeroTelemetry
    <3>4. /\ NodesTotal(s) /\ EdgesTotal(s)
          /\ \A n \in DOMAIN s.nodes : s.nodes[n].type \notin types[t] => Counted(s, n)
      BY <3>2 DEF AccountInv, Accounts, RecordedInv, IsBuilt
    <3>5. NodesTotal(s)' /\ EdgesTotal(s)'
      BY <3>2, <3>3, <3>4 DEF NodesTotal, EdgesTotal
    <3>6. ASSUME NEW n \in DOMAIN s.nodes, s.nodes[n].type \notin types'[t]
          PROVE  Counted(s, n)'
      <4> DEFINE k == s.nodes[n].type
                 c == Cardinality({o \in DOMAIN s.nodes : s.nodes[o].type = k})
      <4>1. by[k] = c
        BY <3>6 DEF CountByType
      <4>2. CASE k = ty
        <5>1. k \in DOMAIN telemetry'.nodes_by_type /\ telemetry'.nodes_by_type[k] = by[k]
          BY <3>3, <4>2 DEF Insert
        <5> QED
          BY <3>2, <4>1, <5>1 DEF Counted
      <4>3. CASE k # ty
        <5>1. Counted(s, n)
          BY <3>2, <3>4, <3>6, <4>3
        <5>2. k \in DOMAIN telemetry'.nodes_by_type /\ telemetry'.nodes_by_type[k] = c
          <6>1. k \in DOMAIN old /\ old[k] = c
            BY <5>1 DEF Counted
          <6> QED
            BY <3>3, <4>3, <6>1 DEF Insert
        <5> QED
          BY <3>2, <5>2 DEF Counted
      <4> QED
        BY <4>2, <4>3
    <3> QED
      BY <3>2, <3>5, <3>6
  <2> QED
    BY <2>1, <2>2, <2>3
<1>7. Accounts'
  <2>1. \A u \in Threads \ {t} : RecordedInv(u)'
    BY <1>0, <1>4 DEF RecordedInv
  <2>2. CreatedTo(Len(history))
    BY <1>0, <1>4 DEF AccountInv, Accounts
  <2> QED
    BY <1>0, <1>1, <1>2, <1>3, <1>4, <1>5, <1>6, <2>1, <2>2 DEF AccountInv, Accounts
<1> QED
  BY <1>0, <1>1, <1>2, <1>7, ResetStays DEF AccountInv

\* The snapshot is counted once its totals are recorded, and its errors after
\* that.
LEMMA CountAccounts ==
  ASSUME Inv, AccountInv, NEW t \in Threads, RecordCreated(t) \/ RecordValidation(t)
  PROVE  AccountInv'
<1> USE DEF Inv, TypeInv
<1>0. /\ pc[t] # "idle" /\ \A u \in Threads \ {t} : pc[u] = "idle" /\ pc'[u] = "idle"
      /\ since' = since /\ started' = started /\ Missing' = Missing /\ First' = First
  BY InsideAlone DEF Step
<1> DEFINE new == IF RecordCreated(t) THEN 1 ELSE 0
<1>1. /\ UNCHANGED <<current, history, snap, types>>
      /\ pc[t] = IF RecordCreated(t) THEN "types" ELSE "validation"
      /\ pc'[t] \in {"validation", "publish"}
      /\ RecordCreated(t) => types[t] = {}
  BY DEF RecordCreated, RecordValidation, Goto, TypeOK, locals
<1>2. /\ DOMAIN telemetry' = DOMAIN telemetry
      /\ telemetry'.discovery_runs = telemetry.discovery_runs
      /\ telemetry'.generation_changes = telemetry.generation_changes
      /\ telemetry'.snapshots_created = telemetry.snapshots_created + new
      /\ telemetry'.nodes_total = telemetry.nodes_total
      /\ telemetry'.edges_total = telemetry.edges_total
      /\ telemetry'.nodes_by_type = telemetry.nodes_by_type
  <2>1. CASE RecordCreated(t)
    BY <2>1 DEF RecordCreated, ZeroTelemetry, AccountInv
  <2>2. CASE ~RecordCreated(t)
    BY <2>2 DEF RecordValidation, ZeroTelemetry, AccountInv
  <2> QED
    BY <2>1, <2>2
<1>3. \A s : /\ ChangesTo(s) <=> ChangesTo(s)'
             /\ NodesTotal(s) <=> NodesTotal(s)'
             /\ EdgesTotal(s) <=> EdgesTotal(s)'
             /\ \A n : Counted(s, n) <=> Counted(s, n)'
  BY <1>0, <1>2 DEF ChangesTo, NodesTotal, EdgesTotal, Counted
<1>4. /\ IsBuilt(t) /\ IsBuilt(t)' /\ IsCounted(t)' /\ pc'[t] # "build" /\ pc'[t] # "types"
      /\ IsCounted(t) <=> ~RecordCreated(t)
      /\ \A u \in Threads \ {t} : ~IsBuilt(u)' /\ ~IsCounted(u) /\ ~IsCounted(u)'
                                  /\ pc'[u] # "build" /\ pc'[u] # "types"
  BY <1>0, <1>1 DEF IsBuilt, IsCounted
<1>5. CreatedTo(Len(history) + 1)'
  <2>1. /\ RecordCreated(t) => CreatedTo(Len(history))
        /\ ~RecordCreated(t) => CreatedTo(Len(history) + 1)
    BY <1>0, <1>4 DEF AccountInv, Accounts
  <2>2. /\ Len(history) \in Nat /\ since.created \in Nat /\ telemetry.snapshots_created \in Nat
        /\ Missing \in {0, 1}
    BY DEF TypeOK, Missing, AccountInv
  <2> DEFINE n == Len(history)
             n1 == Len(history')
             c == telemetry.snapshots_created
             d == telemetry'.snapshots_created
             x == since.created
             x1 == since'.created
             y == Missing
             y1 == Missing'
  <2>3. /\ n \in Nat /\ x \in Nat /\ c \in Nat /\ y \in {0, 1} /\ d = c + new
        /\ n1 = n /\ x1 = x /\ y1 = y
        /\ new = 1 => n - x - c \in 0..y
        /\ new = 0 => (n + 1) - x - c \in 0..y
        /\ new \in {0, 1}
    BY <1>0, <1>1, <1>2, <2>1, <2>2 DEF CreatedTo
  <2> HIDE DEF n, n1, c, d, x, x1, y, y1, new
  <2>4. (n1 + 1) - x1 - d \in 0..y1
    BY <2>3
  <2> QED
    BY <2>4 DEF CreatedTo, n1, d, x1, y1
<1>6. RecordedInv(t)'
  BY <1>0, <1>1, <1>3, <1>4 DEF AccountInv, Accounts, RecordedInv
<1>7. Accounts'
  <2>1. \A u \in Threads \ {t} : RecordedInv(u)'
    BY <1>4 DEF RecordedInv
  <2>2. ChangesTo(snap[t].generation)'
    BY <1>1, <1>3, <1>4 DEF AccountInv, Accounts
  <2> QED
    BY <1>0, <1>2, <1>4, <1>5, <1>6, <2>1, <2>2 DEF AccountInv, Accounts
<1>8. telemetry'.snapshots_created \in Nat
  BY <1>2 DEF AccountInv
<1> QED
  BY <1>0, <1>1, <1>2, <1>7, <1>8, ResetStays DEF AccountInv

\* A discovery that began before the last reset publishes at most one snapshot
\* more than there was; any other publishes the totals it recorded.
LEMMA PublishAccounts ==
  ASSUME Inv, AccountInv, NEW t \in Threads, Publish(t)
  PROVE  AccountInv'
<1> USE DEF Inv, TypeInv
<1>0. /\ pc[t] # "idle" /\ \A u \in Threads \ {t} : pc[u] = "idle" /\ pc'[u] = "idle"
      /\ since' = since /\ started' = started /\ Missing' = Missing /\ First' = First
  BY InsideAlone DEF Step
<1>1. /\ pc[t] = "publish" /\ pc'[t] = "idle" /\ UNCHANGED telemetry
      /\ current' = snap[t] /\ history' = Append(history, snap[t])
  BY DEF Publish, Goto, TypeOK
<1>2. Len(history') = Len(history) + 1 /\ Len(history) \in Nat
  BY <1>1, HistoryTyped DEF TypeOK
<1>3. IsBuilt(t) /\ IsCounted(t) /\ snap[t].id # 0 /\ snap[t].generation > 0
  <2>1. /\ IsBuilt(t) /\ IsCounted(t)
    BY <1>1 DEF IsBuilt, IsCounted
  <2>2. /\ snap[t].generation = GenerationFor(snap[t]) /\ snap[t].id > current.id
        /\ snap[t].id \in Nat /\ current.id \in Nat /\ current.generation \in Nat
    BY <2>1 DEF DecidedInv, TypeOK, IsSnapshot
  <2>3. snap[t].generation > 0
    BY <2>2 DEF GenerationFor, AccountInv, ResetInv
  <2> QED
    BY <2>1, <2>2, <2>3
<1>4. \A s : /\ ChangesTo(s) <=> ChangesTo(s)'
             /\ CreatedTo(s) <=> CreatedTo(s)'
             /\ Totals(s) <=> Totals(s)'
  BY <1>0, <1>1 DEF ChangesTo, CreatedTo, Totals, NodesTotal, EdgesTotal, Counted
<1>5. ChangesTo(snap[t].generation) /\ CreatedTo(Len(history) + 1) /\ RecordedInv(t)
  BY <1>3 DEF AccountInv, Accounts
<1>6. /\ since.runs <= started /\ since.created <= Len(history)
      /\ since.runs \in Nat /\ started \in Nat /\ since.created \in Nat
      /\ since.runs = started => Len(history) = since.created /\ Missing = 1
  BY <1>0 DEF AccountInv, ResetInv, TypeOK, Missing
<1>7. Len(history) + 1 > since.created + Missing => Totals(snap[t])
  <2>1. CASE since.runs < started
    BY <1>3, <1>5, <2>1 DEF RecordedInv, Totals
  <2>2. CASE since.runs = started
    BY <1>2, <1>6, <2>2
  <2> QED
    BY <1>6, <2>1, <2>2
<1>8. \A u \in Threads : pc'[u] = "idle" /\ ~IsBuilt(u)' /\ ~IsCounted(u)'
  BY <1>0, <1>1 DEF IsBuilt, IsCounted
<1>9. ResetInv'
  BY <1>0, <1>1, <1>2, <1>3, <1>6, <1>8 DEF ResetInv
<1>10. Accounts'
  BY <1>0, <1>1, <1>2, <1>3, <1>4, <1>5, <1>7, <1>8 DEF AccountInv, Accounts, RecordedInv
<1> QED
  BY <1>1, <1>9, <1>10 DEF AccountInv

\* A reset starts the counters again, for a discovery that is under way too.
LEMMA ResetAccounts ==
  ASSUME Inv, AccountInv, ResetTelemetry
  PROVE  AccountInv'
<1> USE DEF Inv, TypeInv
<1>1. /\ telemetry' = ZeroTelemetry
      /\ since'.runs = started /\ since'.created = Len(history)
      /\ since'.generation = current.generation /\ since'.quiet = (lock = NoThread)
      /\ UNCHANGED <<pc, current, gen, snap, types, merged, started, history, snapshot_counter>>
  BY DEF ResetTelemetry, locals
<1>2. \A t \in Threads : pc[t] # "idle" => ~since'.quiet
  BY <1>1, NoThreadAssumption DEF LockInv
<1>3. /\ Len(history) \in Nat /\ current.generation \in Nat /\ started \in Nat
      /\ current.id = 0 => current.generation = 0
      /\ current.id # 0 => current.generation > 0
      /\ First' = IF current.id = 0 THEN 1 ELSE current.generation
      /\ Missing' \in {0, 1}
  BY <1>1 DEF TypeOK, IsSnapshot, AccountInv, ResetInv, First, Missing
<1>4. /\ telemetry'.generation_changes = 0 /\ telemetry'.snapshots_created = 0
      /\ telemetry'.discovery_runs = 0 /\ DOMAIN telemetry' = DOMAIN ZeroTelemetry
  BY <1>1 DEF ZeroTelemetry
<1>5. ASSUME NEW t \in Threads
      PROVE  /\ (pc[t] = "build" => ChangesTo(gen[t]))'
             /\ (IsBuilt(t) => ChangesTo(snap[t].generation))'
             /\ (IsCounted(t) => CreatedTo(Len(history) + 1))'
             /\ RecordedInv(t)'
  <2>1. pc[t] # "idle" => Missing' = 1
    BY <1>2 DEF Missing
  <2>2. ASSUME NEW g, NEW h, g = GenerationFor(h), pc[t] # "idle" PROVE ChangesTo(g)'
    <3>1. g - First' - 0 \in 0..Missing'
      <4>1. /\ current.id = 0 => g = 1
            /\ current.id # 0 => g \in {current.generation, current.generation + 1}
        BY <2>2 DEF GenerationFor
      <4> DEFINE x == First'
                 c == current.generation
      <4>2. g - x \in {0, 1} /\ g - x - 0 = g - x
        <5>1. c \in Nat /\ x = IF current.id = 0 THEN 1 ELSE c
          BY <1>3
        <5> HIDE DEF x, c
        <5> QED
          BY <4>1, <5>1 DEF c
      <4> QED
        BY <2>1, <2>2, <4>2
    <3> QED
      BY <1>4, <3>1 DEF ChangesTo
  <2>3. (pc[t] = "build" => ChangesTo(gen[t]))'
    BY <1>1, <2>2 DEF DecidedInv
  <2>4. (IsBuilt(t) => ChangesTo(snap[t].generation))'
    BY <1>1, <2>2 DEF DecidedInv, IsBuilt
  <2>5. (IsCounted(t) => CreatedTo(Len(history) + 1))'
    BY <1>1, <1>3, <1>4, <2>1 DEF CreatedTo, IsCounted
  <2>6. RecordedInv(t)'
    BY <1>1, <1>3 DEF RecordedInv
  <2> QED
    BY <2>3, <2>4, <2>5, <2>6
<1>6. CreatedTo(Len(history))'
  BY <1>1, <1>3, <1>4 DEF CreatedTo
<1>7. (current.id # 0 => ChangesTo(current.generation))'
  BY <1>1, <1>3, <1>4 DEF ChangesTo
<1>8. Accounts'
  BY <1>1, <1>3, <1>4, <1>5, <1>6, <1>7 DEF Accounts
<1>9. ResetInv'
  BY <1>1, <1>2, <1>3 DEF ResetInv
<1> QED
  BY <1>4, <1>8, <1>9 DEF AccountInv

\* The counters stay accounted for.
LEMMA AccountsNext ==
  ASSUME Inv, AccountInv, [Next]_vars
  PROVE  AccountInv'
<1>1. ASSUME NEW t \in Threads, Discover(t)
      PROVE  AccountInv'
  <2> USE DEF Inv, TypeInv
  <2>1. /\ pc' = [pc EXCEPT ![t] = "copy"] /\ pc[t] = "idle" /\ lock = NoThread
        /\ UNCHANGED <<current, history, since>> /\ started' = started + 1
        /\ telemetry' = [telemetry EXCEPT !.discovery_runs = @ + 1]
    BY <1>1 DEF Discover, Goto
  <2>2. /\ DOMAIN telemetry' = DOMAIN telemetry
        /\ telemetry'.discovery_runs = telemetry.discovery_runs + 1
        /\ telemetry'.generation_changes = telemetry.generation_changes
        /\ telemetry'.snapshots_created = telemetry.snapshots_created
        /\ telemetry'.nodes_total = telemetry.nodes_total
        /\ telemetry'.edges_total = telemetry.edges_total
        /\ telemetry'.nodes_by_type = telemetry.nodes_by_type
    BY <2>1 DEF ZeroTelemetry, AccountInv
  <2>3. Missing' = Missing /\ First' = First
    BY <2>1 DEF Missing, First
  <2>4. \A s : /\ ChangesTo(s) <=> ChangesTo(s)'
               /\ CreatedTo(s) <=> CreatedTo(s)'
               /\ Totals(s) <=> Totals(s)'
    BY <2>1, <2>2, <2>3 DEF ChangesTo, CreatedTo, Totals, NodesTotal, EdgesTotal, Counted
  <2>5. \A u \in Threads : /\ pc[u] = "idle" /\ pc'[u] \in {"idle", "copy"}
                           /\ ~IsBuilt(u) /\ ~IsBuilt(u)' /\ ~IsCounted(u) /\ ~IsCounted(u)'
    <3>1. \A u \in Threads : pc[u] = "idle"
      BY <2>1, NoThreadAssumption DEF LockInv
    <3> QED
      BY <2>1, <3>1 DEF TypeOK, IsBuilt, IsCounted
  <2>6. since.runs \in Nat /\ started \in Nat /\ since.runs <= started
    BY DEF TypeOK, AccountInv, ResetInv
  <2>7. ResetInv'
    BY <2>1, <2>3, <2>6 DEF AccountInv, ResetInv
  <2>8. telemetry'.discovery_runs = started' - since'.runs
    BY <2>1, <2>2, <2>6 DEF AccountInv, Accounts
  <2>9. Accounts'
    BY <2>1, <2>2, <2>3, <2>4, <2>5, <2>8 DEF AccountInv, Accounts, RecordedInv
  <2> QED
    BY <2>2, <2>7, <2>9 DEF AccountInv
<1>2. CASE ChangeRegistry \/ UNCHANGED vars
  <2>1. UNCHANGED <<pc, gen, snap, types, current, telemetry, started, since, history>>
    BY <1>2 DEF ChangeRegistry, vars, locals, bounds
  <2>2. /\ \A s : /\ ChangesTo(s) <=> ChangesTo(s)'
                  /\ CreatedTo(s) <=> CreatedTo(s)'
                  /\ Totals(s) <=> Totals(s)'
        /\ Missing' = Missing
    BY <2>1 DEF ChangesTo, CreatedTo, Totals, NodesTotal, EdgesTotal, Counted, Missing, First
  <2>3. \A t \in Threads : /\ IsBuilt(t)' <=> IsBuilt(t)
                           /\ IsCounted(t)' <=> IsCounted(t)
                           /\ RecordedInv(t)' <=> RecordedInv(t)
    BY <2>1 DEF IsBuilt, IsCounted, RecordedInv, NodesTotal, EdgesTotal, Counted
  <2>4. Accounts'
    BY <2>1, <2>2, <2>3 DEF AccountInv, Accounts
  <2>5. ResetInv'
    BY <2>1, <2>2 DEF AccountInv, ResetInv
  <2> QED
    BY <2>1, <2>4, <2>5 DEF AccountInv
<1> QED
  BY <1>1, <1>2, CollectAccounts, DecideAccounts, BuildAccounts, CountAccounts,
     PublishAccounts, ResetAccounts DEF Next, Step

\* A snapshot is the work of each provider once: no name contributes twice to a
\* published snapshot, whatever other threads do to the registry while
\* discover() runs.
THEOREM ProvidersContributeOnce == Spec => []EachProviderOnce
<1>1. Init => OnceInv
  BY DEF Init, OnceInv, IsBuilt
<1>2. Inv /\ OnceInv /\ [Next]_vars => OnceInv'
  BY OnceNext
<1>3. OnceInv => EachProviderOnce
  BY DEF OnceInv, ListsOnce, EachProviderOnce
<1> QED
  BY <1>1, <1>2, <1>3, InvAlways, PTL DEF Spec

\* Telemetry can be audited: the counters a reader finds between two discoveries
\* are those of the snapshots published since the last reset(), and a reset in
\* the middle of a discovery takes no more than that discovery's counts. So for
\* any number of threads, resets and discoveries that fail or overlap.
THEOREM TelemetryAddsUp == Spec => []TelemetryAccounts
<1>1. Init => AccountInv
  <2> SUFFICES ASSUME Init PROVE AccountInv
    OBVIOUS
  <2>1. /\ since.runs = 0 /\ since.created = 0 /\ since.generation = 0 /\ since.quiet
        /\ started = 0 /\ Len(history) = 0 /\ telemetry = ZeroTelemetry
        /\ current.id = 0 /\ current.generation = 0
        /\ \A t \in Threads : pc[t] = "idle"
    BY DEF Init, NoSnapshot, Published!NoSnapshot
  <2>2. Missing = 0 /\ \A t \in Threads : ~IsBuilt(t) /\ ~IsCounted(t)
    BY <2>1 DEF Missing, IsBuilt, IsCounted
  <2>3. CreatedTo(Len(history))
    BY <2>1, <2>2 DEF CreatedTo, ZeroTelemetry
  <2> QED
    BY <2>1, <2>2, <2>3 DEF AccountInv, Accounts, ResetInv, RecordedInv, ZeroTelemetry
<1>2. Inv /\ AccountInv /\ [Next]_vars => AccountInv'
  BY AccountsNext
<1>3. Inv /\ AccountInv => TelemetryAccounts
  <2> SUFFICES ASSUME Inv, AccountInv, lock = NoThread, current.id # 0
               PROVE  /\ telemetry.discovery_runs = started - since.runs
                      /\ CreatedTo(Len(history))
                      /\ ChangesTo(current.generation)
                      /\ Len(history) > since.created + Missing => Totals(current)
    BY DEF TelemetryAccounts, CreatedTo, ChangesTo, Missing, First,
           Totals, NodesTotal, EdgesTotal, Counted
  <2>1. \A t \in Threads : pc[t] = "idle"
    BY NoThreadAssumption DEF Inv, LockInv
  <2>2. \A t \in Threads : pc[t] # "build" /\ ~IsBuilt(t) /\ ~IsCounted(t)
    BY <2>1 DEF IsBuilt, IsCounted
  <2> QED
    BY <2>2 DEF AccountInv, Accounts
<1> QED
  BY <1>1, <1>2, <1>3, InvAlways, PTL DEF Spec
=============================================================================
