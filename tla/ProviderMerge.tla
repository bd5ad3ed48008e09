---------------------------- MODULE ProviderMerge ----------------------------
(***************************************************************************)
(* merge_contributions: the provider contributions of one discovery, in    *)
(* registration order, become one graph. Nodes that carry the same native  *)
(* identity are collapsed, edges are resolved through provider refs.       *)
(*                                                                         *)
(* A contribution is a record                                              *)
(*   [provider, success, partial, warned, nodes, edges]                    *)
(* whose nodes and edges are sequences of                                  *)
(*   [ref, type, name, native, caps, props, conf, provider]                *)
(*   [from, to, type, direction, link]                                     *)
(* native maps the reported identities to positive naturals (0: not        *)
(* reported; the fields of one identity, like bus, device and function,    *)
(* are reported together and are one value), caps is a set of capability   *)
(* bits, props a function from property names, link stands for the five    *)
(* link facts of an edge. Refs and group keys are strings in one name      *)
(* space: both are naturals here. A node's id is a hash of its group key;  *)
(* here it is the key itself.                                              *)
(***************************************************************************)
EXTENDS TopologyGraph, Sequences, SequencesExt

CONSTANTS
  MaxNodes,   \* Bounds::max_nodes
  MaxEdges,   \* Bounds::max_edges
  KeySpan     \* every reported identity value and name is below this bound

ASSUME BoundsAssumption == MaxNodes \in Nat /\ MaxEdges \in Nat
ASSUME KeySpanAssumption == KeySpan \in Nat \ {0}

-----------------------------------------------------------------------------
(* Identity.                                                               *)

\* Mutant of IdentityPriority: what the CUDA driver says comes first.
IdentityPriorityCudaFirst == <<"cuda", "pci", "storage", "net", "machine">>

\* NativeIdentity::canonical_key tries the identities in this order ...
IdentityPriority == <<"pci", "storage", "net", "cuda", "machine">>

\* ... and the key's prefix sorts like this against the other prefixes, all of
\* them before the "type:<TYPE>:" prefixes of nodes without a native identity.
PrefixRank == [cuda |-> 1, machine |-> 2, net |-> 3, pci |-> 4, storage |-> 5]

TypesInKeyOrder ==
  <<"ACCELERATOR", "ACCELERATOR_MEMORY_DOMAIN", "CPU_CORE", "CPU_PACKAGE",
    "CPU_THREAD", "EXTENSION", "HOST_MEMORY_DOMAIN", "MACHINE",
    "NETWORK_INTERFACE", "NUMA_NODE", "PCI_BRIDGE", "PCI_DEVICE", "PCI_ROOT",
    "SHARED_MEMORY_DOMAIN", "STORAGE_DEVICE", "UNKNOWN">>

\* The key, 0 when no identity is reported.
canonical_key(native) ==
  LET known == {i \in DOMAIN IdentityPriority : native[IdentityPriority[i]] # 0}
      first == IdentityPriority[CHOOSE i \in known : \A j \in known : i <= j]
  IN  IF known = {} THEN 0 ELSE KeySpan * PrefixRank[first] + native[first]

type_key(type, name) ==
  KeySpan * (5 + CHOOSE i \in DOMAIN TypesInKeyOrder :
                   TypesInKeyOrder[i] = type) + name

group_key(n) ==
  IF canonical_key(n.native) # 0 THEN canonical_key(n.native)
  ELSE type_key(n.type, n.name)

type_rank(t) ==
  [ACCELERATOR_MEMORY_DOMAIN |-> 9, ACCELERATOR |-> 8, NETWORK_INTERFACE |-> 7,
   STORAGE_DEVICE |-> 6, SHARED_MEMORY_DOMAIN |-> 6, PCI_DEVICE |-> 5,
   PCI_BRIDGE |-> 4, PCI_ROOT |-> 3, CPU_PACKAGE |-> 2, CPU_CORE |-> 2,
   CPU_THREAD |-> 2, NUMA_NODE |-> 1, HOST_MEMORY_DOMAIN |-> 1, MACHINE |-> 1,
   UNKNOWN |-> 0, EXTENSION |-> 0][t]

-----------------------------------------------------------------------------
(* Grouping. A member <<c, i>> is node i of contribution c.                *)

NodeOf(cs, m) == cs[m[1]].nodes[m[2]]
KeyOf(cs, m)  == group_key(NodeOf(cs, m))

Members(cs) == UNION {{<<c, i>> : i \in DOMAIN cs[c].nodes} : c \in DOMAIN cs}

\* Whether node i of contribution c is still read, given the groups there were
\* before c: the bound is tested after each insertion.
Admits(cs, c, groups, i) ==
  i = 1 \/ Cardinality(groups \cup {KeyOf(cs, <<c, j>>) : j \in 1..(i - 1)}) <= MaxNodes

\* The groups there are after each contribution.
GroupsAfter(cs) ==
  LET after[c \in 0..Len(cs)] ==
        IF c = 0 THEN {}
        ELSE after[c - 1] \cup
             {KeyOf(cs, <<c, i>>) :
                i \in {j \in DOMAIN cs[c].nodes : Admits(cs, c, after[c - 1], j)}}
  IN  after

\* The members ingested. The bound breaks out of the current contribution only:
\* once it is exceeded every later contribution still gets its first node in.
Ingested(cs) ==
  LET after == GroupsAfter(cs)
  IN  {m \in Members(cs) : Admits(cs, m[1], after[m[1] - 1], m[2])}

\* The groups: a function from group keys to sets of members.
Groups(cs) ==
  LET ms == Ingested(cs)
  IN  [k \in {KeyOf(cs, m) : m \in ms} |-> {m \in ms : KeyOf(cs, m) = k}]

GroupKeys(cs) == DOMAIN Groups(cs)

\* Mutant of KeptGroups: one group too many.
KeptGroupsOneMore(cs) == Leading(GroupKeys(cs), MaxNodes + 1)

\* Groups are turned into nodes in key order until max_nodes is reached.
KeptGroups(cs) == Leading(GroupKeys(cs), MaxNodes)

\* Mutant of Precedes: registration order before confidence.
PrecedesByProvider(cs, a, b) == a[1] < b[1] \/ (a[1] = b[1] /\ a[2] < b[2])

\* The order members are sorted in: most confident first, then by provider
\* registration order, then by position.
Precedes(cs, a, b) ==
  LET ra == Rank(NodeOf(cs, a).conf)
      rb == Rank(NodeOf(cs, b).conf)
  IN  IF ra # rb THEN ra > rb
      ELSE IF a[1] # b[1] THEN a[1] < b[1] ELSE a[2] < b[2]

Foremost(cs, S) == CHOOSE m \in S : \A o \in S \ {m} : Precedes(cs, m, o)

-----------------------------------------------------------------------------
(* Merging one group.                                                      *)

merge_native(cs, S) ==
  [f \in {"pci", "storage", "net", "cuda", "machine", "numa"} |->
     LET known == {m \in S : NodeOf(cs, m).native[f] # 0}
     IN  IF known = {} THEN 0 ELSE NodeOf(cs, Foremost(cs, known)).native[f]]

\* The foremost member among those of the most specific type.
BestTyped(cs, S) ==
  Foremost(cs, {m \in S : \A o \in S :
                  type_rank(NodeOf(cs, m).type) >= type_rank(NodeOf(cs, o).type)})

\* The two notes a merged node gets unless a provider reported one by that name:
\* the provider and ref of each member, best first, and how many there are.
MergeNotes(cs, S) ==
  [p \in {"tf.merged_providers", "tf.merged_members"} |->
     IF p = "tf.merged_members" THEN Cardinality(S)
     ELSE LET at(i) == CHOOSE m \in S : Cardinality({o \in S : Precedes(cs, o, m)}) = i - 1
          IN  [i \in 1..Cardinality(S) |-> <<NodeOf(cs, at(i)).provider, NodeOf(cs, at(i)).ref>>]]

\* The foremost value of each property, and the notes.
merge_properties(cs, S) ==
  LET reported == UNION {DOMAIN NodeOf(cs, m).props : m \in S}
      notes == MergeNotes(cs, S)
  IN  [p \in reported \cup DOMAIN notes |->
         IF p \in reported
         THEN NodeOf(cs, Foremost(cs, {m \in S : p \in DOMAIN NodeOf(cs, m).props})).props[p]
         ELSE notes[p]]

\* Mutant of MergeGroup: capability bits are toggled instead of accumulated.
MergeGroupTogglesCaps(cs, S) ==
  LET front  == NodeOf(cs, Foremost(cs, S))
      native == merge_native(cs, S)
      times(c) == Cardinality({m \in S : c \in NodeOf(cs, m).caps})
  IN  [type     |-> NodeOf(cs, BestTyped(cs, S)).type,
       key      |-> canonical_key(native),
       numa     |-> native["numa"],
       caps     |-> {c \in UNION {NodeOf(cs, m).caps : m \in S} : times(c) % 2 = 1},
       conf     |-> front.conf,
       provider |-> front.provider,
       props    |-> merge_properties(cs, S)]

MergeGroup(cs, S) ==
  LET front  == NodeOf(cs, Foremost(cs, S))
      native == merge_native(cs, S)
  IN  [type     |-> NodeOf(cs, BestTyped(cs, S)).type,
       key      |-> canonical_key(native),
       numa     |-> native["numa"],
       caps     |-> UNION {NodeOf(cs, m).caps : m \in S},
       conf     |-> front.conf,
       provider |-> front.provider,
       props    |-> merge_properties(cs, S)]

\* A conflict is recorded whenever a later member reports a property again.
Conflicts(cs, S) ==
    MapThenSumSet(LAMBDA m : Cardinality(DOMAIN NodeOf(cs, m).props), S)
  - Cardinality(UNION {DOMAIN NodeOf(cs, m).props : m \in S})

-----------------------------------------------------------------------------
(* Edges.                                                                  *)

\* Each declared ref with the groups that declare it.
Declarers(cs) ==
  LET ms == Ingested(cs)
  IN  [r \in {NodeOf(cs, m).ref : m \in ms} |->
         {KeyOf(cs, m) : m \in {n \in ms : NodeOf(cs, n).ref = r}}]

\* Refs are entered by iterating an unordered_map of groups and the first
\* entry of a ref stays, so a ref declared by several groups ends up at any
\* one of them: a choice function over the declared refs.
RefChoices(cs) ==
  LET d == Declarers(cs)
      shared == {r \in DOMAIN d : Cardinality(d[r]) > 1}
  IN  {[r \in DOMAIN d |-> IF r \in shared THEN pick[r] ELSE CHOOSE k \in d[r] : TRUE] :
         pick \in {f \in [shared -> UNION {d[r] : r \in shared}] :
                     \A r \in shared : f[r] \in d[r]}}

\* What refToId holds for r, given the groups kept: a kept group's own key wins
\* over refs, and groupNodeId[key] default-inserts the null id for a group that
\* was dropped.
Resolvable(kept, pick, r) == r \in kept \cup DOMAIN pick

Resolve(kept, pick, r) ==
  IF r \in kept THEN r
  ELSE IF pick[r] \in kept THEN pick[r] ELSE kNullNodeId

ContributedEdges(cs) == FlattenSeq([c \in DOMAIN cs |-> cs[c].edges])

ResolvedEdge(kept, pick, e) ==
  [source |-> Resolve(kept, pick, e.from), target |-> Resolve(kept, pick, e.to),
   type |-> e.type, direction |-> e.direction, link |-> e.link]

\* The positions of the edges with two resolvable endpoints ...
ResolvableEdges(cs, pick) ==
  LET es == ContributedEdges(cs)
      kept == KeptGroups(cs)
  IN  {i \in DOMAIN es : /\ Resolvable(kept, pick, es[i].from)
                         /\ Resolvable(kept, pick, es[i].to)}

\* ... and the edges, up to max_edges of them.
ResolvedEdges(cs, pick) ==
  LET es == ContributedEdges(cs)
      kept == KeptGroups(cs)
  IN  [i \in Leading(ResolvableEdges(cs, pick), MaxEdges) |-> ResolvedEdge(kept, pick, es[i])]

\* Mutant of Deduplicate: edges are compared as stored.
DeduplicateRaw(edges) ==
  [i \in {j \in Positions(edges) : \A k \in Positions(edges) :
            k < j => edges[k] # edges[j]} |-> edges[i]]

\* The first edge of each key stays.
Deduplicate(edges) ==
  [i \in {j \in Positions(edges) : IsFirst(edges, j)} |-> edges[i]]

MergeContributions(cs, pick) ==
  LET groups == Groups(cs)
      kept == KeptGroups(cs)
  IN  [nodes     |-> [k \in kept |-> MergeGroup(cs, groups[k])],
       edges     |-> Deduplicate(ResolvedEdges(cs, pick)),
       conflicts |-> MapThenSumSet(LAMBDA k : Conflicts(cs, groups[k]), kept)]
-----------------------------------------------------------------------------
(* What discover() makes of the merged graph: the machine attach pass and    *)
(* the bounds of SnapshotBuilder.                                            *)

Resources == {"ACCELERATOR", "STORAGE_DEVICE", "NETWORK_INTERFACE",
              "PCI_ROOT", "PCI_DEVICE"}

Machines(g) == {n \in DOMAIN g.nodes : g.nodes[n].type = "MACHINE"}

\* Mutant of Parented: any incoming edge counts.
ParentedByAnyEdge(g) == {e.target : e \in EdgeSet(g.edges)}

Parented(g) ==
  {e.target : e \in {f \in EdgeSet(g.edges) : f.type \in {"CONTAINS", "ATTACHED_TO"}}}

\* The resources other than machine m that nothing contains or attaches.
Unparented(g, m) ==
  {n \in DOMAIN g.nodes \ {m} : g.nodes[n].type \in Resources /\ n \notin Parented(g)}

\* They become children of m: edges appended to the vector, whose last position
\* in use is end, in the order of the sequence ns.
AttachToMachine(g, m, ns, end) ==
  LET old == Positions(g.edges)
  IN  [g EXCEPT !.edges =
         [i \in old \cup {end + k : k \in DOMAIN ns} |->
            IF i \in old THEN g.edges[i]
            ELSE [source |-> m, target |-> ns[i - end], type |-> "CONTAINS",
                  direction |-> "DIRECTED", link |-> 0]]]

\* Without a machine there is nothing to attach to. Both loops run over an
\* unordered_map: with several machines hash order decides which one is found,
\* and it decides the order of the new edges.
AttachedGraphs(g, end) ==
  IF Machines(g) = {} THEN {g}
  ELSE UNION {{AttachToMachine(g, m, ns, end) : ns \in SetToSeqs(Unparented(g, m))} :
                m \in Machines(g)}

\* merge_contributions and the attach pass, for any hash order.
MergedGraphs(cs) ==
  UNION {AttachedGraphs(g, Len(ContributedEdges(cs))) :
           g \in {MergeContributions(cs, pick) : pick \in RefChoices(cs)}}

\* The edges SnapshotBuilder::add_edge keeps; every merged node fits max_nodes.
BuiltEdges(g) == [i \in Leading(Positions(g.edges), MaxEdges) |-> g.edges[i]]

Built(g) == [nodes |-> g.nodes, edges |-> BuiltEdges(g)]
=============================================================================
