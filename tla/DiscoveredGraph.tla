--------------------------- MODULE DiscoveredGraph ---------------------------
(***************************************************************************)
(* One evaluation of the merge pipeline on any input: the contributions of *)
(* a discovery are fixed, then merged and attached with any of the hash    *)
(* orders. States the properties of the graph that comes out.              *)
(***************************************************************************)
EXTENDS ProviderMerge, TopologyDiff

CONSTANT Inputs    \* sequences of contributions, in registration order

\* A std::vector.
IsVector(s) == Len(s) \in Nat /\ s = [i \in 1..Len(s) |-> s[i]]

\* What is always true of a node a provider contributes.
ContributedNode(n) ==
  /\ n.type \in NodeType /\ n.name \in Nat /\ n.conf \in Confidence
  /\ n.native \in [{"pci", "storage", "net", "cuda", "machine", "numa"} -> 0..(KeySpan - 1)]

Contributions(c) ==
  /\ IsVector(c)
  /\ \A k \in DOMAIN c :
       /\ IsVector(c[k].nodes) /\ IsVector(c[k].edges)
       /\ \A i \in DOMAIN c[k].nodes : ContributedNode(c[k].nodes[i])

ASSUME InputsAssumption == \A c \in Inputs : Contributions(c)

\* A parent contains a child (GRAPH_MODEL.md): no provider contributes a CONTAINS
\* edge as symmetric.
ASSUME ContainmentAssumption ==
  \A c \in Inputs : \A k \in DOMAIN c : \A i \in DOMAIN c[k].edges :
    c[k].edges[i].type = "CONTAINS" => c[k].edges[i].direction = "DIRECTED"

VARIABLES
  cs,      \* the contributions
  pick,    \* the ref resolution hash order led to
  mg,      \* merge_contributions(cs)
  graph    \* mg after the machine attach pass

vars == <<cs, pick, mg, graph>>

NotMerged == [nodes |-> << >>, edges |-> << >>, conflicts |-> 0]

Init == cs \in Inputs /\ pick = << >> /\ mg = NotMerged /\ graph = NotMerged

MergeInput ==
  /\ mg = NotMerged
  /\ pick' \in RefChoices(cs)
  /\ mg' = MergeContributions(cs, pick')
  /\ mg' # NotMerged
  /\ graph' \in AttachedGraphs(mg', Len(ContributedEdges(cs)))
  /\ UNCHANGED cs

Spec == Init /\ [][MergeInput]_vars
-----------------------------------------------------------------------------
Unbounded ==
  /\ Cardinality({KeyOf(cs, m) : m \in Members(cs)}) <= MaxNodes
  /\ 2 * Len(ContributedEdges(cs)) <= MaxEdges

\* Precedence is decided by confidence alone: unless a group has two equally
\* confident members, the order in which providers were registered does not
\* change a single field of a merged node.
ProviderOrderIrrelevant ==
  (/\ Unbounded
   /\ \A k \in GroupKeys(cs) : \A a, b \in Groups(cs)[k] :
        NodeOf(cs, a).conf = NodeOf(cs, b).conf => a = b)
  => LET sc == Reverse(cs)
     IN  \A k \in GroupKeys(cs) :
           MergeGroup(sc, Groups(sc)[k]) = MergeGroup(cs, Groups(cs)[k])

\* What a merged node says of the machine: everything but the notes on how many
\* reports it was merged from.
Facts(nodes) ==
  [k \in DOMAIN nodes |->
     [nodes[k] EXCEPT !.props =
        [p \in DOMAIN @ \ {"tf.merged_providers", "tf.merged_members"} |-> @[p]]]]

\* Reporting the same facts twice changes nothing: a provider registered under
\* two names, or two that agree on everything, leave the graph as it is but
\* for the merge notes of its nodes.
MergeIdempotent ==
  (Unbounded /\ mg # NotMerged)
  => LET twice == MergeContributions(cs \o cs, pick)
     IN  Facts(twice.nodes) = Facts(mg.nodes) /\ EdgeSet(twice.edges) = EdgeSet(mg.edges)

\* Within the bounds the merged graph has no dangling edge, no edge key twice,
\* no native identity on two nodes, and an edge for every contributed edge
\* whose two refs were declared.
MergedWellFormed ==
  (Unbounded /\ mg # NotMerged)
  => /\ DanglingEnds(mg) = {}
     /\ \A i \in Positions(mg.edges) : IsFirst(mg.edges, i)
     /\ DuplicateIdentities(mg) = 0
     /\ LET es == ContributedEdges(cs) IN
        \A i \in DOMAIN es :
          {es[i].from, es[i].to} \subseteq DOMAIN pick \cup DOMAIN mg.nodes =>
            EdgeKey(ResolvedEdge(DOMAIN mg.nodes, pick, es[i])) \in EdgeKeys(mg.edges)

\* Hardware that did not change is not a new generation: the discovered graph
\* compared with itself shows no event, although compare_snapshots looks only
\* at the first edge with a key on one side and at all of them on the other.
RediscoveryQuiet == NoEvents(Built(graph), Built(graph))

\* The nodes a set of nodes touches through containment and attachment.
Hierarchy(edges, S) ==
  S \cup UNION {{e.source, e.target} :
    e \in {f \in EdgeSet(edges) : /\ f.type \in {"CONTAINS", "ATTACHED_TO"}
                                  /\ {f.source, f.target} \cap S # {}}}

\* "This keeps the graph connected" (DISCOVERY.md): with one machine, if only
\* resources lack a parent and the hierarchy has no cycle, then after the
\* attach pass no set of nodes is cut off from the machine.
AttachConnects ==
  \A m \in Machines(graph) :
    (/\ Unbounded
     /\ Machines(graph) = {m}
     /\ \A n \in DOMAIN mg.nodes \ {m} :
          n \in Parented(mg) \/ mg.nodes[n].type \in Resources
     /\ \A S \in (SUBSET DOMAIN mg.nodes) \ {{}} : \E n \in S :
          \A e \in EdgeSet(mg.edges) :
            (e.type \in {"CONTAINS", "ATTACHED_TO"} /\ e.target = n) => e.source \notin S)
    => \A S \in SUBSET DOMAIN graph.nodes :
         (m \in S /\ Hierarchy(graph.edges, S) = S) => S = DOMAIN graph.nodes

\* Although ingestion goes on past the bound, max_nodes and max_edges hold for the
\* merged graph and for what the snapshot builder makes of it, and the attach pass
\* never drops a resolved edge.
BoundsRespected ==
  /\ Cardinality(DOMAIN mg.nodes) <= MaxNodes
  /\ Cardinality(DOMAIN mg.edges) <= MaxEdges
  /\ Cardinality(DOMAIN BuiltEdges(graph)) <= MaxEdges
  /\ EdgeSet(mg.edges) \subseteq EdgeSet(BuiltEdges(graph))

\* PROVIDERS.md: "drop any edge with an unresolvable endpoint".
EndpointsExist == DanglingEnds(mg) = {}
=============================================================================
