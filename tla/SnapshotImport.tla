--------------------------- MODULE SnapshotImport ----------------------------
(***************************************************************************)
(* TopologyRuntime::deserialize and import_synthetic, step by step: a text *)
(* is parsed, checked against the bounds and read node by node and edge by *)
(* edge into a SnapshotBuilder, whose take() sorts the containment edges   *)
(* to find cycles. The text is a file or the export of a snapshot, and the *)
(* snapshot an import returned may be exported and imported again.         *)
(***************************************************************************)
EXTENDS SnapshotJson, TopologyDiff

CONSTANTS
  Requests,    \* the first calls: [call, exported, snap | doc, oversized]
  MaxNodes,    \* Bounds::max_nodes
  MaxEdges     \* Bounds::max_edges

ASSUME BoundsAssumption == MaxNodes \in Nat /\ MaxEdges \in Nat

\* A snapshot or a parsed file is what its C++ type allows.
Given(r) == IF r.exported THEN IsSnapshot(r.snap) ELSE IsDocument(r.doc)

ASSUME RequestsAssumption == \A r \in Requests : Given(r)

VARIABLES
  request,   \* the call in progress
  doc,       \* the value json::parse returned
  pc, at,    \* the step, and the array element to read next
  nodes, edges, dupes,            \* the builder; dupes counts its warnings
  sort,      \* the topological sort: [indeg, stack, visited]
  snap,      \* the snapshot taken
  outcome,   \* "none", "returned", an ErrorCode, or "bad_variant_access"
  calls, imported_snapshots, malformed_imports_rejected

reading == <<at, nodes, edges, dupes>>
counters == <<calls, imported_snapshots, malformed_imports_rejected>>
vars == <<request, doc, pc, reading, sort, snap, outcome, counters>>

NoSort == [indeg |-> << >>, stack |-> << >>, visited |-> 0]
NoSnapshot == [nodes |-> << >>, edges |-> << >>, generation |-> 0, synthetic |-> FALSE,
               warnings |-> 0, cyclic |-> FALSE]

Init ==
  /\ request \in Requests
  /\ doc = Null /\ pc = "parse" /\ at = 1
  /\ nodes = << >> /\ edges = << >> /\ dupes = 0
  /\ sort = NoSort /\ snap = NoSnapshot /\ outcome = "none"
  /\ calls = 1 /\ imported_snapshots = 0 /\ malformed_imports_rejected = 0

\* catch (...): whatever was thrown is counted.
Reject(error) ==
  /\ pc' = "done" /\ outcome' = error
  /\ malformed_imports_rejected' = malformed_imports_rejected + 1
  /\ UNCHANGED <<request, doc, reading, sort, snap, calls, imported_snapshots>>

\* serialize, if the text is an export, and json::parse. A file that is not
\* JSON has the document Null, which is no object either.
Parse ==
  /\ pc = "parse"
  /\ \E text \in IF request.exported THEN snapshot_to_json(request.snap) ELSE {request.doc} :
       IF request.exported /\ ~Parses(text) THEN Reject("MALFORMED_DATA")
       ELSE /\ doc' = IF request.exported THEN Reparsed(text) ELSE text
            /\ pc' = "check"
            /\ UNCHANGED <<request, reading, sort, snap, outcome, counters>>

\* The size is looked at once the text is parsed.
Check ==
  /\ pc = "check"
  /\ CASE request.oversized -> Reject("OVERSIZED")
       [] ~request.oversized /\
          ~(/\ Has(doc, "format", {"String"})
            /\ doc[2].format = Text("topology_fabric_snapshot")
            /\ Has(doc, "nodes", {"Array"})) -> Reject("MALFORMED_DATA")
       [] OTHER -> /\ pc' = "nodes"
                   /\ UNCHANGED <<request, doc, reading, sort, snap, outcome, counters>>

NodeValues == doc[2].nodes[2]
EdgeValues == doc[2].edges[2]

\* The exception reading the node or edge v raises, or "none"; ids are the
\* fields that must hold an id.
ReadError(v, ids) ==
  CASE \E k \in ids : ~HasId(v, k) -> "MALFORMED_DATA"
    [] /\ \A k \in ids : HasId(v, k)
       /\ \E k \in DOMAIN Properties(v) : PropertyThrows(Properties(v)[k]) -> "bad_variant_access"
    [] OTHER -> "none"

WithNode(id, n) == [m \in DOMAIN nodes \cup {id} |-> IF m = id THEN n ELSE nodes[m]]

\* Mutant of ReadNode: the builder's bound is left to stop the loop.
ReadNodeUnbounded ==
  /\ pc = "nodes" /\ at <= Len(NodeValues)
  /\ LET v == NodeValues[at]
     IN  IF ReadError(v, {"id"}) # "none" THEN Reject(ReadError(v, {"id"}))
         ELSE LET id == v[2].id[2][2]
                  fits == Cardinality(DOMAIN nodes) < MaxNodes /\ id \notin DOMAIN nodes
              IN  /\ nodes' = IF fits THEN WithNode(id, node_from_json(v)) ELSE nodes
                  /\ dupes' = dupes + IF fits THEN 0 ELSE 1
                  /\ at' = at + 1
                  /\ UNCHANGED <<request, doc, pc, edges, sort, snap, outcome, counters>>

\* The count includes repeated ids, of which add_node keeps the first.
ReadNode ==
  /\ pc = "nodes" /\ at <= Len(NodeValues)
  /\ LET v == NodeValues[at]
         error == IF at > MaxNodes THEN "OVERSIZED" ELSE ReadError(v, {"id"})
     IN  IF error # "none" THEN Reject(error)
         ELSE LET id == v[2].id[2][2]
                  fresh == id \notin DOMAIN nodes
              IN  /\ nodes' = IF fresh THEN WithNode(id, node_from_json(v)) ELSE nodes
                  /\ dupes' = dupes + IF fresh THEN 0 ELSE 1
                  /\ at' = at + 1
                  /\ UNCHANGED <<request, doc, pc, edges, sort, snap, outcome, counters>>

EndNodes ==
  /\ pc = "nodes" /\ at > Len(NodeValues)
  /\ IF Has(doc, "edges", {"Array"})
     THEN /\ pc' = "edges" /\ at' = 1
          /\ UNCHANGED <<request, doc, nodes, edges, dupes, sort, snap, outcome, counters>>
     ELSE Reject("MALFORMED_DATA")

ReadEdge ==
  /\ pc = "edges" /\ at <= Len(EdgeValues)
  /\ LET v == EdgeValues[at]
         error == IF at > MaxEdges THEN "OVERSIZED" ELSE ReadError(v, {"source", "target"})
     IN  IF error # "none" THEN Reject(error)
         ELSE /\ edges' = Append(edges, edge_from_json(v))
              /\ at' = at + 1
              /\ UNCHANGED <<request, doc, pc, nodes, dupes, sort, snap, outcome, counters>>

-----------------------------------------------------------------------------
(* take(): Kahn's algorithm over the CONTAINS edges.                       *)

\* The number of CONTAINS edges from a to b; b appears that often in child_of[a].
Kids(a, b) == Cardinality({i \in ContainsEdges(edges) : edges[i].source = a /\ edges[i].target = b})

\* Hash order decides in which order the roots are stacked.
Take ==
  /\ pc = "edges" /\ at > Len(EdgeValues)
  /\ LET ends == UNION {{edges[i].source, edges[i].target} : i \in ContainsEdges(edges)}
         indeg == [n \in ends |-> Cardinality({i \in ContainsEdges(edges) : edges[i].target = n})]
     IN  \E stack \in SetToSeqs({n \in ends : indeg[n] = 0}) :
           sort' = [indeg |-> indeg, stack |-> stack, visited |-> 0]
  /\ pc' = "sort"
  /\ UNCHANGED <<request, doc, reading, snap, outcome, counters>>

\* Mutant of Visit: a child listed twice is counted once.
VisitEachChildOnce ==
  /\ pc = "sort" /\ sort.stack # << >>
  /\ LET cur == Last(sort.stack)
         indeg == [n \in DOMAIN sort.indeg |-> sort.indeg[n] - IF Kids(cur, n) > 0 THEN 1 ELSE 0]
         freed == {n \in DOMAIN indeg : Kids(cur, n) > 0 /\ indeg[n] = 0}
     IN  sort' = [indeg |-> indeg, stack |-> Front(sort.stack) \o SetToSeq(freed),
                  visited |-> sort.visited + 1]
  /\ UNCHANGED <<request, doc, pc, reading, snap, outcome, counters>>

\* A child is stacked when the last of its edges is taken away.
Visit ==
  /\ pc = "sort" /\ sort.stack # << >>
  /\ LET cur == Last(sort.stack)
         indeg == [n \in DOMAIN sort.indeg |-> sort.indeg[n] - Kids(cur, n)]
         freed == {n \in DOMAIN indeg : Kids(cur, n) > 0 /\ indeg[n] = 0}
         last(n) == CHOOSE i \in ContainsEdges(edges) :
                      /\ edges[i].source = cur /\ edges[i].target = n
                      /\ \A j \in ContainsEdges(edges) :
                           edges[j].source = cur /\ edges[j].target = n => j <= i
     IN  sort' = [indeg   |-> indeg,
                  stack   |-> Front(sort.stack) \o ByEdge([n \in freed |-> last(n)]),
                  visited |-> sort.visited + 1]
  /\ UNCHANGED <<request, doc, pc, reading, snap, outcome, counters>>

\* The immutable snapshot. The errors of validate are ErrorCount(snap), of which
\* the sort decides one.
Finish ==
  /\ pc = "sort" /\ sort.stack = << >>
  /\ snap' = [nodes |-> nodes, edges |-> edges,
              generation |-> IF Has(doc, "generation", Numbers)
                             THEN integer(doc[2].generation) % (2 * MaxInt64 + 2) ELSE 0,
              synthetic  |-> Has(doc, "synthetic", {"Bool"}) /\ doc[2].synthetic[2],
              warnings   |-> dupes,
              cyclic     |-> sort.visited # Cardinality(DOMAIN sort.indeg)]
  /\ pc' = "taken"
  /\ UNCHANGED <<request, doc, reading, sort, outcome, counters>>

\* import_synthetic copies a snapshot that lacks the flag through a second
\* builder, which finds the same graph and none of the repeated ids.
Rebuilt(s) ==
  IF request.call = "import_synthetic" /\ ~s.synthetic
  THEN [s EXCEPT !.synthetic = TRUE, !.warnings = 0] ELSE s

\* Mutant of Return: the copy is dropped.
ReturnOriginal ==
  /\ pc = "taken" /\ pc' = "done" /\ outcome' = "returned"
  /\ imported_snapshots' = imported_snapshots + 1
  /\ UNCHANGED <<request, doc, reading, sort, snap, calls, malformed_imports_rejected>>

Return ==
  /\ pc = "taken" /\ pc' = "done" /\ outcome' = "returned"
  /\ snap' = Rebuilt(snap)
  /\ imported_snapshots' = imported_snapshots + 1
  /\ UNCHANGED <<request, doc, reading, sort, calls, malformed_imports_rejected>>

\* The returned snapshot is exported and imported once more.
Again ==
  /\ pc = "done" /\ outcome = "returned" /\ calls = 1
  /\ request' = [call |-> "deserialize", exported |-> TRUE, snap |-> snap, oversized |-> FALSE]
  /\ doc' = Null /\ pc' = "parse" /\ at' = 1
  /\ nodes' = << >> /\ edges' = << >> /\ dupes' = 0
  /\ sort' = NoSort /\ snap' = NoSnapshot /\ outcome' = "none"
  /\ calls' = calls + 1
  /\ UNCHANGED <<imported_snapshots, malformed_imports_rejected>>

Next == \/ Parse \/ Check \/ ReadNode \/ EndNodes \/ ReadEdge
        \/ Take \/ Visit \/ Finish \/ Return \/ Again

Spec == Init /\ [][Next]_vars
-----------------------------------------------------------------------------
WithinBounds(s) == Cardinality(DOMAIN s.nodes) <= MaxNodes /\ Len(s.edges) <= MaxEdges

\* The text can carry the snapshot: it is ASCII, not too large for the parser,
\* and no number is out of strtoll's range or finer than the decimals written.
Portable(s) ==
  /\ \A text \in snapshot_to_json(s) : Parses(text)
  /\ s.generation <= MaxInt64
  /\ \A n \in DOMAIN s.nodes : s.nodes[n].caps <= MaxInt64
  /\ \A i \in DOMAIN s.edges : \A l \in s.edges[i].link :
       Rounded(l) = l /\ l \div 6 \in Int64

\* A property that the text keeps with its kind: only negative integers are
\* signed, a double is not whole, and a list of strings is not empty.
Kept(p) ==
  CASE Kind(p) = "Int"     -> p[2] \in Int64 /\ p[2] < 0
    [] Kind(p) = "Uint"    -> p[2] \in Int64
    [] Kind(p) = "Double"  -> Rounded(p[2]) = p[2] /\ p[2] % 6 # 0
    [] Kind(p) = "Ints"    -> \A i \in DOMAIN p[2] : p[2][i] \in Int64
    [] Kind(p) = "Strings" -> p[2] # << >>
    [] OTHER -> TRUE

\* A snapshot exported and imported again is accepted and is the same topology:
\* it has the same nodes, equal but for properties that the text does not keep, and
\* the same edges in some order; compare_snapshots sees no material change in
\* either direction, it is exactly as valid and keeps its generation. So does the
\* result of that import, or of the import of any file.
RoundTripExact ==
  (/\ pc = "done" /\ request.exported /\ ~request.oversized
   /\ WithinBounds(request.snap) /\ Portable(request.snap) /\ UniqueKeys(request.snap))
  => /\ outcome = "returned"
     /\ DOMAIN snap.nodes = DOMAIN request.snap.nodes
     /\ \A n \in DOMAIN snap.nodes :
          LET old == request.snap.nodes[n]
              new == snap.nodes[n]
          IN  /\ [new EXCEPT !.props = old.props] = old
              /\ DOMAIN new.props = DOMAIN old.props
              /\ \A k \in DOMAIN old.props : Kept(old.props[k]) => new.props[k] = old.props[k]
     /\ EdgeSet(snap.edges) = EdgeSet(request.snap.edges)
     /\ ~MaterialChange(request.snap, snap) /\ ~MaterialChange(snap, request.snap)
     /\ ErrorCount(snap) = ErrorCount(request.snap)
     /\ snap.generation = request.snap.generation

\* An import is all or nothing: what is accepted is within the bounds and holds
\* every edge of the document and every node, the first of each id, and
\* deserialize warns of each repeated id.
ImportComplete ==
  (pc = "done" /\ outcome = "returned")
  => LET ids == {NodeValues[i][2].id[2][2] : i \in DOMAIN NodeValues}
     IN  /\ Len(NodeValues) <= MaxNodes /\ Len(EdgeValues) <= MaxEdges
         /\ DOMAIN snap.nodes = ids
         /\ \A i \in DOMAIN NodeValues :
              (\A j \in 1..(i - 1) : NodeValues[j][2].id[2][2] # NodeValues[i][2].id[2][2])
                => snap.nodes[NodeValues[i][2].id[2][2]] = node_from_json(NodeValues[i])
         /\ snap.edges = [i \in DOMAIN EdgeValues |-> edge_from_json(EdgeValues[i])]
         /\ request.call = "deserialize" => snap.warnings = Len(NodeValues) - Cardinality(ids)

\* The topological sort reports a cycle exactly when containment has one, with
\* parallel edges, self-containment and endpoints that are no nodes.
CycleCheckExact == pc = "taken" => (snap.cyclic <=> HasCycle(snap.edges))

\* Every call that ended is counted once, as imported when it returned a snapshot
\* and as rejected when it threw anything, and what import_synthetic returns is
\* marked synthetic.
ImportAccounted ==
  LET ended == IF pc = "done" THEN calls ELSE calls - 1
  IN  /\ imported_snapshots + malformed_imports_rejected = ended
      /\ pc = "done" => (outcome = "returned" <=> imported_snapshots = calls)
      /\ (pc = "done" /\ outcome = "returned" /\ request.call = "import_synthetic")
           => snap.synthetic

\* SERIALIZATION.md: "The immutable snapshot is rebuildable exactly from its JSON".
ExportAccepted ==
  (pc = "done" /\ request.exported /\ ~request.oversized /\ WithinBounds(request.snap))
    => outcome = "returned"
=============================================================================
