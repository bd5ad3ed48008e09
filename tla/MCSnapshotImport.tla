-------------------------- MODULE MCSnapshotImport ---------------------------
(* Snapshots to export, whose nodes carry every kind of property, and        *)
(* documents: every containment of up to three edges on three nodes, and a   *)
(* sound document in which one thing is wrong.                               *)
EXTENDS SnapshotImport

Name(tag) == <<tag, "name">>

Props ==
  [{"p"} -> {Null, <<"Bool", TRUE>>, <<"Int", 1>>, <<"Int", -2>>, <<"Uint", 9>>, <<"Double", 3>>,
                    <<"Double", 5>>, <<"Double", -1>>, <<"String", Name("ascii")>>, <<"Strings", << >>>>,
                    <<"Strings", <<<<"String", Name("ascii")>>>>>>, <<"Ints", <<1, -1>>>>}]

MCNode(type, key, numa, caps, props, name) ==
  [type |-> type, key |-> key, numa |-> numa, caps |-> caps, conf |-> "HIGH",
   provider |-> "pci", name |-> name, props |-> props]

Edge(s, t, type, direction, link) ==
  [source |-> s, target |-> t, type |-> type, direction |-> direction, link |-> link]

Exported ==
  {[nodes |-> (2 :> MCNode("MACHINE", 0, numa, 9 - numa, << >>, Name("ascii"))) @@
              (1 :> MCNode("ACCELERATOR", key, 1, 7, props, Name(tag))),
    edges |-> es, generation |-> 2, synthetic |-> FALSE, warnings |-> 0, cyclic |-> FALSE] :
     numa \in {0, 4}, key \in {0, 1}, props \in Props, tag \in {"ascii", "non_ascii"},
     es \in {<<Edge(2, 1, "CONTAINS", "DIRECTED", {}), Edge(1, 2, "PEER_TO", "UNDIRECTED", {3}),
               Edge(1, 2, "CONTAINS", "DIRECTED", {})>>,
             <<Edge(2, 3, "CONTAINS", "DIRECTED", {6}), Edge(1, 2, "LOCAL_TO", "UNDIRECTED", {5})>>,
             <<Edge(1, 2, "PEER_TO", "UNDIRECTED", {3}), Edge(1, 2, "PEER_TO", "DIRECTED", {6})>>}}

NodeDoc(id) == Object([id |-> Hex(id), type |-> Text("MACHINE")])
EdgeDoc(s, t) == Object([source |-> Hex(s), target |-> Hex(t), type |-> Text("CONTAINS")])

Doc(ns, es) ==
  Object([format |-> Text("topology_fabric_snapshot"), generation |-> <<"Uint", 1>>,
          synthetic |-> <<"Bool", TRUE>>, nodes |-> <<"Array", ns>>, edges |-> <<"Array", es>>])

Contained ==
  {Doc(<<NodeDoc(1), NodeDoc(2)>>, [i \in DOMAIN s |-> EdgeDoc(s[i][1], s[i][2])]) :
     s \in UNION {[1..n -> (1..3) \X (1..3)] : n \in 0..3}}

With(o, k, v) == Object((k :> v) @@ o[2])
Without(o, k) == Object([f \in DOMAIN o[2] \ {k} |-> o[2][f]])

Odd == {Null, <<"Bool", FALSE>>, <<"Int", -1>>, <<"Uint", 6>>, <<"Double", 9>>, <<"Double", 54>>, <<"String", Name("non_ascii")>>,
        Object([p |-> <<"Double", 4>>]), Object([p |-> <<"Double", 6>>]), Object([p |-> <<"Int", -2>>]),
        <<"Array", << >>>>, <<"Array", <<Text("a"), <<"Uint", 1>>>>>>, <<"Array", <<Null, Text("a")>>>>,
        Object([p |-> <<"Array", <<Text("a"), <<"Uint", 1>>>>>>]),
        Object([p |-> <<"Array", <<<<"Double", 9>>, Text("a")>>>>]), Object([p |-> Object(<< >>)]),
        Object([key |-> Text("a"), numa |-> <<"Int", -1>>, provider |-> Text("user")])}

\* One field of a node, an edge or the document is absent or odd, or a node or
\* an edge too many is there.
Damaged ==
  LET node == NodeDoc(2)
      edge == EdgeDoc(2, 1)
      of(n, e) == Doc(<<NodeDoc(1), n>>, <<e>>)
      forms(o, f) == {Without(o, f)} \cup {With(o, f, v) : v \in Odd}
  IN  {of(n, edge) : n \in UNION {forms(node, f) : f \in {"id", "type", "name", "native", "capabilities",
         "confidence", "provenance", "properties"}} \cup {Null}}
      \cup {of(node, e) : e \in UNION {forms(edge, f) : f \in {"source", "type", "direction", "latency_ns",
         "properties"}} \cup {Null}}
      \cup UNION {forms(of(node, edge), f) : f \in {"format", "nodes", "edges", "generation", "synthetic"}}
      \cup {Doc(ns, <<edge>>) : ns \in {<<node, NodeDoc(1), With(node, "type", Text("PCI_ROOT"))>>,
              <<NodeDoc(1), node, NodeDoc(3), NodeDoc(4)>>}}
      \cup {Doc(<<node>>, <<edge, edge, edge, edge>>), Null, Object(<< >>), <<"Array", <<node>>>>}

MCRequests ==
  [call : {"deserialize", "import_synthetic"}, exported : {TRUE}, snap : Exported, oversized : {FALSE}]
  \cup [call : {"deserialize"}, exported : {FALSE}, doc : Contained, oversized : {FALSE}]
  \cup [call : {"deserialize", "import_synthetic"}, exported : {FALSE}, doc : Damaged, oversized : BOOLEAN]
=============================================================================
