---------------------------- MODULE SnapshotJson -----------------------------
(***************************************************************************)
(* What serialization does to the data of a snapshot: the JSON value built *)
(* from it, what writing a value as text and parsing it again makes of the *)
(* value, and what is read back from a value.                              *)
(*                                                                         *)
(* A JSON value is a tuple <<kind, content>>. A string is <<tag, text>>,   *)
(* the tag being "ascii", "non_ascii", or "hex" for the 32 digits of a     *)
(* node id. A double is a number of sixths, of which the text keeps        *)
(* halves: the six decimals of std::to_string. A node has the fields type, *)
(* key, numa, caps, conf, provider, name and props, an edge source,        *)
(* target, type, direction and link; an optional field of an identity is 0 *)
(* when unset and n + 1 for the value n, link is {} or the set of the      *)
(* latency. Each stands for the fields that are treated alike.             *)
(***************************************************************************)
EXTENDS TopologyGraph, Integers, Sequences, SequencesExt

CONSTANTS
  MaxInt64,    \* INT64_MAX
  Width,       \* 2^16 or 2^32: the range of an unsigned identity
  MaxValues    \* ParseOptions::max_nodes

ASSUME WidthAssumption ==
  MaxInt64 \in Nat /\ Width \in Nat \ {0} /\ Width - 1 <= MaxInt64

Null == <<"Null">>
Text(s) == <<"String", <<"ascii", s>>>>
Hex(id) == <<"String", <<"hex", id>>>>
Object(f) == <<"Object", f>>
Kind(v) == v[1]
Compound == {"Array", "Object"}
Numbers == {"Int", "Uint", "Double"}

\* A std::vector, and a map that may hold anything.
Vector(s) == Len(s) \in Nat /\ DOMAIN s = 1..Len(s)
IsMap(f) == f = [x \in DOMAIN f |-> f[x]]

\* The values without parts.
IsString(s) == s = <<s[1], s[2]>> /\ (s[1] = "hex" => s[2] \in Nat)

Atom(v) == \/ v = Null
           \/ v \in {"Bool"} \X BOOLEAN
           \/ v \in {"Uint"} \X Nat
           \/ v \in {"Int", "Double"} \X Int
           \/ v = <<"String", v[2]>> /\ IsString(v[2])

\* An array or object whose elements are as P says, or an atom.
Composed(v, P(_)) ==
  IF Kind(v) \in Compound
  THEN /\ v = <<Kind(v), v[2]>> /\ IsMap(v[2])
       /\ Kind(v) = "Array" => Vector(v[2])
       /\ \A k \in DOMAIN v[2] : P(v[2][k])
  ELSE Atom(v)

\* A value that parse returns, as deep as it is read: the document, its arrays,
\* a node, its properties and a list among these.
IsElement(v)  == Kind(v) \in Compound \/ Atom(v)
IsProperty(v) == Composed(v, IsElement)
IsField(v)    == Composed(v, IsProperty)
IsEntry(v)    == Composed(v, IsField)
IsArray(v)    == Composed(v, IsEntry)
IsDocument(v) == Composed(v, IsArray)

-----------------------------------------------------------------------------
(* The text: dump followed by parse.                                       *)

Rounded(sixths) == ((sixths + 1) \div 3) * 3

Int64 == (-MaxInt64 - 1)..MaxInt64

\* A number without fraction or exponent is parsed by strtoll, which saturates,
\* and is unsigned unless it has a sign: whole doubles come back as integers.
Whole(n, negative) ==
  IF negative THEN <<"Int", IF n < -MaxInt64 - 1 THEN -MaxInt64 - 1 ELSE n>>
  ELSE <<"Uint", IF n > MaxInt64 THEN MaxInt64 ELSE n>>

Scalar(v) ==
  CASE Kind(v) \in {"Int", "Uint"} -> Whole(v[2], v[2] < 0)
    [] Kind(v) = "Double"  -> LET d == Rounded(v[2])
                              IN  IF d % 6 = 0 THEN Whole(d \div 6, v[2] < 0) ELSE <<"Double", d>>
    [] OTHER -> v

\* An array or object of what F makes of its elements, any other value as it is.
Inside(v, F(_)) ==
  IF Kind(v) \in Compound THEN <<Kind(v), [k \in DOMAIN v[2] |-> F(v[2][k])]>> ELSE Scalar(v)

\* An export nests as deep as the document, its nodes, a node, its properties and
\* a list among these.
ReparsedProperty(v) == Inside(v, Scalar)
ReparsedField(v)    == Inside(v, ReparsedProperty)
ReparsedNode(v)     == Inside(v, ReparsedField)
ReparsedArray(v)    == Inside(v, ReparsedNode)
Reparsed(v)         == Inside(v, ReparsedArray)

\* The values in v, by the path that leads to each.
Parts(v) ==
  LET within[depth \in 0..5] ==
        IF depth = 0 THEN {<<<< >>, v>>}
        ELSE UNION {{<<Append(p[1], k), p[2][2][k]>> : k \in DOMAIN p[2][2]} :
                      p \in {x \in within[depth - 1] : Kind(x[2]) \in Compound}}
  IN  UNION {within[depth] : depth \in 0..5}

\* The number of values parse_value counts.
Values(v) == Cardinality(Parts(v))

\* Bytes above 0x7F are written as they are and rejected by parse_string.
AsciiOnly(v) == \A p \in Parts(v) : Kind(p[2]) = "String" => p[2][2][1] # "non_ascii"

Parses(v) == AsciiOnly(v) /\ Values(v) <= MaxValues

-----------------------------------------------------------------------------
(* Writing.                                                                *)

\* What a snapshot holds. PropertyValue has two kinds of array.
IsPropertyValue(p) ==
  \/ Atom(p)
  \/ /\ p = <<"Strings", p[2]>> /\ IsMap(p[2]) /\ Vector(p[2])
     /\ \A i \in DOMAIN p[2] : Kind(p[2][i]) = "String" /\ Atom(p[2][i])
  \/ /\ p = <<"Ints", p[2]>> /\ IsMap(p[2]) /\ Vector(p[2])
     /\ \A i \in DOMAIN p[2] : p[2][i] \in Int

IsNode(n) ==
  /\ n = [type |-> n.type, key |-> n.key, numa |-> n.numa, caps |-> n.caps, conf |-> n.conf,
          provider |-> n.provider, name |-> n.name, props |-> n.props]
  /\ n.type \in NodeType /\ n.key \in 0..Width /\ n.numa \in 0..Width /\ n.caps \in Nat
  /\ n.conf \in Confidence /\ IsString(n.name)
  /\ \A k \in DOMAIN n.props : IsPropertyValue(n.props[k])

IsEdge(e) ==
  /\ e = [source |-> e.source, target |-> e.target, type |-> e.type,
          direction |-> e.direction, link |-> e.link]
  /\ e.source \in Nat /\ e.target \in Nat /\ e.type \in EdgeType /\ e.direction \in EdgeDirection
  /\ e.link # {} => \E l \in e.link : l \in Int /\ e.link = {l}

IsSnapshot(s) ==
  /\ DOMAIN s.nodes \subseteq Nat /\ IsFiniteSet(DOMAIN s.nodes)
  /\ \A n \in DOMAIN s.nodes : IsNode(s.nodes[n])
  /\ Vector(s.edges) /\ \A i \in DOMAIN s.edges : IsEdge(s.edges[i])
  /\ s.generation \in Nat

\* Both kinds become a JSON array.
property_to_json(p) ==
  CASE Kind(p) = "Strings" -> <<"Array", p[2]>>
    [] Kind(p) = "Ints"    -> <<"Array", [i \in DOMAIN p[2] |-> <<"Int", p[2][i]>>]>>
    [] OTHER -> p

unsigned_to_json(u) == IF u = 0 THEN Null ELSE <<"Uint", u - 1>>

native_to_json(n) == Object([key |-> unsigned_to_json(n.key), numa |-> unsigned_to_json(n.numa)])

provenance_to_json(n) == Object([provider |-> Text(n.provider)])

node_to_json(id, n) ==
  Object([id |-> Hex(id), type |-> Text(n.type), name |-> <<"String", n.name>>,
          native |-> native_to_json(n), capabilities |-> <<"Uint", n.caps>>,
          confidence |-> Text(n.conf), provenance |-> provenance_to_json(n),
          properties |-> Object([k \in DOMAIN n.props |-> property_to_json(n.props[k])])])

\* A link fact that is not known is not written.
edge_to_json(e) ==
  LET always == [source |-> Hex(e.source), target |-> Hex(e.target), type |-> Text(e.type),
                 direction |-> Text(e.direction)]
  IN  Object([f \in DOMAIN always \cup {"latency_ns" : l \in e.link} |->
                IF f \in DOMAIN always THEN always[f] ELSE <<"Double", CHOOSE l \in e.link : TRUE>>])

EdgeTypesInOrder == <<"CONTAINS", "ATTACHED_TO", "CONNECTED_TO", "LOCAL_TO", "PEER_TO",
  "SHARES_PARENT", "SHARES_NUMA", "ROUTES_THROUGH", "ACCESSIBLE_FROM", "AFFINE_TO">>

\* Edges are sorted by source, target and type; std::sort leaves edges that
\* agree in all three in any order.
EdgeOrders(edges) ==
  LET before(e, f) == \/ e.source < f.source
                      \/ e.source = f.source /\ e.target < f.target
                      \/ /\ e.source = f.source /\ e.target = f.target
                         /\ \E i, j \in DOMAIN EdgeTypesInOrder :
                              i < j /\ EdgeTypesInOrder[i] = e.type /\ EdgeTypesInOrder[j] = f.type
  IN  {s \in SetToSeqs(DOMAIN edges) :
         \A i, j \in DOMAIN s : i < j => ~before(edges[s[j]], edges[s[i]])}

\* The documents snapshot_to_json may build.
snapshot_to_json(snap) ==
  LET ids == InOrder(DOMAIN snap.nodes)
  IN  {Object([format     |-> Text("topology_fabric_snapshot"),
               generation |-> <<"Uint", snap.generation>>,
               synthetic  |-> <<"Bool", snap.synthetic>>,
               nodes |-> <<"Array", [i \in DOMAIN ids |-> node_to_json(ids[i], snap.nodes[ids[i]])]>>,
               edges |-> <<"Array", [i \in DOMAIN s |-> edge_to_json(snap.edges[s[i]])]>>]) :
         s \in EdgeOrders(snap.edges)}

-----------------------------------------------------------------------------
(* Reading. A field that is absent or of another kind keeps its default.   *)

integer(v) ==
  CASE Kind(v) \in {"Int", "Uint"} -> v[2]
    [] Kind(v) = "Double" -> IF v[2] < 0 THEN -((-v[2]) \div 6) ELSE v[2] \div 6
    [] OTHER -> 0

number(v) == IF Kind(v) = "Double" THEN v[2] ELSE 6 * v[2]

\* find and the test of the kind.
Has(o, k, kinds) == Kind(o) = "Object" /\ k \in DOMAIN o[2] /\ Kind(o[2][k]) \in kinds

\* An enumeration from its name, the default for any other string.
FromString(o, k, S, default) ==
  IF Has(o, k, {"String"}) /\ o[2][k][2][1] = "ascii" /\ o[2][k][2][2] \in S
  THEN o[2][k][2][2] ELSE default

HasId(o, k) == Has(o, k, {"String"}) /\ o[2][k][2][1] = "hex"

\* Mutant of opt_unsigned: null is read like a number.
opt_unsignedFromNull(o, k) ==
  IF Kind(o) = "Object" /\ k \in DOMAIN o[2] THEN 1 + (integer(o[2][k]) % Width) ELSE 0

\* Whatever is not null is an integer, cut to its width.
opt_unsigned(o, k) ==
  IF Kind(o) = "Object" /\ k \in DOMAIN o[2] /\ o[2][k] # Null
  THEN 1 + (integer(o[2][k]) % Width) ELSE 0

\* An array is one of strings if it starts with one, whereupon as_string throws
\* std::bad_variant_access on an element that is not a string.
StringFirst(v) == Kind(v) = "Array" /\ v[2] # << >> /\ Kind(v[2][1]) = "String"

PropertyThrows(v) == StringFirst(v) /\ \E i \in DOMAIN v[2] : Kind(v[2][i]) # "String"

property_from_json(v) ==
  CASE StringFirst(v) -> <<"Strings", v[2]>>
    [] Kind(v) = "Array" /\ ~StringFirst(v) -> <<"Ints", [i \in DOMAIN v[2] |-> integer(v[2][i])]>>
    [] Kind(v) = "Object" -> Null
    [] OTHER -> v

Properties(o) == IF Has(o, "properties", {"Object"}) THEN o[2].properties[2] ELSE << >>

node_type_from_string(o)      == FromString(o, "type", NodeType, "UNKNOWN")
edge_type_from_string(o)      == FromString(o, "type", EdgeType, "CONNECTED_TO")
edge_direction_from_string(o) == FromString(o, "direction", EdgeDirection, "DIRECTED")
confidence_from_string(o)     == FromString(o, "confidence", Confidence, "UNKNOWN")

native_from_json(v) == [key |-> opt_unsigned(v, "key"), numa |-> opt_unsigned(v, "numa")]

provenance_from_json(v) ==
  [provider |-> IF Has(v, "provider", {"String"}) THEN v[2].provider[2][2] ELSE ""]

node_from_json(o) ==
  LET part(k) == IF k \in DOMAIN o[2] THEN o[2][k] ELSE Null
      native == native_from_json(part("native"))
  IN  [type     |-> node_type_from_string(o),
       key      |-> native.key,
       numa     |-> native.numa,
       caps     |-> IF Has(o, "capabilities", Numbers)
                   THEN integer(o[2].capabilities) % (2 * MaxInt64 + 2) ELSE 0,
       conf     |-> confidence_from_string(o),
       provider |-> provenance_from_json(part("provenance")).provider,
       name     |-> IF Has(o, "name", {"String"}) THEN o[2].name[2] ELSE <<"ascii", "">>,
       props    |-> [k \in DOMAIN Properties(o) |-> property_from_json(Properties(o)[k])]]

edge_from_json(o) ==
  [source    |-> o[2].source[2][2],
   target    |-> o[2].target[2][2],
   type      |-> edge_type_from_string(o),
   direction |-> edge_direction_from_string(o),
   link      |-> IF Has(o, "latency_ns", Numbers) THEN {number(o[2].latency_ns)} ELSE {}]
=============================================================================
