------------------------------ MODULE Locality -------------------------------
(***************************************************************************)
(* The structural queries on a snapshot g (see TopologyGraph): traversal   *)
(* along one edge type, the ancestor of a type, and the two               *)
(* classifications of a pair of nodes. Nodes have the fields type, numa,   *)
(* package and core; 0 stands for an identity that is not reported.        *)
(***************************************************************************)
EXTENDS TopologyGraph, Sequences, SequencesExt

-----------------------------------------------------------------------------
(* Traversal. Results are vectors, in the order the code finds them.        *)

parents(g, id, type) ==
  LET at == InOrder({i \in Positions(g.edges) :
                       g.edges[i].type = type /\ g.edges[i].target = id})
  IN  [k \in DOMAIN at |-> g.edges[at[k]].source]

\* The targets of the edges at the positions I, in order.
Targets(g, I) ==
  LET at == InOrder(I) IN [k \in DOMAIN at |-> g.edges[at[k]].target]

children(g, id, type) ==
  Targets(g, {i \in Positions(g.edges) : g.edges[i].type = type /\ g.edges[i].source = id})

\* Mutant of AppendNew: nothing is remembered as visited.
AppendAll(s, t) == s \o t

\* s with the elements of t it lacks, as an insertion into a visited set adds them.
AppendNew(s, t) ==
  LET new == InOrder({k \in DOMAIN t : t[k] \notin ToSet(s) /\ \A j \in 1..(k - 1) : t[j] # t[k]})
  IN  s \o [k \in DOMAIN new |-> t[new[k]]]

\* The breadth-first loop of ancestors and descendants: whatever enters out
\* enters the queue, so the k-th iteration takes id or the element of out at
\* k - 1. step[n] lists the nodes one edge from n.
Closure(id, step) ==
  LET N == Cardinality(DOMAIN step) + 1
      after[k \in 0..N] ==
        IF k = 0 THEN << >>
        ELSE LET out == after[k - 1]
             IN  IF k > Len(out) + 1 THEN out
                 ELSE AppendNew(out, step[IF k = 1 THEN id ELSE out[k - 1]])
  IN  after[N]

\* The nodes, and the ids edges name.
Ids(g) == DOMAIN g.nodes \cup UNION {{e.source, e.target} : e \in EdgeSet(g.edges)}

ancestors(g, id, type)   == Closure(id, [n \in Ids(g) \cup {id} |-> parents(g, n, type)])
descendants(g, id, type) == Closure(id, [n \in Ids(g) \cup {id} |-> children(g, n, type)])

siblings(g, id, type) ==
  LET ps == parents(g, id, type)
      beside(p) == Targets(g, {i \in Positions(g.edges) :
                                 /\ g.edges[i].type = type
                                 /\ g.edges[i].source = p
                                 /\ g.edges[i].target # id})
      after[k \in 0..Len(ps)] ==
        IF k = 0 THEN << >> ELSE AppendNew(after[k - 1], beside(ps[k]))
  IN  after[Len(ps)]

\* Mutant of root_ancestor: the walk ends at the first node without the type.
root_ancestorOfParent(g, id, root_type) ==
  LET ps == parents(g, id, "CONTAINS")
  IN  IF id \in DOMAIN g.nodes /\ g.nodes[id].type = root_type THEN id
      ELSE IF ps # << >> /\ Head(ps) \in DOMAIN g.nodes /\ g.nodes[Head(ps)].type = root_type
           THEN Head(ps) ELSE kNullNodeId

\* The walk up the first CONTAINS parent: it ends at a node of the type, at the
\* null id or an id that is no node, at one it has seen, and at one without a
\* parent.
root_ancestor(g, id, root_type) ==
  LET N == Cardinality(DOMAIN g.nodes) + 1
      is_root(n) == n \in DOMAIN g.nodes /\ g.nodes[n].type = root_type
      goes_on(at) == /\ at.cur \in DOMAIN g.nodes \ {kNullNodeId}
                     /\ ~is_root(at.cur)
                     /\ at.cur \notin at.seen
                     /\ parents(g, at.cur, "CONTAINS") # << >>
      walk[k \in 0..N] ==
        IF k = 0 THEN [cur |-> id, seen |-> {}]
        ELSE LET at == walk[k - 1]
             IN  IF goes_on(at)
                 THEN [cur |-> Head(parents(g, at.cur, "CONTAINS")), seen |-> at.seen \cup {at.cur}]
                 ELSE at
      end == walk[N].cur
  IN  IF is_root(end) THEN end ELSE kNullNodeId

-----------------------------------------------------------------------------
(* Classification.                                                         *)

hardware_class(t) ==
  CASE t \in {"CPU_PACKAGE", "CPU_CORE", "CPU_THREAD"} -> "CPU"
    [] t \in {"ACCELERATOR", "ACCELERATOR_MEMORY_DOMAIN"} -> "ACCELERATOR"
    [] t \in {"PCI_ROOT", "PCI_BRIDGE", "PCI_DEVICE"} -> "PCI"
    [] t \in {"NUMA_NODE", "HOST_MEMORY_DOMAIN", "SHARED_MEMORY_DOMAIN"} -> "MEMORY"
    [] t = "STORAGE_DEVICE" -> "STORAGE"
    [] t = "NETWORK_INTERFACE" -> "NETWORK"
    [] t = "MACHINE" -> "MACHINE"
    [] OTHER -> "OTHER"

is_cpu(n)  == n.type \in {"CPU_PACKAGE", "CPU_CORE", "CPU_THREAD"}
is_host(n) == is_cpu(n) \/ n.type \in {"NUMA_NODE", "HOST_MEMORY_DOMAIN", "MACHINE"}
is_pci_endpoint(n) == n.type \in {"PCI_DEVICE", "ACCELERATOR"}

\* A native identity both nodes report, and report the same.
SameKnown(x, y) == x # 0 /\ x = y

\* Mutant of SameRoot: two nodes without such an ancestor share it.
SameRootOrNone(g, a, b, type) == root_ancestor(g, a, type) = root_ancestor(g, b, type)

SameRoot(g, a, b, type) == SameKnown(root_ancestor(g, a, type), root_ancestor(g, b, type))

\* Both nodes are in the snapshot, or they are one.
locality_between(g, a, b) ==
  LET na == g.nodes[a]
      nb == g.nodes[b]
  IN  IF a = b THEN "EXACT"
      ELSE IF /\ na.type = "CPU_THREAD" /\ nb.type = "CPU_THREAD"
              /\ SameKnown(na.core, nb.core) /\ SameKnown(na.package, nb.package)
           THEN "SAME_CORE"
      ELSE IF is_cpu(na) /\ is_cpu(nb) /\ SameKnown(na.package, nb.package) THEN "SAME_PACKAGE"
      ELSE IF SameKnown(na.numa, nb.numa) THEN "SAME_NUMA"
      ELSE IF SameRoot(g, a, b, "PCI_ROOT") THEN "SAME_ROOT_COMPLEX"
      ELSE IF SameRoot(g, a, b, "MACHINE") THEN "SAME_HOST"
      ELSE IF {root_ancestor(g, a, "MACHINE"), root_ancestor(g, b, "MACHINE")} = {kNullNodeId}
           THEN "UNKNOWN" ELSE "REMOTE"

\* The edges from a common parent that end the search for a shared bridge: from
\* a bridge, or from an id that is no node, at which snap.node throws.
DecidingEdges(g, from, to) ==
  {i \in ContainsEdges(g.edges) :
     LET x == g.edges[i].source
     IN  /\ g.edges[i].target = from
         /\ \E j \in ContainsEdges(g.edges) : g.edges[j].source = x /\ g.edges[j].target = to
         /\ x \in DOMAIN g.nodes => g.nodes[x].type = "PCI_BRIDGE"}

BothPci(na, nb) ==
  is_pci_endpoint(na) /\ is_pci_endpoint(nb) /\ {na.type, nb.type} # {"ACCELERATOR"}

\* classify_path throws NOT_FOUND: the first such parent is no node.
ClassifyThrows(g, from, to) ==
  /\ from # to
  /\ BothPci(g.nodes[from], g.nodes[to])
  /\ \E i \in DecidingEdges(g, from, to) :
       /\ \A j \in DecidingEdges(g, from, to) : i <= j
       /\ g.edges[i].source \notin DOMAIN g.nodes

\* Two kinds of endpoint, in either order.
Between(na, nb, P(_), Q(_)) == (P(na) /\ Q(nb)) \/ (P(nb) /\ Q(na))

\* The class, unless ClassifyThrows.
classify_path(g, from, to) ==
  LET na == g.nodes[from]
      nb == g.nodes[to]
  IN  IF from = to THEN "SAME_OBJECT"
      ELSE IF na.type = "ACCELERATOR" /\ nb.type = "ACCELERATOR" THEN "ACCELERATOR_TO_ACCELERATOR"
      ELSE IF Between(na, nb, is_host, LAMBDA n : n.type = "ACCELERATOR") THEN "HOST_TO_ACCELERATOR"
      ELSE IF Between(na, nb, is_host, LAMBDA n : n.type = "STORAGE_DEVICE") THEN "HOST_TO_STORAGE"
      ELSE IF Between(na, nb, is_host, LAMBDA n : n.type = "NETWORK_INTERFACE") THEN "HOST_TO_NETWORK"
      ELSE IF is_cpu(na) /\ is_cpu(nb) THEN "SAME_PROCESSOR"
      ELSE IF BothPci(na, nb) /\ DecidingEdges(g, from, to) # {} THEN "SAME_PCI_BRIDGE"
      ELSE IF BothPci(na, nb) /\ SameRoot(g, from, to, "PCI_ROOT") THEN "SAME_ROOT_COMPLEX"
      ELSE IF na.numa # 0 /\ nb.numa # 0
           THEN IF na.numa = nb.numa THEN "SAME_NUMA" ELSE "CROSS_NUMA"
      ELSE IF SameRoot(g, from, to, "MACHINE") THEN "REMOTE" ELSE "UNKNOWN"
=============================================================================
