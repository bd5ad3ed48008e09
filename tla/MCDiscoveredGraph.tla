-------------------------- MODULE MCDiscoveredGraph --------------------------
(* Two providers that see parts of the same machine: one walks the PCI bus   *)
(* (machine, root, device), the other asks the GPU driver (the same device   *)
(* by its bus address, a second one by uuid, its memory). Every subset of    *)
(* what each may report is an input.                                         *)
EXTENDS DiscoveredGraph

NoIdentity == [f \in {"pci", "storage", "net", "cuda", "machine", "numa"} |-> 0]

Node(ref, type, native, caps, props, conf, provider) ==
  [ref |-> ref, type |-> type, name |-> 1, native |-> native, caps |-> caps,
   props |-> props, conf |-> conf, provider |-> provider]

\* The bus provider uses canonical keys as refs, except for the root.
BusNodes ==
  <<Node(21, "MACHINE", [NoIdentity EXCEPT !.machine = 1], {"cpu"}, << >>, "HIGH", "bus"),
    Node(900, "PCI_ROOT", NoIdentity, {}, << >>, "MEDIUM", "bus"),
    Node(41, "PCI_DEVICE", [NoIdentity EXCEPT !.pci = 1], {"dma"}, [speed |-> 1], "HIGH", "bus")>>

Accelerator(conf, speed) ==
  Node(901, "ACCELERATOR", [NoIdentity EXCEPT !.pci = 1, !.cuda = 1, !.numa = 1], {"p2p"},
       [speed |-> speed], conf, "gpu")

\* The driver reports the device with more, less or equal confidence, and its
\* second accelerator has the ref the bus provider uses for the root.
GpuNodes ==
  <<Accelerator("AUTHORITATIVE", 2), Accelerator("LOW", 2), Accelerator("HIGH", 1),
    Node(900, "ACCELERATOR", [NoIdentity EXCEPT !.cuda = 2], {"p2p"}, << >>, "HIGH", "gpu"),
    Node(902, "ACCELERATOR_MEMORY_DOMAIN", NoIdentity, {}, << >>, "LOW", "gpu")>>

Edge(from, to, type, direction, link) ==
  [from |-> from, to |-> to, type |-> type, direction |-> direction, link |-> link]

BusEdges == <<Edge(21, 900, "CONTAINS", "DIRECTED", 1), Edge(900, 41, "CONTAINS", "DIRECTED", 1),
              Edge(41, 900, "CONNECTED_TO", "UNDIRECTED", 1)>>
GpuEdges == <<Edge(901, 902, "CONTAINS", "DIRECTED", 1), Edge(900, 901, "PEER_TO", "UNDIRECTED", 1),
              Edge(901, 900, "PEER_TO", "UNDIRECTED", 2)>>

Contribution(provider, nodes, edges) ==
  [provider |-> provider, success |-> TRUE, partial |-> FALSE, warned |-> FALSE,
   nodes |-> nodes, edges |-> edges]

\* The subsequences of s.
Parts(s) ==
  {LET at == SetToSortSeq(I, <) IN [i \in DOMAIN at |-> s[at[i]]] : I \in SUBSET DOMAIN s}

MCInputs ==
  {<<Contribution("bus", bn, be), Contribution("gpu", gn, ge)>> :
     bn \in Parts(BusNodes), be \in Parts(BusEdges),
     gn \in Parts(GpuNodes), ge \in Parts(GpuEdges)}
=============================================================================
