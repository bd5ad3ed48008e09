-------------------------- MODULE MCTopologyRuntime --------------------------
(* A small host for TopologyRuntime: a host provider, and a gpu provider that *)
(* can be overridden at run time (a stub replaced by the real backend).       *)
EXTENDS TopologyRuntime

MCNameOf == [p \in Providers |-> IF p = "host" THEN "host" ELSE "gpu"]

NoIdentity == [f \in {"pci", "storage", "net", "cuda", "machine", "numa"} |-> 0]

Node(ref, type, native, caps, props, conf, provider) ==
  [ref |-> ref, type |-> type, name |-> 1, native |-> native, caps |-> caps,
   props |-> props, conf |-> conf, provider |-> provider]

Edge(from, to, type, link) ==
  [from |-> from, to |-> to, type |-> type, direction |-> "DIRECTED", link |-> link]

Contribution(provider, partial, nodes, edges) ==
  [provider |-> provider, success |-> TRUE, partial |-> partial,
   warned |-> partial, nodes |-> nodes, edges |-> edges]

\* The machine's canonical key, used as a ref by the other providers; the gpu
\* has a provider-local ref.
MachineKey == 21
GpuRef == 900

HostNodes(load) ==
  <<Node(MachineKey, "MACHINE", [NoIdentity EXCEPT !.machine = 1], {}, [load |-> load],
         "AUTHORITATIVE", "host")>>

GpuNode(load) ==
  Node(GpuRef, "ACCELERATOR", [NoIdentity EXCEPT !.pci = 1], {"peer"}, [load |-> load],
       "HIGH", "gpu")

StubNode ==
  Node(GpuRef, "PCI_DEVICE", [NoIdentity EXCEPT !.pci = 1], {}, << >>, "LOW", "stub")

\* Rediscovery may see a changed load (not material), a changed link or another
\* provider behind the device (both material), or nothing new. The stub reports
\* a device that contains itself, which validation counts as errors.
MCOutputs ==
  [p \in Providers |->
     CASE p = "host" -> {Contribution("host", FALSE, HostNodes(l), << >>) : l \in {1, 2}}
       [] p = "gpu"  -> {Contribution("gpu", FALSE, <<GpuNode(x[1])>>,
                           <<Edge(MachineKey, GpuRef, "CONNECTED_TO", x[2]),
                             Edge(GpuRef, GpuRef, "ACCESSIBLE_FROM", x[2])>>) :
                             x \in {<<1, 1>>, <<2, 1>>, <<1, 2>>}}
       [] p = "stub" -> {Contribution("gpu", TRUE, <<StubNode>>,
                           <<Edge(GpuRef, GpuRef, "CONTAINS", 1)>>)}]
=============================================================================
