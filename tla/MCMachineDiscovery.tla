------------------------- MODULE MCMachineDiscovery --------------------------
(* A workstation with a NUMA node, a bridge and a GPU; a box of three GPUs    *)
(* that is all PCI; a box with a GPU of PCI domain 1, which has the bus,      *)
(* device and function of another one in domain 0, and two adapters of one    *)
(* hardware address; a host with more processors than the bounds admit; and a *)
(* machine that does not run Windows.                                         *)
EXTENDS MachineDiscovery

Bare == [windows |-> TRUE, numa |-> << >>, packages |-> << >>, cores |-> << >>, pci |-> << >>,
         gpus |-> << >>, peers |-> {}, drives |-> {}, adapters |-> << >>]

Device(slot, parent) == [slot |-> slot, parent |-> parent]
Gpu(domain, slot) == [domain |-> domain, slot |-> slot]

\* A root, a bridge under it and devices under the bridge.
Bus(n) == <<Device(2, 0), Device(3, 1)>> \o [i \in 1..n |-> Device(3 + i, 2)]

Workstation ==
  [Bare EXCEPT !.numa = <<{1}>>, !.packages = <<{1}>>, !.cores = <<{1}, {2}>>,
               !.pci = Bus(1), !.gpus = <<Gpu(0, 4)>>, !.drives = {1, 3}]

GpuBox ==
  [Bare EXCEPT !.pci = Bus(2), !.gpus = <<Gpu(0, 4), Gpu(0, 5), Gpu(0, 6)>>,
               !.peers = {<<1, 2>>, <<2, 1>>},
               !.adapters = <<[loopback |-> TRUE, mac |-> 0], [loopback |-> FALSE, mac |-> 0],
                              [loopback |-> FALSE, mac |-> 2]>>]

\* The third and fourth device are the same slot of two domains; the fifth
\* has a GPU of domain 1 only.
TwoDomains ==
  [Bare EXCEPT !.pci = Bus(1) \o <<Device(4, 2), Device(5, 2)>>,
               !.gpus = <<Gpu(0, 4), Gpu(1, 4), Gpu(1, 5)>>, !.peers = {<<1, 2>>, <<2, 1>>},
               !.adapters = <<[loopback |-> FALSE, mac |-> 2], [loopback |-> FALSE, mac |-> 2],
                              [loopback |-> FALSE, mac |-> 3]>>]

ManyThreads ==
  [Bare EXCEPT !.numa = <<{1, 2, 3, 4}, {5, 6, 7, 8}>>, !.packages = <<1..8>>,
               !.cores = <<{1, 2}, {3, 4}, {5, 6}, {7, 8}>>, !.drives = {1}, !.pci = Bus(0)]

MCHardware == {Workstation, GpuBox, TwoDomains, ManyThreads, [Workstation EXCEPT !.windows = FALSE]}

\* Three GPUs, all pairs of which have peer access.
PeerBox == {[Bare EXCEPT !.gpus = <<Gpu(0, 2), Gpu(0, 3), Gpu(0, 4)>>, !.peers = {p \in (1..3) \X (1..3) : p[1] # p[2]}]}
=============================================================================
