-------------------------- MODULE PlatformProviders --------------------------
(***************************************************************************)
(* discover() of the six built-in providers: what each contributes, given  *)
(* the hardware and the set f of operating system calls that fail.         *)
(*                                                                         *)
(* hw is a record with                                                     *)
(*   numa, packages, cores  sequences of sets of threads, a thread being   *)
(*            a bit of a processor group (a core lies in one group);       *)
(*   pci      a sequence of [slot, parent]: bus, device and function as    *)
(*            one number, and the position of the PCI parent, 0 when the   *)
(*            parent is no PCI entity;                                     *)
(*   gpus     [domain, slot] of each CUDA ordinal, peers the set of pairs  *)
(*            of ordinals for which cuDeviceCanAccessPeer says yes;        *)
(*   drives   the drive letters; adapters a sequence of [loopback, mac].   *)
(* Slots are 1..7, 1 is 00:00.0; mac 0 is the empty one. Properties, and   *)
(* the capabilities and ids that only describe a device, are left out.     *)
(***************************************************************************)
EXTENDS ProviderMerge

NoIdentity == [id \in {"pci", "storage", "net", "cuda", "machine", "numa"} |-> 0]
With(id, value) == [NoIdentity EXCEPT ![id] = value]

\* Refs are strings of their own, apart from "machine:<name>", which is the
\* canonical key of a machine of that name.
RefKinds == <<"numa", "memdom", "pkg", "core", "thread", "pci", "cuda", "cuda_mem", "storage", "net">>
Ref(kind, i) == KeySpan * (30 + CHOOSE k \in DOMAIN RefKinds : RefKinds[k] = kind) + i
MachineRef(name) == KeySpan * PrefixRank["machine"] + name

\* A bus address as identity.
Address(domain, slot) == 8 * domain + slot

Node(provider, ref, type, name, native, caps, conf) ==
  [ref |-> ref, type |-> type, name |-> name, native |-> native, caps |-> caps,
   props |-> << >>, conf |-> conf, provider |-> provider]

Edge(from, to, type, direction, link) ==
  [from |-> from, to |-> to, type |-> type, direction |-> direction, link |-> link]

ContainsEdge(from, to) == Edge(from, to, "CONTAINS", "DIRECTED", 0)

Reported(provider, partial, nodes, edges) ==
  [provider |-> provider, success |-> TRUE, partial |-> partial, warned |-> FALSE,
   nodes |-> nodes, edges |-> edges]

\* An early return with a warning, and what every provider returns on a system
\* that is not Windows.
Nothing(provider, success) ==
  [provider |-> provider, success |-> success, partial |-> TRUE, warned |-> TRUE,
   nodes |-> << >>, edges |-> << >>]

-----------------------------------------------------------------------------
\* GetComputerNameEx for the DNS name (1); only the host provider falls back
\* on the NetBIOS name (2). The empty name is 0.
DnsName(provider, f) == IF <<"dns", provider>> \in f THEN 0 ELSE 1

host_discover(f) ==
  LET name == IF <<"dns", "host">> \in f /\ <<"netbios", "host">> \notin f THEN 2
              ELSE DnsName("host", f)
  IN  Reported("host", FALSE,
        <<Node("host", MachineRef(name), "MACHINE", name, With("machine", name),
               {"CPU_ADDRESSABLE", "NUMA_LOCAL", "SHARED_MEMORY"}, "HIGH")>>, << >>)

-----------------------------------------------------------------------------
\* package_of and numa_of: the first part that has one of the threads, or 0.
FirstPart(parts, threads) ==
  LET I == {i \in DOMAIN parts : parts[i] \cap threads # {}}
  IN  IF I = {} THEN 0 ELSE Min(I)

Threads(hw, c) == SetToSortSeq(hw.cores[c], <)

NumaNodes(hw) ==
  FlattenSeq([i \in DOMAIN hw.numa |->
    <<Node("cpu_numa", Ref("numa", i), "NUMA_NODE", i, With("numa", i),
           {"CPU_ADDRESSABLE", "NUMA_LOCAL"}, "AUTHORITATIVE"),
      Node("cpu_numa", Ref("memdom", i), "HOST_MEMORY_DOMAIN", i, With("numa", i),
           {"CPU_ADDRESSABLE", "NUMA_LOCAL", "SHARED_MEMORY"}, "MEDIUM")>>])

PackageNodes(hw) ==
  [i \in DOMAIN hw.packages |->
     Node("cpu_numa", Ref("pkg", i), "CPU_PACKAGE", i, NoIdentity,
          {"CPU_ADDRESSABLE", "NUMA_LOCAL"}, "AUTHORITATIVE")]

CoreNodes(hw) ==
  FlattenSeq([c \in DOMAIN hw.cores |->
    <<Node("cpu_numa", Ref("core", c), "CPU_CORE", c, NoIdentity, {"CPU_ADDRESSABLE"}, "AUTHORITATIVE")>>
    \o [k \in DOMAIN Threads(hw, c) |->
          LET t == Threads(hw, c)[k]
          IN  Node("cpu_numa", Ref("thread", t), "CPU_THREAD", t, With("numa", FirstPart(hw.numa, {t})),
                   {"CPU_ADDRESSABLE"}, "AUTHORITATIVE")]])

CpuEdges(hw, machine) ==
  LET threadEdges(c, t) ==
        LET n == FirstPart(hw.numa, {t})
        IN  <<ContainsEdge(Ref("core", c), Ref("thread", t))>>
            \o IF n = 0 THEN << >>
               ELSE <<Edge(Ref("thread", t), Ref("numa", n), "LOCAL_TO", "UNDIRECTED", 0)>>
      coreEdges(c) ==
        LET p == FirstPart(hw.packages, hw.cores[c])
        IN  <<ContainsEdge(IF p = 0 THEN machine ELSE Ref("pkg", p), Ref("core", c))>>
            \o FlattenSeq([k \in DOMAIN Threads(hw, c) |-> threadEdges(c, Threads(hw, c)[k])])
  IN  FlattenSeq([i \in DOMAIN hw.numa |-> <<ContainsEdge(machine, Ref("numa", i)),
                                             ContainsEdge(Ref("numa", i), Ref("memdom", i))>>])
      \o [i \in DOMAIN hw.packages |-> ContainsEdge(machine, Ref("pkg", i))]
      \o FlattenSeq([c \in DOMAIN hw.cores |-> coreEdges(c)])

cpu_numa_discover(hw, f) ==
  IF <<"cpu_info">> \in f THEN Nothing("cpu_numa", FALSE)
  ELSE Reported("cpu_numa", FALSE, NumaNodes(hw) \o PackageNodes(hw) \o CoreNodes(hw),
                CpuEdges(hw, MachineRef(DnsName("cpu_numa", f))))

-----------------------------------------------------------------------------
\* The devices whose devnode is found, in enumeration order.
Located(hw, f) == {i \in DOMAIN hw.pci : <<"pci_locate", i>> \notin f}

\* Mutant of PciParent: the parent need not have been found.
PciParentAny(hw, f, i) == IF <<"pci_parent", i>> \in f THEN 0 ELSE hw.pci[i].parent

\* The PCI parent, if it is known and was found.
PciParent(hw, f, i) ==
  IF <<"pci_parent", i>> \in f \/ hw.pci[i].parent \notin Located(hw, f) THEN 0
  ELSE hw.pci[i].parent

PciType(hw, f, i) ==
  IF \E j \in Located(hw, f) : PciParent(hw, f, j) = i
  THEN IF PciParent(hw, f, i) = 0 THEN "PCI_ROOT" ELSE "PCI_BRIDGE"
  ELSE "PCI_DEVICE"

\* A device has a bus address if its location text can be read. The text does not
\* name the domain; the provider reports domain 0 for every device.
pci_discover(hw, f) ==
  LET ids == SetToSortSeq(Located(hw, f), <)
      address(i) == IF <<"pci_location", i>> \in f THEN 0 ELSE Address(0, hw.pci[i].slot)
      up(i) == IF PciParent(hw, f, i) = 0 THEN MachineRef(DnsName("pci", f))
               ELSE Ref("pci", PciParent(hw, f, i))
  IN  IF <<"pci_list">> \in f THEN Nothing("pci", FALSE)
      ELSE Reported("pci", TRUE,
             [k \in DOMAIN ids |->
                Node("pci", Ref("pci", ids[k]), PciType(hw, f, ids[k]), ids[k], With("pci", address(ids[k])),
                     {"PCI_CONNECTED", "DMA_CAPABLE"}, "HIGH")],
             [k \in DOMAIN ids |-> ContainsEdge(up(ids[k]), Ref("pci", ids[k]))])

-----------------------------------------------------------------------------
\* The ordinals cuDeviceGet opens, and the pairs the peer matrix holds.
Opened(hw, f) == {o \in DOMAIN hw.gpus : <<"cuda_get", o>> \notin f}
PeerPairs(hw, f) == {p \in hw.peers : p[1] \in Opened(hw, f) /\ p[2] \in Opened(hw, f)}

\* "cuda-ord:<n>" sorts before "cuda:<uuid>". An attribute that cannot be read
\* stays 0: bus and device 00:00, or the domain.
CudaNodes(hw, f, o) ==
  LET domain == IF <<"cuda_domain", o>> \in f THEN 0 ELSE hw.gpus[o].domain
      slot == IF <<"cuda_attribute", o>> \in f THEN 1 ELSE hw.gpus[o].slot
      uuid == IF <<"cuda_uuid", o>> \in f THEN o ELSE 5 + o
      peer == IF \E p \in PeerPairs(hw, f) : p[1] = o THEN {"PEER_ACCESS"} ELSE {}
  IN  <<Node("cuda", Ref("cuda", o), "ACCELERATOR", o, [With("cuda", uuid) EXCEPT !.pci = Address(domain, slot)],
             {"DEVICE_ADDRESSABLE", "DMA_CAPABLE"} \cup peer, "AUTHORITATIVE"),
        Node("cuda", Ref("cuda_mem", o), "ACCELERATOR_MEMORY_DOMAIN", o, With("cuda", o),
             {"DEVICE_ADDRESSABLE"}, "MEDIUM")>>

\* devRefs has an entry for each opened ordinal and is indexed by ordinal. What
\* is read past its end is undefined: any of the strings, or none that resolves.
PeerEdges(hw, f) ==
  LET opened == SetToSortSeq(Opened(hw, f), <)
      devRefs == [k \in DOMAIN opened |-> Ref("cuda", opened[k])]
      pairs == SetToSortSeq({p \in PeerPairs(hw, f) : p[1] < p[2]},
                            LAMBDA p, q : p[1] < q[1] \/ (p[1] = q[1] /\ p[2] < q[2]))
      any == {devRefs[k] : k \in DOMAIN devRefs} \cup {Ref("cuda", 0)}
      read(i) == IF i \in DOMAIN devRefs THEN {devRefs[i]} ELSE any
  IN  {[k \in DOMAIN pairs |-> Edge(ends[k][1], ends[k][2], "PEER_TO", "UNDIRECTED", 1)] :
         ends \in {e \in [DOMAIN pairs -> any \X any] :
                     \A k \in DOMAIN pairs : e[k][1] \in read(pairs[k][1]) /\ e[k][2] \in read(pairs[k][2])}}

\* The contributions cuda may return.
cuda_discover(hw, f) ==
  LET opened == SetToSortSeq(Opened(hw, f), <)
  IN  IF <<"cuda_driver">> \in f THEN {Nothing("cuda", FALSE)}
      ELSE IF <<"cuda_count">> \in f \/ hw.gpus = << >> THEN {Nothing("cuda", TRUE)}
      ELSE {Reported("cuda", FALSE, FlattenSeq([k \in DOMAIN opened |-> CudaNodes(hw, f, opened[k])]),
              [k \in DOMAIN opened |-> ContainsEdge(Ref("cuda", opened[k]), Ref("cuda_mem", opened[k]))] \o peers) :
              peers \in PeerEdges(hw, f)}

-----------------------------------------------------------------------------
storage_discover(hw, f) ==
  LET ready == SetToSortSeq({d \in hw.drives : <<"disk_space", d>> \notin f}, <)
  IN  Reported("storage", TRUE,
        [k \in DOMAIN ready |-> Node("storage", Ref("storage", ready[k]), "STORAGE_DEVICE", ready[k],
           With("storage", ready[k]), {"STORAGE_BACKED", "DMA_CAPABLE"}, "HIGH")], << >>)

\* An adapter is known by its hardware address, or by its name if it has none.
network_discover(hw, f) ==
  LET shown == SetToSortSeq({i \in DOMAIN hw.adapters : ~hw.adapters[i].loopback}, <)
      id(i) == IF hw.adapters[i].mac # 0 THEN hw.adapters[i].mac ELSE 5 + i
  IN  IF <<"adapters">> \in f THEN Nothing("network", FALSE)
      ELSE Reported("network", TRUE,
             [k \in DOMAIN shown |-> Node("network", Ref("net", shown[k]), "NETWORK_INTERFACE", shown[k],
                With("net", id(shown[k])), {"NETWORK_CONNECTED", "DMA_CAPABLE"}, "HIGH")], << >>)
=============================================================================
