-------------------------- MODULE MachineDiscovery ---------------------------
(***************************************************************************)
(* A discovery with the built-in providers, in the order in which          *)
(* register_builtin_providers registers them, on a machine where some      *)
(* operating system calls fail; then the merge of what they contributed.   *)
(***************************************************************************)
EXTENDS PlatformProviders, DiscoveredGraph

CONSTANTS
  Hardware,    \* the machines, each with a field windows besides those of hw
  MaxFaults    \* at most this many calls fail in one discovery

VARIABLES
  hw,        \* the machine
  failing    \* the calls that fail during this discovery

machineVars == <<hw, failing, vars>>

\* The calls whose failure the providers meet with a branch of their own.
OsCalls(h) ==
  {<<"dns", "host">>, <<"netbios", "host">>, <<"dns", "cpu_numa">>, <<"dns", "pci">>, <<"cpu_info">>,
   <<"pci_list">>, <<"cuda_driver">>, <<"cuda_count">>, <<"adapters">>}
  \cup {"pci_locate", "pci_parent", "pci_location"} \X DOMAIN h.pci
  \cup {"cuda_get", "cuda_attribute", "cuda_domain", "cuda_uuid"} \X DOMAIN h.gpus
  \cup {"disk_space"} \X h.drives

MachineInit ==
  /\ hw \in Hardware
  /\ failing \in {{}} \cup {{c[k] : k \in 1..MaxFaults} : c \in [1..MaxFaults -> OsCalls(hw)]}
  /\ cs = << >> /\ pick = << >> /\ mg = NotMerged /\ graph = NotMerged

\* The provider at this place of the registration order runs.
Runs(place, provider, contributions) ==
  /\ Len(cs) = place - 1
  /\ \E c \in (IF hw.windows THEN contributions ELSE {Nothing(provider, FALSE)}) : cs' = Append(cs, c)
  /\ UNCHANGED <<hw, failing, pick, mg, graph>>

Host    == Runs(1, "host", {host_discover(failing)})
CpuNuma == Runs(2, "cpu_numa", {cpu_numa_discover(hw, failing)})
Pci     == Runs(3, "pci", {pci_discover(hw, failing)})
Cuda    == Runs(4, "cuda", cuda_discover(hw, failing))
Storage == Runs(5, "storage", {storage_discover(hw, failing)})
Network == Runs(6, "network", {network_discover(hw, failing)})

Merge == Len(cs) = 6 /\ MergeInput /\ UNCHANGED <<hw, failing>>

MachineNext == Host \/ CpuNuma \/ Pci \/ Cuda \/ Storage \/ Network \/ Merge

MachineSpec == MachineInit /\ [][MachineNext]_machineVars

-----------------------------------------------------------------------------
\* The merge is done and no bound cut it.
Complete == mg # NotMerged /\ Unbounded

Works(call) == call \notin failing

\* The devices the operating system and the driver showed.
SeenGpus == IF Works(<<"cuda_driver">>) /\ Works(<<"cuda_count">>) THEN Opened(hw, failing) ELSE {}
SeenPci == IF Works(<<"pci_list">>) THEN Located(hw, failing) ELSE {}
AddressesKnown ==
  \A o \in SeenGpus : Works(<<"cuda_attribute", o>>) /\ Works(<<"cuda_domain", o>>)

GpuAddress(o) == Address(hw.gpus[o].domain, hw.gpus[o].slot)
GpuNode(o) == KeySpan * PrefixRank["pci"] + GpuAddress(o)

\* The PCI functions whose location could be read, and their addresses as the PCI
\* provider has them: in domain 0.
Addressed == {i \in SeenPci : Works(<<"pci_location", i>>)}
PciAddresses == {Address(0, hw.pci[i].slot) : i \in Addressed}

SeenAdapters ==
  IF Works(<<"adapters">>) THEN {i \in DOMAIN hw.adapters : ~hw.adapters[i].loopback} ELSE {}

\* What the machine showed, as far as the reports can tell things apart: PCI
\* functions and GPUs are one thing if they have one address, adapters are one if
\* they have one hardware address.
Things ==
  {<<"machine">>} \cup ({"vram"} \X SeenGpus)
  \cup ({"address"} \X (PciAddresses \cup {GpuAddress(o) : o \in SeenGpus}))
  \cup ({"pci"} \X (SeenPci \ Addressed))
  \cup (IF Works(<<"cpu_info">>)
        THEN ({"numa", "memdom"} \X DOMAIN hw.numa) \cup ({"package"} \X DOMAIN hw.packages)
             \cup ({"core"} \X DOMAIN hw.cores)
             \cup ({"thread"} \X UNION {hw.cores[c] : c \in DOMAIN hw.cores})
        ELSE {})
  \cup {<<"drive", d>> : d \in {e \in hw.drives : Works(<<"disk_space", e>>)}}
  \cup {IF hw.adapters[i].mac = 0 THEN <<"adapter", i>> ELSE <<"mac", hw.adapters[i].mac>> :
          i \in SeenAdapters}

\* However the calls fail, every thing that can be told apart is exactly one node,
\* and every GPU is an accelerator. Only a GPU of PCI domain 0 meets the report of
\* the PCI provider there and keeps the capabilities of both: one of another domain
\* is a node of its own, beside the one its function has in domain 0. (Where the
\* driver does not tell the address of a GPU, see README.)
HardwareOnce ==
  (Complete /\ hw.windows /\ AddressesKnown)
  => /\ Cardinality(DOMAIN graph.nodes) = Cardinality(Things)
     /\ \A o \in SeenGpus :
          /\ GpuNode(o) \in DOMAIN graph.nodes
          /\ graph.nodes[GpuNode(o)].type = "ACCELERATOR"
          /\ "DEVICE_ADDRESSABLE" \in graph.nodes[GpuNode(o)].caps
          /\ "PCI_CONNECTED" \in graph.nodes[GpuNode(o)].caps
               <=> hw.gpus[o].domain = 0 /\ \E i \in Addressed : hw.pci[i].slot = hw.gpus[o].slot

\* The nodes reached from S along CONTAINS edges.
Under(edges, S) ==
  LET n == Cardinality(Positions(edges))
      reach[k \in 0..n] ==
        IF k = 0 THEN S
        ELSE LET prev == reach[k - 1]
             IN  prev \cup {e.target : e \in {d \in EdgeSet(edges) :
                                                d.type = "CONTAINS" /\ d.source \in prev}}
  IN  reach[n]

NamesAgree ==
  LET name == cs[1].nodes[1].name
  IN  DnsName("cpu_numa", failing) = name /\ DnsName("pci", failing) = name

\* If the providers call the machine by one name, then everything is contained in
\* it, whichever other calls fail: a PCI entity whose parent is missing and a
\* core whose package is unknown hang from the machine themselves.
AllUnderMachine ==
  (Complete /\ hw.windows /\ AddressesKnown /\ NamesAgree)
  => \E m \in Machines(graph) : Under(graph.edges, {m}) = DOMAIN graph.nodes

\* CUDA.md: "emits an undirected PEER_TO edge between every pairwise-accessible pair".
PeerEdgesExact ==
  (Complete /\ hw.windows /\ AddressesKnown /\ SeenGpus # {})
  => LET linked == {{e.source, e.target} : e \in {d \in EdgeSet(graph.edges) : d.type = "PEER_TO"}}
     IN  linked = {{GpuNode(p[1]), GpuNode(p[2])} : p \in PeerPairs(hw, failing)}
=============================================================================
