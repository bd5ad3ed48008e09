# Topology Fabric: TLA+ models, checks and proofs

Topology Fabric discovers the hardware of a machine through providers, merges what
they report into one graph, publishes it as an immutable snapshot with a generation
number, answers path, locality and ranking queries on snapshots, and exports and
imports snapshots as JSON. This directory models the library, checks it with TLC on
small instances and proves its most important properties with TLAPS. Paths below are
relative to the repository.

## Inventory

| Component | State | Operations | Hard part | What makes it correct |
|---|---|---|---|---|
| `TopologyRuntime` (`src/core/runtime.cpp`) | `discover_mu_`, `current_`, `snapshot_counter_` | `discover`/`refresh`, `current`, `generation`, imports | overlapping callers, providers that throw, registry and telemetry changing meanwhile | readers see an atomic register; a generation is a promise about content |
| `ProviderRegistry` (`registry.cpp`) | `byName_`, `order_` under a mutex | register, unregister, clear, all | override keeps its place | map and order agree; stable order |
| Providers (`src/providers/`) | none | `discover` of host, cpu_numa, pci, cuda, storage, network | operating system and driver calls that fail, one device seen by two providers | every thing that shows is one node under the machine |
| Merge (`merge.cpp`) | none (pure) | `merge_contributions`; attach pass in `runtime.cpp` | hash orders, bounds, refs, precedence | well-formed, idempotent, order-independent results |
| Snapshot builder (`snapshot.cpp`) | nodes, edges, validation | `add_node`, `add_edge`, `take`, `validate` | bounds, cycle check | errors are counted, bounds hold |
| Diff (`diff.cpp`) | none (pure) | `compare_snapshots`, `is_material_event` | asymmetric edge matching | exact and without drift |
| Telemetry (`telemetry.cpp`) | counters under a mutex | `record_*`, `reset` | recorded call by call while others reset | counters add up |
| Path search (`path.cpp`), cost (`cost.cpp`, `internal.hpp`) | loop variables | `shortest_path`, `lowest_cost_path`, `cost_breakdown` | outdated queue entries, free edges, negative and NaN weights, dangling edges | minimal paths, agreeing costs, termination |
| Traversal, locality, distance (`graph.cpp`, `locality.cpp`) | none | ancestors, siblings, `root_ancestor`, `locality_between`, `classify_path`, `distance_between` | containment cycles, several parents | exact traversals; classifications that agree |
| Ranking (`ranking.cpp`) | loop variables | `rank_candidates` (two forms), `explain` | hash order, ties, cap, exceptions | the cheapest candidates, in order |
| Serialization (`serialization.cpp`, `json.hpp`) | builder and counters | export, `deserialize`, `import_synthetic` | rejected and defaulted fields, number kinds, bounds | round trips keep the topology; imports are all or nothing |
| CLI (`src/cli`) | none | | pure I/O | not modelled |

Callers, registry users and telemetry users are threads of their own; they meet in
`discover()`: it copies the provider list (registry mutex), calls the providers, merges,
compares with `current_` (atomic pointer) and stores the new snapshot, recording
telemetry (telemetry mutex) in between. Queries, exports and imports work on immutable
snapshots and local variables, alone, apart from the import counters.

## Modules

Shared vocabulary
- `TopologyGraph`: node and edge kinds, edge keys, `SnapshotBuilder::validate`. An edge
  vector is a function from positions to edges; only the order of positions counts. The
  cycle check is stated by what it decides (a set of nodes without a containment root);
  `SnapshotImport` has the loop of the code and is compared with this statement.
- `TopologyDiff`: `compare_snapshots` as the sets of events it reports, and
  `MaterialChange`. `UniqueKeys` and `MaterialView` are the reference it is compared with.

Discovery
- `ProviderRegistry`: one action per mutating member function.
- `ProviderMerge`: `merge_contributions`, the attach pass and the builder's bounds as
  operators. Hash order is a choice: which group a shared ref resolves to, which of
  several machines is found, in which order attached edges are appended. A node id is the
  group key (the code hashes the key); key strings are numbers that sort like the strings.
  The fields of one identity (bus, device, function) are one value, as all providers
  report them together; `numa_node`, `cpu_package` and `core_id` are one locality value;
  the five link facts that are compared are one value.
- `TopologyRuntime` composes the three. `pc` follows a thread through `discover()`:

  | Action | `runtime.cpp` |
  |---|---|
  | `Discover` | lock, `record_discovery_run` (40-42) |
  | `CopyProviders` | `registry_.all()` (53) |
  | `RunProvider`, `RecordPartial` | one provider, returning or throwing a `std::exception` (54-68) |
  | `ProviderEscapes` | any other exception leaves `discover()` (57) |
  | `Merge` | merge, attach, `record_merge_conflicts` (71-110) |
  | `DecideGeneration` | provisional snapshot, diff, `record_generation_change` (130-138) |
  | `BuildFinal` | final snapshot, `record_nodes` (140-142) |
  | `RecordEdges`, `RecordType` | `record_edges`, then `record_node_type` once for each type (143-146) |
  | `RecordCreated`, `RecordValidation` | `record_snapshot_created`, and `record_validation_failures` of a snapshot that is not ok (147-148) |
  | `Publish` | `current_.store`, unlock (154-155) |
  | `ChangeRegistry`, `ResetTelemetry` | other threads, at any moment |

  Each `record_*` call of the end of `discover()` locks the telemetry for itself, so each is an
  action and a reset may come between any two. `types` holds what is left of the loop over
  `byType`; `since` remembers, for `TelemetryAccounts`, how far the runtime was at the last reset.

- `PublishedTopology`: the abstract specification. `current()` is a register; each refresh
  replaces it in one step whose generation is decided against the snapshot it replaces.
- `DiscoveredGraph`: one evaluation of the merge pipeline, for its properties.
- `SnapshotSequence`: a consumer that compares three consecutive snapshots.
- `PlatformProviders`: what each built-in provider contributes as a function of the
  hardware and of the set of calls that fail, one branch of the code per kind of failure.
  Reading `devRefs` past its end is a choice over all refs and one that resolves to nothing.
  A bus address has a domain: the PCI provider sets it to 0, the CUDA provider reports what the
  driver says.
- `MachineDiscovery`: the providers in registration order, one action each, then the merge.

Queries
- `PathSearch`: adjacency (both ends of every edge, whatever its direction), the walk back
  from the destination, `fill_path` with its NOT_FOUND exceptions, and reachability by
  definition as the reference.
- `ShortestPath`, `LowestCostPath`: the two searches, one step per loop iteration. Equal queue
  entries cannot occur (an entry is pushed only when it improves its node), so the priority
  queue is a set. A double is an integer or `NaN`, which stands for every value that is not
  finite and makes each sum and product it enters `NaN`; `edge_traversal_cost` then charges
  `DegenerateCost` (1e15 in the code) instead, `cost_breakdown` and the NUMA penalty of the path
  have no such guard. Weights and latencies may be negative. Rounding and overflow of doubles
  are left out, and so is an infinite bandwidth, whose term would be 0.
- `Locality`: the traversals of `graph.cpp`, `locality_between`, `classify_path`. A loop is a
  recursive function of its iteration count, bounded by the number of ids it can meet.
- `Distance`: `distance_between` on the path `ShortestPath` found, `build_reasons`, and the
  properties of both and of `Locality`.
- `Ranking`: `rank_candidates` and `explain` run the two searches step by step for one
  candidate after the other, in any order the hash map may give (`Candidates`), passing over
  the source and absent ids (`Skip`), then sort (`Sorted`: ties in any order, anything if a cost is NaN) and cut (`Cut`).

Serialization
- `SnapshotJson`: the JSON value built from a snapshot, what `dump` followed by `parse`
  makes of a value (`Reparsed`, level by level: numbers change their kind, doubles are rounded), the
  parser's own limits, and the values read back with their defaults. A node or edge has one
  representative of each group of fields that are read and written alike.
- `SnapshotImport`: `deserialize` and `import_synthetic`: parse, checks, one step per node and
  edge, Kahn's loop, the copy that forces the synthetic flag, the counters, and exporting
  and importing the result again.

Modules `MC...` give the constants; operators marked "Mutant of X" are plausible bugs of
X that break a property and show that the property can fail.

## Runs

| Run | Checks | Instance and why it is enough |
|---|---|---|
| `runtime_publication` | `TypeOK`, `GenerationSound`, `ImplementsPublished`, `DiscoveryEnds` | 2 threads, 3 discoveries, one name with two providers: a change and back again, overlapping callers, replaced and throwing providers, a device that contains itself (validation errors), a thread that comes back after its provider threw |
| `runtime_discovery` | `EachProviderOnce`, `TelemetryAccounts`, `RegistryConsistent`, `OrderStable` | 1 thread (the lock admits one), 2 discoveries, 3 providers under 2 names, a reset at any step: a name can be run, removed and registered again while another is pending, and a reset can fall between any two records of a discovery, the last or not |
| `diff_laws` | `NoDrift`, `DiffExact` | all triples of graphs with one node of any facts, or two nodes with up to two parallel, reversed or undirected edges |
| `merge_properties` | `ProviderOrderIrrelevant`, `MergeIdempotent`, `MergedWellFormed`, `RediscoveryQuiet`, `AttachConnects` | every subset of 3+5 nodes and 3+3 edges of two providers: shared identity with higher, equal and lower confidence, a shared ref, parallel undirected edges |
| `machine` | `HardwareOnce`, `AllUnderMachine`, `BoundsRespected` | a workstation, a GPU box, a box whose GPUs have one address in two PCI domains and whose adapters share a hardware address, a host whose processors exceed `MaxNodes` and `MaxEdges`, a host without Windows; every set of at most two failing calls, so that any two providers can fail at once or one device in two ways |
| `path_hops` | `FewestHops`, `NoRouteMissed`, `TraversalExact`, `RootAncestorExact`, `LocalityAgrees`, `ReasonsCompatible` | all subgraphs of 10 edges over 5 nodes (second parents, a containment cycle, a self edge, collocation shortcuts) as a PCI hierarchy, two root complexes and a processor; routes and parents at the null id |
| `path_cost` | `CostMinimal`, `BreakdownAddsUp`, `RankingExact`, `CallReturns` | all subsets of 9 links over 5 nodes, one of them with a latency that is not finite; four policies: the default, one that makes everything free, one with a negative weight and a reference bandwidth of 0, one with a NaN latency weight and NUMA penalty; a dangling link; candidates by type with a cap, by list with a repeated, an absent and the source id, and `explain` |
| `import` | `RoundTripExact`, `ImportComplete`, `CycleCheckExact`, `ImportAccounted` | exports with every kind of property value and values at the limits of their width, all containments of up to three edges on three ids, documents with one field absent or of an odd kind, one element too many |

What the less obvious ones say. `HardwareOnce`: however calls fail, every thing the reports can
tell apart is one node; the PCI and CUDA views of a GPU meet in one exactly in PCI domain 0.
`AllUnderMachine`: nothing that is found is left
outside the machine's containment. `TraversalExact`, `RootAncestorExact`: the loops compute
containment by definition and end on cyclic graphs. `LocalityAgrees`, `ReasonsCompatible`: the
classifications are symmetric and do not contradict each other or the paths. `RankingExact`:
the result is the cheapest candidates in order whatever order they were searched in.
`BreakdownAddsUp`: the breakdown is the cost of the search, unless an edge of the path had to be
guarded, and then it is NaN. `TelemetryAccounts`: a reset in the middle of a discovery takes at
most one snapshot and one change from the counters, and the totals recover with the next
publication.
`RoundTripExact`: an export comes back with the same nodes, but for properties whose kind the
text does not keep (`Kept`), the same edges in the order they were written, nothing the diff
calls material in either direction, as many validation errors and the same generation; the
result of any import, exported again, too.
`ImportComplete`: an accepted document is imported entirely. `CycleCheckExact`: Kahn's loop
decides what `HasCycle` says.

Bounds. `MaxDiscoveries` and `MaxResets` bound the number of calls, `MaxFaults` the failing
calls of one discovery; `MaxNodes`, `MaxEdges` and `MaxValues` are the program's own bounds,
`MaxInt64` and `Width` its integer widths, made small; `KeySpan` bounds the values that stand for
identities and names; `DegenerateCost` only has to exceed what the instance's paths cost. These
properties are stated under a condition: `CostMinimal`, `RankingExact` and `CallReturns` where no edge has a
negative cost (`NoNegativeEdge`; the weights may be negative), `RankingExact` also where the NUMA penalty
is finite; `HardwareOnce` and `AllUnderMachine` where the driver tells bus addresses and (the
second) the providers agree on the machine's name; `RoundTripExact` where the text can carry the
snapshot (`Portable`). What happens otherwise is described below. Deadlock is not checked
where a query, an import or an evaluation returns.

Fairness. `runtime_publication` assumes weak fairness of the steps of a thread inside
`discover()`: it waits for nobody, and `provider->discover()` is taken to return or throw.
Nothing is assumed of callers, registry users or of which waiter the mutex admits.
`path_cost` assumes that the one thread running the call keeps running.

### Disagreements found

Runs expected to end in a violation state what a document or comment says, and TLC shows
the code doing otherwise (details with lines in `PROJECT.json`):

- `merge_dangling`: an edge to a group that `max_nodes` dropped is kept, with the null id.
- `export_non_ascii`: the parser rejects bytes from 0x80 on, which the writer writes as they
  are; an export with a non-ASCII device name cannot be imported.
- `negative_weights`: with a negative edge cost the parents the search leaves form a circle, and
  the walk back never reaches the source; `SECURITY.md` 84 rules this out. (`WalkBackEnds` says
  that it comes to no node twice. Where the destination cannot be taken from the queue before,
  the search itself goes round a negative undirected edge for ever.)
- `cuda_peers`: `devRefs` has no entry for a device that could not be opened but is indexed by
  ordinal; peer edges then join other devices, or read past the vector.

Other places where the text and the code differ, met while modelling and modelled as the
code has them:

- Runtime: `SnapshotMetadata.warnings` stays empty after `discover()`, since `allWarnings`
  (`runtime.cpp` 49, 123) is never added to, where `DISCOVERY.md` 81-82 says the warnings are
  stored; `record_node_type` (`runtime.cpp` 146) leaves the counts of types that disappeared.
- Merge: `refMap` is filled in the order of an unordered map (`merge.cpp` 112, 191), so a ref that
  several groups declare resolves by hash order, not to the "first group that declared the ref"
  (`merge.cpp` 187); `pick` in the model is any of them. A property two members agree on is
  recorded as a conflict (`merge.cpp` 174, `PROVIDERS.md` says "disagrees"); merging raises a confidence (`merge.cpp` 158) against a
  comment in `confidence.hpp`, while `PROVIDERS.md` documents the maximum; undirected edges
  are stored as contributed and only their keys are ordered (`edge.hpp` 14 says stored).
- Queries: a search that passes through a dangling endpoint throws NOT_FOUND where `PATHS.md`
  has a path with `found=false`; for a pair without a route `explain` reports a cost
  breakdown holding the NUMA penalty beside a total of 0. `COST_MODEL.md` 36 lists the NUMA penalty
  among the terms of every edge and 94-95 has the search minimize their sum: `edge_traversal_cost`
  (`internal.hpp` 68-92) has no such term, and `lowest_cost_path` adds the penalty once, for the two
  ends of the path (`path.cpp` 169-176). The path found is therefore the cheapest without it:
  another that crosses NUMA nodes less often may be cheaper by the document. `CostMinimal` and
  `RankingExact` state the minimum the code computes. The guard against NaN and infinity
  (`internal.hpp` 90) has no counterpart in `cost_breakdown` (`cost.cpp` 8-29) or for the NUMA penalty, so
  a path of finite cost may be shown with a breakdown of NaN; and a NaN penalty makes the comparison
  of `ranking.cpp` 56-59 no ordering, for which `std::sort` promises nothing.
- Providers: every PCI function is put in domain 0 (`pci.cpp` 161, as `PCIE.md` 33 says) while cuda
  reports the driver's domain (`cuda.cpp` 186): a GPU of another domain is two nodes, where
  `DESIGN.md` 53-54 has the two reports collapse and `LIMITATIONS.md` 16-17 expects so of every
  host that tells locations, and its PCI function may share the
  node of a device in domain 0. Adapters with one hardware address, as teamed or virtual ones
  may have, become one node (`network.cpp` 68, `identity.cpp` 31). The host provider falls
  back on the NetBIOS name (`host.cpp` 25) and the cpu_numa and pci providers do not, so that their edges to the machine are dropped when only the DNS
  name is missing (`DISCOVERY.md` 24: "This keeps the graph connected"; the attach pass does not
  cover processors and NUMA nodes); attributes cuda cannot read stay 0
  and give a device the address 0000:00:00.0 (`cuda.cpp` 158-161), which `identity.cpp` 9 rules out.
- Serialization: an array that starts with a string and holds another kind makes the import
  throw `std::bad_variant_access` (`serialization.cpp` 40), where `SERIALIZATION.md` 81-82 has a
  null property and `serialization.hpp` a `TopologyError`; positive signed integers come back
  unsigned, doubles with six decimals, and an empty string array as an integer array;
  integers from 2^63 on are cut; the parser's limit of 4 Mi
  values is reached by some hundred thousand nodes, where `max_nodes` is a million; the copy
  `import_synthetic` makes loses the warnings about repeated ids.

## Proofs

All of these hold for every value of the constants, under the named assumptions only. TLC
evaluates each of them in the runs.

| Assumption | What it says | Why it holds of the code |
|---|---|---|
| `RegistryAssumption` | every provider has a name | `name()` is pure virtual |
| `RuntimeAssumption`, `BoundsAssumption`, `NoThreadAssumption` | bounds are naturals, every provider has outputs, `"none"` is no thread | types of the fields; a name for no thread |
| `OutputsAssumption` | a contribution carries the name of its provider | every provider in `src/providers` fills in its own name; a provider that threw has none |
| `KeySpanAssumption` | the values that stand for identity strings are below a bound | they are finitely many; the bound separates the prefixes of a key as ":" does |
| `InputsAssumption` | contributions are vectors of nodes with a type, a name, a confidence and identities | the fields of `ContributedNode` and `Contribution` |
| `ContainmentAssumption` | a `CONTAINS` edge is contributed as directed | `GRAPH_MODEL.md` ("parent contains child"); all providers leave the default direction |
| `QueriesAssumption`, `RequestsAssumption` (`Ranking`) | a snapshot is finite; ids are numbers, latencies and bandwidths integers, NaN or unset; a request has a count and a list of ids, a cap only by type, one destination in `explain` | a map and a vector; the signatures in `query.hpp` |
| `NumbersAssumption` | NaN is no integer, unset is neither, the cost of a guarded edge is a natural number | three different values of a double or `optional<double>`; the literal 1e15 |
| `WeightsAssumption` | a weight is an integer or NaN | the fields of `CostWeights` |
| `WidthAssumption` | an unsigned identity fits `int64_t` | `uint16_t` and `uint32_t` |
| `RequestsAssumption` (`SnapshotImport`) | snapshots and parsed files are what their types allow (`IsSnapshot`, `IsDocument`) | the fields of `TopologyNode` and `TopologyEdge`, the alternatives of `PropertyValue` and `json::Value` |

Registry and diff
- `ProviderRegistryProofs`: `RegistryStaysConsistent`, `RegistrationOrderStable`. The
  invariant is consistency with the types; uniqueness of names in the order is needed to see
  that removing one occurrence removes the name.
- `SnapshotSequenceProofs`: `GenerationsDoNotDrift` and `DiffIsExact`, from lemmas of
  `GraphLemmas` about the diff: absence of material change is transitive
  (`MaterialChangeTransitive`) although each edge is matched with the first of its key, since
  every key has a first position (`FirstMatchExists`, by the well-ordering of the naturals).

Merge (`DiscoveredGraphProofs`), for any contributions, bounds and hash orders. The invariant
(`MergeInv`) only says that the graph is what the pipeline made of the input; the work is in
the lemmas about the pipeline.
- `BoundsHold`: of the groups and edges the first `n` stay (`Leading`); that these are at most `n`
  is shown by counting how many come before each (`LeadingBound`). The attach pass appends
  behind the positions in use, so the builder cuts inferred edges first.
- `MergeIsWellFormed`: number keys are taken apart again into prefix and value (`KeyParts`), so
  that members of one group share the identity the key was made from, and a merged node
  reports it too: a provider that knows more about the device does not move it
  (`MergedKey`). Hence no two nodes have one identity. The edges of all contributions are the
  flattened vector (`Concatenation`), each resolvable one is found again by its key.
- `RediscoveryIsQuiet`: an attached edge has a key of its own (`AttachedKeys`), because its target
  had no parent; with one edge per key `SameViewMeansQuiet` applies.
- `AttachIsConnecting`: the nodes outside a closed set with the machine would have a root,
  which has a parent or is attached (`HierarchyClosed`).
- `OrderIsIrrelevant`, `MergeIsIdempotent`: two groups of members mirror each other (`Mirrors`) when
  members correspond, order is kept, and a repetition comes later than what it repeats; then
  the foremost of any corresponding selections agree (`MirrorForemost`), and every field of a
  merged node is that of a foremost member. Reversed contributions mirror the original when
  confidence alone decides; doubled ones always do, and their second half of edges only has
  keys of the first (`DeduplicateTwice`).

Runtime (`TopologyRuntimeProofs`)
- `RuntimeTypeCorrect`, `GenerationTrustworthy` and
  `RuntimeImplementsPublished`. `GenerationSound` is not inductive: a publication must be
  known to carry a generation decided against the snapshot it replaces. The invariant adds
  `LockInv` (a thread inside holds the lock, so at most one is inside), `DecidedInv` (what a
  discovery decided is still right when it publishes, because nobody else can publish) and
  `HistoryInv` (`current` is the last of the history and its generation the largest). A
  publication then keeps the generation only if it does not differ materially from its
  predecessor, and transitivity extends this to every older snapshot of that generation. The
  refinement theorem needs `DecidedInv` once more, and that snapshot numbers grow.
- `ProvidersContributeOnce`: the registry may change while a discovery runs, but the copy it
  works on does not. `OnceInv` says that the copy lists names once and that what has been
  contributed is signed by names no longer ahead in it.
- `TelemetryAddsUp`: the invariant says, for each step of `discover()`, which counters already
  include the discovery in progress (`Accounts`), counted from the last reset (`ResetInv`), and which
  totals are recorded (`RecordedInv`). A reset inside a discovery makes what that discovery has
  recorded so far `Missing`: at most one snapshot and one change, for as long as no later reset
  comes (`ResetAccounts`, `PublishAccounts`).

Searches. Both rest on `GraphLemmas`: a set of naturals has a least element, the positions
of a finite set in order, iterates of a function, and the tree of a search (`Tree`: each
node was reached by an edge from its parent, one level up) with the walk back along it
(`Trace`). The reference definitions of the properties are recursive functions; a lemma shows
once that they exist and what they hold (`IterExists`), the rest is by least counterexample.
- `ShortestPathProofs`: `ShortestPathFewestHops`, `ShortestPathNoRouteMissed`. The model keeps no
  depths, as the code does not: `SearchInv` says that depths exist for which the parents are a
  tree, the queue is ordered by depth and spans at most two levels (`Frontier`), and every
  visited node that is not queued has all its neighbours visited, at most one deeper
  (`Expanded`).
- `ShortestPathProofs`: `TraversalsFindAll`. Both the loop and the reference definition find
  the least set that holds the direct parents and is closed under them (`Least`); the loop
  because what it has found is found for a reason and every element has had its turn
  (`Visits`), the reference because it stops growing once it has as many rounds as there are ids.
- `RootAncestorFindsNearest`. The walk stays within the containers of its start (`Walked`). With
  one container each, the answer from a node that is not of the type is the answer from its
  parent (`UpOne`), so all nodes the walk passes have one answer, and every container of the
  type is the answer or lies above it.
- `ClassificationsAgree`, `ReasonsNeverContradict`: cases of the classifications over the
  two theorems above. For a pair without a route they use the search once more: the visited
  nodes and the others are both closed under edges, so the two ends have no container in common.
- `RankingProofs`: `LowestCostPathMinimal`, where no edge has a negative cost, through any sequence of searches that a ranking
  makes. An entry of the queue is outdated when its node has a smaller label meanwhile, so
  a node counts as settled when no entry with its own label is queued (`Settled`), and the invariant `Dijkstra`
  holds of the settled nodes: their neighbours' labels are no larger than label plus edge
  cost (`Final`), and what is settled is no dearer than what is queued. The depths here bound
  the walk back over edges of cost zero. At the end every label is the least cost of any
  number of edges (`Optimal`, `Bests`).
- `RankingProofs`: `CostBreakdownAddsUp`, with negative costs too, under which labels are not
  least costs and the parents need not be a tree. `GrowInv` keeps what is left: labels are
  integers, every labelled node but the source has an edge from a labelled one (`Grown`), and the segments
  lie on the graph. The search adds up costs from the destination to the source, `cost_breakdown`
  each term from the source on; `SumInv` says that partial sums over the segments exist that end in
  the cost added up so far (`Summed`), and a segment in front shifts them (`SummedInFront`). A
  total is NaN exactly if a term is, in whatever order it is added up (`TotalIs`, `ShownIs`).
- `RankingProofs`: `RankingIsExact`. The result is described for any table of cheapest costs
  that solves the recurrence of `CheapestFrom`, so that it can be carried along without
  the table. `ListInv` says that the candidates done with are a prefix of one of the lists
  the loop may walk (`AtCandidate`, `Rest`) and that the entries are one for each candidate of it
  that has a price (`Collected`: an injection `b` from entries to candidates, `Listing`). A
  permutation that leaves no inversion, cut, is then the cheapest first (`SortDelivers`), and
  for the nodes of a type the list can be forgotten (`OrderForgotten`). That a distance counts
  no more hops than the path takes from the other search: `Bfs` instantiates
  `ShortestPathProofs`, a step of `distance_between` is a step of it (`SameSteps`), and the path
  Dijkstra found is one it could have found (`Near`). `CallInv` keeps both searches apart and
  says where an exception comes from.

Import (`SnapshotImportProofs`)
- `ImportIsComplete`: `ReadInv` says at each step what was read so far: of the first `at - 1`
  nodes the first of each id (`NodesRead`), and exactly the first `at - 1` edges. That an array
  survives parsing as an array of the same length is `ExportArrays`. Of a request it only needs
  that arrays are vectors (`Bare`).
- `ImportsAreCounted`: `CountInv`, with the observation that no exception is called
  `"returned"` and that the second builder marks its snapshot.
- `CycleCheckIsExact`: the code counts visited nodes only; `Sorting` says which: there is a set
  X of that many nodes, in-degrees count the edges from outside X, a node without one is in X
  or stacked, once, and no set without a root meets X (so a cycle is never visited). When the
  stack is empty the rest is itself a set without a root.
- `RoundTripIsExact`: `NodeImage`, `EdgeImage` and `DocImage` say what the text makes of an
  object, field by field, and hold of every export (`Exported`). Reading such an image back
  gives the value written when the text carries it (`NodeTrip`, `EdgeTrip`, from
  `UnsignedTrip`, `PropertyTrip` and `ScalarDouble` about numbers). The edges come back
  permuted; under any permutation the diff sees no change when keys are unique and the errors
  are counted alike (`ReorderedQuiet`, `ReorderedErrors`). `TripInv` adds to `ReadInv` that the
  document is such an image, that what was read raised nothing and that an export the text
  carries was not rejected. For the second trip it must also hold of what an import returned,
  so that whatever a file holds is read into values of the right types (`ImportTyped`); this is
  why the assumption describes files in full.

Only model-checked, and why:
- liveness (`DiscoveryEnds`, `CallReturns`): fairness is out of the prover's reach;
- `HardwareOnce`, `AllUnderMachine`: they relate the merge to what each of six providers
  contributes under every set of failing calls.

Without `ContainmentAssumption` `RediscoveryQuiet` is false: an undirected `CONTAINS` edge from a
resource to the machine gives the resource no parent, so the attach pass adds a second edge,
from the machine to the resource, and both have the same key.

## Not modelled

The CLI; the grammar of JSON text (whitespace, escapes, nesting depth; an unterminated or
wrongly escaped string, which the parser takes for null, is an odd document here); node id
hashing (taken to be injective on one graph); in the export, doubles that are NaN or infinite,
which are written as null and as an exponent too large; the rounding of doubles and an infinite
bandwidth in the cost model; descriptive properties, display names and
warnings other than repeated ids; times; the warning checks of `validate`; the second-take
guard of the builder; the bandwidth and latency estimates of a path and the normalized
score; query telemetry, which nothing calls; allocation failures.

## Plan

1. Done: runtime, registry, merge, diff, path search; first theorems.
2. Done: providers and their composition with the merge, traversal, locality, distance,
   ranking, serialization and import, the builder's cycle check.
3. Done: proofs about the runtime's telemetry and providers, both searches, the import.
4. Done: proofs about the merge, the attach pass, the traversals, locality and distance, the
   cost breakdown, the rankings and the round trip of a snapshot.
