--------------------------- MODULE TopologyRuntime ---------------------------
(***************************************************************************)
(* TopologyRuntime: concurrent discover() calls, the provider registry and *)
(* the telemetry they share with other threads, and the publication of     *)
(* immutable snapshots with generation numbers.                            *)
(*                                                                         *)
(* discover() holds discover_mu_ from beginning to end; what other threads *)
(* can observe or change meanwhile is the registry (mu_ of its own), the   *)
(* telemetry (mu_ of its own) and current_ (an atomic pointer). A step of  *)
(* a discovery accesses one of these, once: every record_* call locks the  *)
(* telemetry for itself. Times are left out of the telemetry.              *)
(***************************************************************************)
EXTENDS ProviderMerge, TopologyDiff, ProviderRegistry

CONSTANTS
  Threads,          \* callers of discover()
  Outputs,          \* Outputs[p]: the contributions p->discover() may return
  MaxDiscoveries,   \* bound: discover() calls
  MaxResets         \* bound: Telemetry::reset() calls

ASSUME RuntimeAssumption ==
  /\ DOMAIN Outputs = Providers
  /\ MaxDiscoveries \in Nat
  /\ MaxResets \in Nat

\* Every provider signs its contribution with its own name.
ASSUME OutputsAssumption ==
  \A p \in Providers : \A c \in Outputs[p] : c.provider = NameOf[p]

NoThread == "none"

ASSUME NoThreadAssumption == NoThread \notin Threads

VARIABLES
  lock,              \* the thread holding discover_mu_, or NoThread
  pc,                \* where each thread is in discover()
  queue,             \* what is left of its copy of registry_.all(), by position
  contributions,     \* the contributions it collected
  merged,            \* its merged graph, machine attach included
  gen,               \* the generation it decided
  snap,              \* the snapshot it is about to publish
  types,             \* the node types whose counts it has yet to record
  current,           \* current_
  snapshot_counter,  \* snapshot_counter_
  telemetry,         \* Telemetry::s_
  started,           \* discover() calls so far
  since,             \* how far the runtime was at the last Telemetry::reset()
  history            \* every snapshot published so far, oldest first

locals == <<queue, contributions, merged, gen, snap, types>>
bounds == <<started, since>>
vars == <<byName, order, lock, pc, locals, current, snapshot_counter,
          telemetry, bounds, history>>

PC == {"idle", "copy", "providers", "partial", "decide", "build",
       "edges", "types", "validation", "publish"}

Published == INSTANCE PublishedTopology WITH published <- current

NoSnapshot == Published!NoSnapshot
EmptyGraph == [nodes |-> << >>, edges |-> << >>, conflicts |-> 0]

ZeroTelemetry ==
  [discovery_runs |-> 0, provider_successes |-> 0, provider_failures |-> 0,
   partial_discoveries |-> 0, merge_conflicts |-> 0, validation_failures |-> 0,
   snapshots_created |-> 0, generation_changes |-> 0, nodes_total |-> 0,
   edges_total |-> 0, nodes_by_type |-> << >>, provider_runs |-> << >>]

Init ==
  /\ RegistryInit
  /\ lock = NoThread
  /\ pc = [t \in Threads |-> "idle"]
  /\ queue = [t \in Threads |-> << >>]
  /\ contributions = [t \in Threads |-> << >>]
  /\ merged = [t \in Threads |-> EmptyGraph]
  /\ gen = [t \in Threads |-> 0]
  /\ snap = [t \in Threads |-> NoSnapshot]
  /\ types = [t \in Threads |-> {}]
  /\ current = NoSnapshot
  /\ snapshot_counter = 0
  /\ telemetry = ZeroTelemetry
  /\ started = 0
  /\ since = [resets |-> 0, runs |-> 0, created |-> 0, generation |-> 0, quiet |-> TRUE]
  /\ history = << >>
-----------------------------------------------------------------------------
(* Helpers of discover().                                                  *)

\* The position of the next provider to run.
Upcoming(t) == CHOOSE i \in DOMAIN queue[t] : \A j \in DOMAIN queue[t] : i <= j

Goto(t, to) == pc' = [pc EXCEPT ![t] = to]

\* The provider name of a contribution nobody signed.
Unsigned == ""

\* What the catch clause leaves of a contribution whose provider threw: no
\* provider name, no nodes, one warning.
Thrown ==
  [provider |-> Unsigned, success |-> FALSE, partial |-> TRUE, warned |-> TRUE,
   nodes |-> << >>, edges |-> << >>]

Count(f, n) == Insert(f, n, IF n \in DOMAIN f THEN f[n] + 1 ELSE 1)

record_provider_run(n, success) ==
  [telemetry EXCEPT !.provider_runs = Count(@, n),
                    !.provider_successes = IF success THEN @ + 1 ELSE @,
                    !.provider_failures  = IF success THEN @ ELSE @ + 1]

\* build_snapshot: metadata.warnings is copied from allWarnings, which no
\* statement of discover() ever fills.
build_snapshot(t, id, generation) ==
  LET b == Built(merged[t])
      cs == contributions[t]
  IN  [id |-> id, generation |-> generation, nodes |-> b.nodes, edges |-> b.edges,
       partial |-> \E i \in DOMAIN cs : cs[i].partial,
       warnings |-> FALSE,
       providers |-> [i \in DOMAIN cs |-> cs[i].provider],
       errors |-> ErrorCount(b)]

CountByType(nodes) ==
  [ty \in {nodes[n].type : n \in DOMAIN nodes} |->
     Cardinality({n \in DOMAIN nodes : nodes[n].type = ty})]
-----------------------------------------------------------------------------
(* discover(), one action per access to shared state.                      *)

\* Mutant of Discover: no lock is taken.
DiscoverUnlocked(t) ==
  /\ pc[t] = "idle"
  /\ started < MaxDiscoveries
  /\ lock' = t
  /\ started' = started + 1
  /\ telemetry' = [telemetry EXCEPT !.discovery_runs = @ + 1]
  /\ Goto(t, "copy")
  /\ UNCHANGED <<registryVars, locals, current, snapshot_counter, since, history>>

\* Lock discover_mu_ and record_discovery_run.
Discover(t) ==
  /\ pc[t] = "idle"
  /\ lock = NoThread
  /\ started < MaxDiscoveries
  /\ lock' = t
  /\ started' = started + 1
  /\ telemetry' = [telemetry EXCEPT !.discovery_runs = @ + 1]
  /\ Goto(t, "copy")
  /\ UNCHANGED <<registryVars, locals, current, snapshot_counter, since, history>>

\* The loop iterates over the copy registry_.all() returns.
CopyProviders(t) ==
  /\ pc[t] = "copy"
  /\ queue' = [queue EXCEPT ![t] = all]
  /\ contributions' = [contributions EXCEPT ![t] = << >>]
  /\ Goto(t, "providers")
  /\ UNCHANGED <<registryVars, lock, merged, gen, snap, types, current,
                 snapshot_counter, telemetry, bounds, history>>

\* Mutant of RunProvider: the loop indexes the live registry.
RunProviderLive(t) ==
  /\ pc[t] = "providers"
  /\ DOMAIN queue[t] # {}
  /\ \E c \in Outputs[queue[t][Upcoming(t)]] \cup {Thrown} :
       /\ telemetry' = record_provider_run(NameOf[queue[t][Upcoming(t)]], c.success)
       /\ contributions' = [contributions EXCEPT ![t] = Append(@, c)]
       /\ Goto(t, IF c.partial THEN "partial" ELSE "providers")
  /\ queue' = [queue EXCEPT ![t] = [i \in {j \in DOMAIN all : j > Upcoming(t)} |-> all[i]]]
  /\ UNCHANGED <<registryVars, lock, merged, gen, snap, types, current,
                 snapshot_counter, bounds, history>>

\* provider->discover(ctx) returns a contribution, or throws a std::exception
\* and leaves Thrown; either way the run is recorded and the loop goes on.
RunProvider(t) ==
  /\ pc[t] = "providers"
  /\ DOMAIN queue[t] # {}
  /\ \E c \in Outputs[queue[t][Upcoming(t)]] \cup {Thrown} :
       /\ telemetry' = record_provider_run(NameOf[queue[t][Upcoming(t)]], c.success)
       /\ contributions' = [contributions EXCEPT ![t] = Append(@, c)]
       /\ Goto(t, IF c.partial THEN "partial" ELSE "providers")
  /\ queue' = [queue EXCEPT ![t] = Erase(@, Upcoming(t))]
  /\ UNCHANGED <<registryVars, lock, merged, gen, snap, types, current,
                 snapshot_counter, bounds, history>>

\* Mutant of ProviderEscapes: the mutex is unlocked by hand at the end of
\* discover(), which the exception skips.
ProviderEscapesLocked(t) ==
  /\ pc[t] = "providers"
  /\ DOMAIN queue[t] # {}
  /\ queue' = [queue EXCEPT ![t] = << >>]
  /\ contributions' = [contributions EXCEPT ![t] = << >>]
  /\ Goto(t, "idle")
  /\ UNCHANGED <<registryVars, lock, merged, gen, snap, types, current,
                 snapshot_counter, telemetry, bounds, history>>

\* Anything else a provider throws leaves discover(): the guard unlocks and
\* nothing is published.
ProviderEscapes(t) ==
  /\ pc[t] = "providers"
  /\ DOMAIN queue[t] # {}
  /\ lock' = NoThread
  /\ queue' = [queue EXCEPT ![t] = << >>]
  /\ contributions' = [contributions EXCEPT ![t] = << >>]
  /\ Goto(t, "idle")
  /\ UNCHANGED <<registryVars, merged, gen, snap, types, current,
                 snapshot_counter, telemetry, bounds, history>>

RecordPartial(t) ==
  /\ pc[t] = "partial"
  /\ telemetry' = [telemetry EXCEPT !.partial_discoveries = @ + 1]
  /\ Goto(t, "providers")
  /\ UNCHANGED <<registryVars, lock, locals, current, snapshot_counter, bounds, history>>

\* The loop is done: merge, attach, record_merge_conflicts.
Merge(t) ==
  /\ pc[t] = "providers"
  /\ DOMAIN queue[t] = {}
  /\ Goto(t, "decide")
  /\ \E g \in MergedGraphs(contributions[t]) :
       /\ merged' = [merged EXCEPT ![t] = g]
       /\ telemetry' = [telemetry EXCEPT !.merge_conflicts = @ + g.conflicts]
  /\ UNCHANGED <<registryVars, lock, queue, contributions, gen, snap, types, current,
                 snapshot_counter, bounds, history>>

\* Mutant of DecideGeneration: only nodes are compared.
DecideByNodes(t) ==
  /\ pc[t] = "decide"
  /\ LET b == Built(merged[t])
         changed == current.id # 0 /\ DOMAIN b.nodes # DOMAIN current.nodes
     IN  /\ gen' = [gen EXCEPT ![t] =
              IF current.id = 0 \/ changed THEN current.generation + 1 ELSE current.generation]
         /\ snapshot_counter' = IF current.id = 0 THEN snapshot_counter
                                ELSE snapshot_counter + 1
         /\ telemetry' = IF changed
                         THEN [telemetry EXCEPT !.generation_changes = @ + 1]
                         ELSE telemetry
  /\ Goto(t, "build")
  /\ UNCHANGED <<registryVars, lock, queue, contributions, merged, snap, types,
                 current, bounds, history>>

\* Mutant of DecideGeneration: the first generation is recorded as a change.
DecideCountsFirst(t) ==
  /\ pc[t] = "decide"
  /\ LET b == Built(merged[t])
         changed == current.id = 0 \/ MaterialChange(current, b)
     IN  /\ gen' = [gen EXCEPT ![t] =
              IF current.id = 0 THEN 1
              ELSE IF changed THEN current.generation + 1 ELSE current.generation]
         /\ snapshot_counter' = IF current.id = 0 THEN snapshot_counter
                                ELSE snapshot_counter + 1
         /\ telemetry' = IF changed
                         THEN [telemetry EXCEPT !.generation_changes = @ + 1]
                         ELSE telemetry
  /\ Goto(t, "build")
  /\ UNCHANGED <<registryVars, lock, queue, contributions, merged, snap, types,
                 current, bounds, history>>

\* Compare a provisional snapshot (which consumes a snapshot number) with the
\* published one; record_generation_change on a material change.
DecideGeneration(t) ==
  /\ pc[t] = "decide"
  /\ LET b == Built(merged[t])
         changed == current.id # 0 /\ MaterialChange(current, b)
     IN  /\ gen' = [gen EXCEPT ![t] =
              IF current.id = 0 THEN 1
              ELSE IF changed THEN current.generation + 1 ELSE current.generation]
         /\ snapshot_counter' = IF current.id = 0 THEN snapshot_counter
                                ELSE snapshot_counter + 1
         /\ telemetry' = IF changed
                         THEN [telemetry EXCEPT !.generation_changes = @ + 1]
                         ELSE telemetry
  /\ Goto(t, "build")
  /\ UNCHANGED <<registryVars, lock, queue, contributions, merged, snap, types,
                 current, bounds, history>>

\* Build the final snapshot and record_nodes.
BuildFinal(t) ==
  /\ pc[t] = "build"
  /\ LET s == build_snapshot(t, snapshot_counter + 1, gen[t])
     IN  /\ snap' = [snap EXCEPT ![t] = s]
         /\ telemetry' = [telemetry EXCEPT !.nodes_total = Cardinality(DOMAIN s.nodes)]
  /\ snapshot_counter' = snapshot_counter + 1
  /\ Goto(t, "edges")
  /\ UNCHANGED <<registryVars, lock, queue, contributions, merged, gen, types,
                 current, bounds, history>>

\* record_edges, then count the nodes by type.
RecordEdges(t) ==
  /\ pc[t] = "edges"
  /\ telemetry' = [telemetry EXCEPT !.edges_total = Cardinality(DOMAIN snap[t].edges)]
  /\ types' = [types EXCEPT ![t] = DOMAIN CountByType(snap[t].nodes)]
  /\ Goto(t, "types")
  /\ UNCHANGED <<registryVars, lock, queue, contributions, merged, gen, snap,
                 current, snapshot_counter, bounds, history>>

\* record_node_type of one type, in hash order. A type that is absent from the
\* snapshot keeps the count it had.
RecordType(t) ==
  /\ pc[t] = "types"
  /\ \E ty \in types[t] :
       /\ telemetry' = [telemetry EXCEPT !.nodes_by_type =
                          Insert(@, ty, CountByType(snap[t].nodes)[ty])]
       /\ types' = [types EXCEPT ![t] = @ \ {ty}]
  /\ UNCHANGED <<registryVars, lock, pc, queue, contributions, merged, gen, snap,
                 current, snapshot_counter, bounds, history>>

\* record_snapshot_created.
RecordCreated(t) ==
  /\ pc[t] = "types"
  /\ types[t] = {}
  /\ telemetry' = [telemetry EXCEPT !.snapshots_created = @ + 1]
  /\ Goto(t, IF snap[t].errors = 0 THEN "publish" ELSE "validation")
  /\ UNCHANGED <<registryVars, lock, locals, current, snapshot_counter, bounds, history>>

\* record_validation_failures of a snapshot that is not ok.
RecordValidation(t) ==
  /\ pc[t] = "validation"
  /\ telemetry' = [telemetry EXCEPT !.validation_failures = @ + snap[t].errors]
  /\ Goto(t, "publish")
  /\ UNCHANGED <<registryVars, lock, locals, current, snapshot_counter, bounds, history>>

\* current_.store(snap); the guard unlocks on return.
Publish(t) ==
  /\ pc[t] = "publish"
  /\ current' = snap[t]
  /\ history' = Append(history, snap[t])
  /\ lock' = NoThread
  /\ queue' = [queue EXCEPT ![t] = << >>]
  /\ contributions' = [contributions EXCEPT ![t] = << >>]
  /\ merged' = [merged EXCEPT ![t] = EmptyGraph]
  /\ gen' = [gen EXCEPT ![t] = 0]
  /\ snap' = [snap EXCEPT ![t] = NoSnapshot]
  /\ Goto(t, "idle")
  /\ UNCHANGED <<registryVars, types, snapshot_counter, telemetry, bounds>>

Step(t) ==
  \/ CopyProviders(t)
  \/ RunProvider(t)
  \/ ProviderEscapes(t)
  \/ RecordPartial(t)
  \/ Merge(t)
  \/ DecideGeneration(t)
  \/ BuildFinal(t)
  \/ RecordEdges(t)
  \/ RecordType(t)
  \/ RecordCreated(t)
  \/ RecordValidation(t)
  \/ Publish(t)

\* Other threads change the registry ...
ChangeRegistry ==
  /\ RegistryNext
  /\ UNCHANGED <<lock, pc, locals, current, snapshot_counter, telemetry, bounds, history>>

\* ... and reset the telemetry at any moment.
ResetTelemetry ==
  /\ since.resets < MaxResets
  /\ telemetry' = ZeroTelemetry
  /\ since' = [resets |-> since.resets + 1, runs |-> started, created |-> Len(history),
               generation |-> current.generation, quiet |-> lock = NoThread]
  /\ UNCHANGED <<registryVars, lock, pc, locals, current, snapshot_counter,
                 started, history>>

Next ==
  \/ \E t \in Threads : Discover(t) \/ Step(t)
  \/ ChangeRegistry
  \/ ResetTelemetry

Spec == Init /\ [][Next]_vars

\* A discovery is finite work that waits for nobody: a thread inside discover()
\* keeps taking steps. Nothing is assumed of callers, of registry users, or of
\* which waiting caller the mutex admits.
FairSpec == Spec /\ \A t \in Threads : WF_vars(Step(t))
-----------------------------------------------------------------------------
(* Properties.                                                             *)

IsSnapshot(s) ==
  /\ s.id \in Nat /\ s.generation \in Nat
  /\ s.partial \in BOOLEAN /\ s.warnings \in BOOLEAN

TypeOK ==
  /\ RegistryTypeOK
  /\ lock \in Threads \cup {NoThread}
  /\ pc \in [Threads -> PC]
  /\ DOMAIN queue = Threads
  /\ \A t \in Threads : \A i \in DOMAIN queue[t] : i \in Nat /\ queue[t][i] \in Providers
  /\ gen \in [Threads -> Nat]
  /\ DOMAIN merged = Threads
  /\ DOMAIN snap = Threads /\ \A t \in Threads : IsSnapshot(snap[t])
  /\ IsSnapshot(current)
  /\ snapshot_counter \in Nat /\ started \in Nat
  /\ DOMAIN types = Threads
  /\ {since.resets, since.runs, since.created, since.generation} \subseteq Nat
  /\ since.quiet \in BOOLEAN
  /\ history \in Seq(Range(history)) /\ \A i \in DOMAIN history : IsSnapshot(history[i])

\* The generation number is trustworthy: two snapshots a reader may have
\* obtained from current(), however far apart, carry the same generation only
\* if compare_snapshots finds no material change from the older to the newer.
GenerationSound ==
  \A i, j \in DOMAIN history :
    (i < j /\ history[i].generation = history[j].generation)
      => ~MaterialChange(history[i], history[j])

\* For its readers the runtime is the atomic register of PublishedTopology: a
\* generation is always decided against the snapshot that is replaced, and
\* snapshot numbers only grow, whatever discover() calls overlap.
ImplementsPublished == Published!Spec

\* The providers behind one snapshot (metadata.provider_versions) are those of
\* one moment: no name contributes twice, even if the provider is replaced or
\* unregistered and registered again while the discovery runs. Providers
\* that threw are Unsigned.
EachProviderOnce ==
  \A h \in DOMAIN history : LET ps == history[h].providers IN
    \A i, j \in DOMAIN ps : (ps[i] = ps[j] /\ ps[i] # Unsigned) => i = j

\* Between discoveries the counters add up: since the last reset, each discovery
\* counts as a run, each snapshot published as created, each generation after the
\* first as a change; and the totals, and the counts of the types that occur, are
\* those of the published snapshot. A reset that falls between the records of a
\* discovery takes from that discovery only: one snapshot and one change may be
\* missing, and the totals are right again when the next one is published.
TelemetryAccounts ==
  LET missing == IF since.quiet THEN 0 ELSE 1
      first == IF since.generation = 0 THEN 1 ELSE since.generation
  IN  (lock = NoThread /\ current.id # 0) =>
        /\ telemetry.discovery_runs = started - since.runs
        /\ Len(history) - since.created - telemetry.snapshots_created \in 0..missing
        /\ current.generation - first - telemetry.generation_changes \in 0..missing
        /\ Len(history) > since.created + missing =>
             /\ telemetry.nodes_total = Cardinality(DOMAIN current.nodes)
             /\ telemetry.edges_total = Cardinality(DOMAIN current.edges)
             /\ \A n \in DOMAIN current.nodes : LET ty == current.nodes[n].type IN
                  telemetry.nodes_by_type[ty] =
                    Cardinality({o \in DOMAIN current.nodes : current.nodes[o].type = ty})

\* Whatever providers do, throw included, a discovery ends and the next one can
\* start.
DiscoveryEnds == lock # NoThread ~> lock = NoThread
=============================================================================
