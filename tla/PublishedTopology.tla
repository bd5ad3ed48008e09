-------------------------- MODULE PublishedTopology --------------------------
(***************************************************************************)
(* What TopologyRuntime promises to its readers, without threads, locks,   *)
(* providers or intermediate builds: current() is an atomic register, and  *)
(* each refresh replaces its content in one step whose generation is       *)
(* decided against the very snapshot being replaced.                       *)
(***************************************************************************)
EXTENDS TopologyDiff

VARIABLE published    \* the snapshot current() returns

\* "nullptr until first discover": generation() is 0, no id has been given.
NoSnapshot ==
  [id |-> 0, generation |-> 0, nodes |-> << >>, edges |-> << >>,
   partial |-> FALSE, warnings |-> FALSE, providers |-> << >>, errors |-> 0]

\* The first snapshot is generation 1; a later one gets a new generation
\* exactly when it differs materially from the one it replaces.
NextGeneration(prev, g) ==
  IF prev.id = 0 THEN 1
  ELSE IF MaterialChange(prev, g) THEN prev.generation + 1 ELSE prev.generation

Init == published = NoSnapshot

Refresh ==
  /\ published'.generation = NextGeneration(published, published')
  /\ published'.id > published.id

Spec == Init /\ [][Refresh]_published
=============================================================================
