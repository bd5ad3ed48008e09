-------------------------- MODULE SnapshotSequence ---------------------------
(***************************************************************************)
(* A consumer that keeps the three latest snapshots and compares them: the *)
(* laws compare_snapshots must obey for generation numbers to mean         *)
(* anything. The snapshots are arbitrary graphs, imported ones with        *)
(* repeated edge keys included.                                            *)
(***************************************************************************)
EXTENDS TopologyDiff

CONSTANT Graphs

VARIABLES first, second, third

vars == <<first, second, third>>

Init == first \in Graphs /\ second = first /\ third = first

\* A new snapshot arrives; the oldest is forgotten.
Observe ==
  /\ first' = second
  /\ second' = third
  /\ third' \in Graphs

Spec == Init /\ [][Observe]_vars

-----------------------------------------------------------------------------
\* No material change from the first snapshot to the second and none from the
\* second to the third leave none from the first to the third: small changes
\* cannot add up behind a generation number that stays the same.
NoDrift ==
  (~MaterialChange(first, second) /\ ~MaterialChange(second, third))
    => ~MaterialChange(first, third)

\* On graphs without repeated edge keys, compare_snapshots reports a material
\* change exactly when the material content differs.
DiffExact ==
  (UniqueKeys(first) /\ UniqueKeys(second))
    => (MaterialChange(first, second) <=> MaterialView(first) # MaterialView(second))
=============================================================================
