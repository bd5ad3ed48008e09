----------------------- MODULE SnapshotSequenceProofs ------------------------
(***************************************************************************)
(* The laws of compare_snapshots hold of every sequence of snapshots,      *)
(* whatever the set of graphs they are drawn from.                         *)
(***************************************************************************)
EXTENDS SnapshotSequence, GraphLemmas

\* For every set of graphs: between three snapshots no material change builds
\* up from two comparisons that report none.
THEOREM GenerationsDoNotDrift == Spec => []NoDrift
<1>1. NoDrift
  BY MaterialChangeTransitive DEF NoDrift
<1> QED
  BY <1>1, PTL

\* For every set of graphs: on graphs without repeated edge keys the material
\* change flag is exactly a difference in material content.
THEOREM DiffIsExact == Spec => []DiffExact
<1>1. DiffExact
  BY QuietMeansSameView, SameViewMeansQuiet DEF DiffExact
<1> QED
  BY <1>1, PTL
=============================================================================
