--------------------------- MODULE MCTrackerSync ---------------------------
(* Small instances of TrackerSync for TLC.                                 *)
EXTENDS TrackerSync, TLC

\* Lines of different lengths.
MCWidth == [l \in Lines |-> IF l % 2 = 1 THEN 3 ELSE 2]

\* Handler threads are alike; so are files.  Only used where no liveness
\* property is checked.
Symmetry == Permutations(Slots) \cup Permutations(Files)
=============================================================================
