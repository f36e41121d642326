-------------------------- MODULE MCTimerunSegments --------------------------
(* The instances of TimerunSegments that TLC checks.                       *)
EXTENDS TimerunSegments, TLC

\* Users and runs are interchangeable in the safety runs.
Symmetry == Permutations(User) \cup Permutations(Run)

\* Exploration goes no further once the two archives hold more rows than this.
CONSTANT MaxRemoved
FewRemoved == Cardinality(db.archive) + Cardinality(segments.removed) <= MaxRemoved
=============================================================================
