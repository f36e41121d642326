------------------------------ MODULE MCTimerunV2 ------------------------------
(* The instances of TimerunV2 that TLC checks.                             *)
EXTENDS TimerunV2, TLC

\* Users are interchangeable in the safety runs; slots are ordered.
Symmetry == Permutations(Person) \cup Permutations(Run)
=============================================================================
