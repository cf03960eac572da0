--------------------------- MODULE MCArchiveStore ---------------------------
(***************************************************************************)
(* Instances of ArchiveStore for TLC.                                      *)
(***************************************************************************)
EXTENDS ArchiveStore, TLC

(* Calls, rebuilders and contents are interchangeable model values.        *)
Symmetry == Permutations(Calls) \cup Permutations(Rebuilders) \cup Permutations(Contents)
=============================================================================
