--------------------------- MODULE MCSourceIndex ---------------------------
(***************************************************************************)
(* Model values for checking SourceIndex.                                  *)
(***************************************************************************)
EXTENDS SourceIndex

CONSTANTS s1, s2
=============================================================================
