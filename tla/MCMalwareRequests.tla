------------------------- MODULE MCMalwareRequests -------------------------
(***************************************************************************)
(* Model values for checking MalwareRequests.                              *)
(***************************************************************************)
EXTENDS MalwareRequests

CONSTANTS p1, p2, r1, r2, j1
=============================================================================
