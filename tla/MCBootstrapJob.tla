--------------------------- MODULE MCBootstrapJob ---------------------------
(***************************************************************************)
(* Model values for checking BootstrapJob with HttpTransfer: two items and *)
(* two versions of each, the second one block longer.                      *)
(***************************************************************************)
EXTENDS BootstrapJob

Sizes == <<2, 3>>
=============================================================================
