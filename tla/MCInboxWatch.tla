---------------------------- MODULE MCInboxWatch ----------------------------
(***************************************************************************)
(* Model values for checking InboxWatch: one file, and either the service  *)
(* alone or the service and an operator's scan at once.                    *)
(***************************************************************************)
EXTENDS InboxWatch

CONSTANTS w1, w2, f1
=============================================================================
