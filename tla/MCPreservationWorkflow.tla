--------------------- MODULE MCPreservationWorkflow ---------------------
(***************************************************************************)
(* Constants for model checking PreservationWorkflow: one operator process *)
(* issuing every command in turn, or a second process that cancels.        *)
(***************************************************************************)
EXTENDS PreservationWorkflow, TLC

CONSTANTS w1, w2, i1, i2

OneOperator == w1 :> Commands
NoCancel == w1 :> {"prepare", "execute", "resume"}
WithCanceller == (w1 :> {"prepare", "execute"}) @@ (w2 :> {"cancel"})
=============================================================================
