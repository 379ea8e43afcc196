----------------------------- MODULE MCOrdinary -----------------------------
(* Instances of ControlPipe that meet the hypothesis of its theorems. *)
EXTENDS MCControlPipe

ASSUME InstanceIsOrdinary == OrdinaryUse
=============================================================================
