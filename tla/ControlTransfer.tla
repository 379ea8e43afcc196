--------------------------- MODULE ControlTransfer ---------------------------
(***************************************************************************)
(* What the control endpoint promises the host: a transfer the host starts *)
(* is executed at most once, only while it is the current one, and is      *)
(* completed only after it was executed; a request the device serves is    *)
(* completed, unless the host drops it (a reset).                          *)
(***************************************************************************)
CONSTANTS
    Setups,  \* setup packets
    Served   \* those the device answers

VARIABLES
    phase,   \* "idle", "requested", "executed"
    request  \* the current transfer's setup packet

ctlVars == <<phase, request>>

Init == phase = "idle" /\ request \in Setups

Start(s) == phase = "idle" /\ phase' = "requested" /\ request' = s
Execute  == phase = "requested" /\ phase' = "executed" /\ UNCHANGED request
Complete == phase = "executed" /\ phase' = "idle" /\ UNCHANGED request
Drop     == phase # "idle" /\ phase' = "idle" /\ UNCHANGED request

Next == (\E s \in Setups : Start(s)) \/ Execute \/ Complete \/ Drop

SafeSpec == Init /\ [][Next]_ctlVars

Spec == /\ SafeSpec
        /\ WF_ctlVars(Execute /\ request \in Served)
        /\ WF_ctlVars(Complete /\ request \in Served)
=============================================================================
