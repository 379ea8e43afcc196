------------------------------ MODULE MCTxPath -------------------------------
(* Instances of TxPath for TLC: one application task for all endpoints, one  *)
(* task per endpoint, and two tasks that share an endpoint.                  *)
EXTENDS TxPath

CONSTANTS t1, t2

OneForAll == [t \in Tasks |-> Eps]
OneEach   == [t \in Tasks |-> IF t = t1 THEN {1} ELSE {2}]
Numbers   == 0 .. 3
Bits      == 0 .. 1
NoNumbers == {}
OneTooBig == {1}
=============================================================================
