----------------------------- MODULE FifoChannel -----------------------------
(***************************************************************************)
(* What one direction of a bulk endpoint promises its users: a lossless    *)
(* FIFO of messages per endpoint, and, when the receiving side is fair,    *)
(* the delivery of everything that was accepted.  TxPath (application to   *)
(* host) and RxPath (host to application) implement it.                    *)
(***************************************************************************)
EXTENDS Sequences

CONSTANTS Eps, Msgs

VARIABLE chan  \* [Eps -> Seq(Msgs)]: accepted and not yet delivered

Init == chan = [e \in Eps |-> <<>>]

Send(e, m) == chan' = [chan EXCEPT ![e] = Append(@, m)]

Deliver(e) == /\ chan[e] # <<>>
              /\ chan' = [chan EXCEPT ![e] = Tail(@)]

Next == \E e \in Eps : Deliver(e) \/ \E m \in Msgs : Send(e, m)

\* Nothing lost, duplicated, reordered or made up; and everything is delivered.
SafeSpec == Init /\ [][Next]_chan
Spec == SafeSpec /\ \A e \in Eps : WF_chan(Deliver(e))
=============================================================================
