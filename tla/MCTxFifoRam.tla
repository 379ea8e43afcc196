----------------------------- MODULE MCTxFifoRam -----------------------------
(* Instances of TxFifoRam for TLC, with the constants of otghs2.  Packet     *)
(* sizes: padded, not a multiple of a word, the longest, refused.            *)
EXTENDS TxFifoRam

AnySizes   == [e \in InEps |-> {20, 66, 2048, 2100}]
BulkSizes  == [e \in InEps |-> {512}]
=============================================================================
