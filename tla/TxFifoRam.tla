------------------------------ MODULE TxFifoRam ------------------------------
(***************************************************************************)
(* The FIFO RAM of the OTG core and who gets which part of it: the receive *)
(* FIFO first, then the transmit FIFO of endpoint 0, then those of the     *)
(* other IN endpoints, which config_ep_tx_fifo appends "in order, one      *)
(* after another" while the application's SET_CONFIGURATION callback calls *)
(* ep_config for each of them.  A bus reset rewrites the registers from    *)
(* the interrupt, also between the loop of config_ep_tx_fifo that reads    *)
(* them and the write.                                                     *)
(*                                                                         *)
(* A register holds a start address and a depth.  The depth is in words,   *)
(* and so is, for the hardware, the start address.                         *)
(***************************************************************************)
EXTENDS Naturals

CONSTANTS
    MAX_NUM_EP,       \* IN endpoints 1 .. MAX_NUM_EP
    RX_FIFO_SIZE,     \* words of the receive FIFO
    MAX_FIFO_LEN_U32, \* words of the RAM
    MAX_FIFO_LEN_U8,  \* bytes of the RAM
    Ep0Len,           \* bytes enable() asks for endpoint 0: 3*(64 + 8 + 4)
    Sizes             \* Sizes[e]: packet sizes endpoint e is configured with

VARIABLES
    sa, fd,  \* [0 .. MAX_NUM_EP -> Nat]: DIEPTXF0 and DIEPTXF[e - 1]
    act,     \* IN endpoints with USBAEP set
    done,    \* ep_config calls the callback has made
    pc, fsa, len, \* where config_ep_tx_fifo is, its fsa and fifo_len
    laid     \* history: endpoints given a FIFO by this callback, since the last reset

vars == <<sa, fd, act, done, pc, fsa, len, laid>>

AllEps == 0 .. MAX_NUM_EP
InEps  == 1 .. MAX_NUM_EP

\* ep_unconfig's values, and the first word after the FIFOs they describe begin.
ResetStart(e) == 512 + 512 * e
ResetDepth    == 512

Words(bytes) == (bytes + 3) \div 4
NotAligned(a) == a  \* a plausible bug: the start is not rounded up
Aligned(a) == IF a % 4 = 0 THEN a ELSE a + (4 - (a % 4))

Ep0Start == Aligned(RX_FIFO_SIZE)

\* Ep0Len is what config_ep_tx_fifo(0, ...) accepts, or enable() fails, and the
\* two fixed FIFOs end before the place the reset values give endpoint 1.
ASSUME FifoAssumption ==
    /\ MAX_NUM_EP \in Nat /\ RX_FIFO_SIZE \in Nat
    /\ MAX_FIFO_LEN_U8 \in Nat /\ MAX_FIFO_LEN_U32 \in Nat
    /\ Ep0Len \in 64 .. 1024 /\ Ep0Start + 4 * Words(Ep0Len) <= MAX_FIFO_LEN_U8
    /\ Ep0Start + Words(Ep0Len) <= ResetStart(1)
    /\ Sizes \in [InEps -> SUBSET Nat]

End(e) == sa[e] + fd[e]

\* Where the FIFO after that of endpoint e may start.
BehindStart(e) == sa[e]  \* a plausible bug: the depth is forgotten
Behind(e) == End(e)

\* After enable() and the first bus reset.
Init ==
    /\ sa = [e \in AllEps |-> IF e = 0 THEN Ep0Start ELSE ResetStart(e)]
    /\ fd = [e \in AllEps |-> IF e = 0 THEN Words(Ep0Len) ELSE ResetDepth]
    /\ act = {} /\ done = 0
    /\ pc = "read" /\ fsa = 0 /\ len = 0
    /\ laid = {}

\* SET_CONFIGURATION: the callback starts with endpoint 1, whatever was configured.
SetConfiguration ==
    /\ pc = "read"
    /\ done' = 0 /\ laid' = {}
    /\ UNCHANGED <<sa, fd, act, pc, fsa, len>>

\* ep_config of the next IN endpoint, up to the end of the loop that reads where
\* the preceding FIFO ends.  Less than 64 bytes are padded, more than 2048 refused.
ReadPreceding ==
    /\ pc = "read" /\ done < MAX_NUM_EP
    /\ \E bytes \in Sizes[done + 1] :
          /\ bytes <= 2048
          /\ len' = IF bytes < 64 THEN 64 ELSE bytes
    /\ fsa' = Behind(done)
    /\ pc' = "write"
    /\ UNCHANGED <<sa, fd, act, done, laid>>

\* What the code checks: a start in words and a length in bytes against the bytes
\* of the RAM.
Fits(start) == start + 4 * Words(len) <= MAX_FIFO_LEN_U8

\* Write the register, and the rest of ep_config.
WriteFifo ==
    /\ pc = "write" /\ Fits(Aligned(fsa))
    /\ sa' = [sa EXCEPT ![done + 1] = Aligned(fsa)]
    /\ fd' = [fd EXCEPT ![done + 1] = Words(len)]
    /\ act'  = act \cup {done + 1}
    /\ laid' = laid \cup {done + 1}
    /\ done' = done + 1
    /\ pc'   = "read"
    /\ UNCHANGED <<fsa, len>>

\* ep_config fails, the callback gives up and the request is refused.
Refuse ==
    /\ \/ pc = "write" /\ ~Fits(Aligned(fsa))
       \/ pc = "read" /\ done < MAX_NUM_EP /\ \E bytes \in Sizes[done + 1] : bytes > 2048
    /\ pc' = "read"
    /\ done' = 0 /\ laid' = {}
    /\ UNCHANGED <<sa, fd, act, fsa, len>>

\* handle_reset_done, from the interrupt: ep_unconfig of every endpoint.
BusReset ==
    /\ sa' = [e \in AllEps |-> IF e = 0 THEN sa[0] ELSE ResetStart(e)]
    /\ fd' = [e \in AllEps |-> IF e = 0 THEN fd[0] ELSE ResetDepth]
    /\ act' = {} /\ laid' = {}
    /\ UNCHANGED <<done, pc, fsa, len>>

Next == SetConfiguration \/ ReadPreceding \/ WriteFifo \/ Refuse \/ BusReset

Spec == Init /\ [][Next]_vars

-----------------------------------------------------------------------------
(* Properties. *)

\* Types, and every start address is aligned: "fsa must be 32bit aligned".
FifoTypeOK ==
    /\ sa \in [AllEps -> Nat] /\ fd \in [AllEps -> Nat]
    /\ act \subseteq InEps /\ laid \subseteq InEps
    /\ done \in AllEps
    /\ pc \in {"read", "write"} /\ fsa \in Nat /\ len \in Nat
    /\ pc = "write" => done < MAX_NUM_EP
    /\ \A e \in AllEps : sa[e] % 4 = 0

Apart(i, j) == End(i) <= sa[j] \/ End(j) <= sa[i]

\* The FIFOs one SET_CONFIGURATION lays out overlap neither each other nor the
\* receive FIFO nor that of endpoint 0, whatever sizes the endpoints ask for and
\* wherever a bus reset rewrites the registers the next one is computed from.
LaidFifosApart ==
    /\ \A i \in laid \cup {0} : RX_FIFO_SIZE <= sa[i]
    /\ \A i, j \in laid \cup {0} : i # j => Apart(i, j)

\* "uint32 * 1024, 4096B": a FIFO that config_ep_tx_fifo accepts lies in the RAM.
FifosFit == \A e \in laid \cup {0} : End(e) <= MAX_FIFO_LEN_U32
=============================================================================
