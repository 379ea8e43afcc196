--------------------------- MODULE TxFifoRamProofs ---------------------------
(***************************************************************************)
(* Whatever sizes the endpoints ask for and whenever the bus is reset, one *)
(* SET_CONFIGURATION lays the FIFOs out without overlap.  The endpoints it *)
(* has laid out are in ascending order in the RAM, behind endpoint 0; if   *)
(* there are any, the last one configured is among them, and otherwise its *)
(* register has the value a reset gives it, which is behind endpoint 0 too.*)
(***************************************************************************)
EXTENDS TxFifoRam, TLAPS

FixedFifos  == sa[0] = Ep0Start /\ fd[0] = Words(Ep0Len)
LaidIsDone  == laid \subseteq 1 .. done /\ (laid # {} => done \in laid)
OthersReset == \A i \in 1 .. done : i \notin laid => sa[i] = ResetStart(i) /\ fd[i] = ResetDepth
LaidOrdered == /\ \A i \in laid : End(0) <= sa[i]
               /\ \A i, j \in laid : i < j => End(i) <= sa[j]
WriteBehind == pc = "write" => \A i \in laid \cup {0} : End(i) <= fsa

FifoInv == FifoTypeOK /\ FixedFifos /\ LaidIsDone /\ OthersReset /\ LaidOrdered /\ WriteBehind

\* Words and Aligned are natural numbers; Aligned rounds up to a multiple of four.
LEMMA Arithmetic == \A n \in Nat :
    /\ Words(n) \in Nat
    /\ Aligned(n) \in Nat /\ Aligned(n) >= n /\ Aligned(n) % 4 = 0
  BY SMT DEF Words, Aligned

\* The reset values are natural numbers, aligned, and behind endpoint 0's FIFO.
LEMMA ResetValues == \A e \in InEps :
    /\ ResetStart(e) \in Nat /\ ResetStart(e) % 4 = 0 /\ ResetStart(1) <= ResetStart(e)
    /\ ResetDepth \in Nat
  BY FifoAssumption, SMT DEF ResetStart, ResetDepth, InEps

\* The initial layout satisfies the invariant.
LEMMA FifoInvInit == Init => FifoInv
<1> SUFFICES ASSUME Init PROVE FifoInv
  OBVIOUS
<1>1. Ep0Start \in Nat /\ Ep0Start % 4 = 0 /\ Words(Ep0Len) \in Nat
  BY FifoAssumption, Arithmetic DEF Ep0Start
<1>2. FifoTypeOK
  <2>1. \A e \in AllEps : e = 0 \/ e \in InEps
    BY FifoAssumption DEF AllEps, InEps
  <2>2. sa \in [AllEps -> Nat] /\ fd \in [AllEps -> Nat]
    BY <1>1, <2>1, ResetValues DEF Init
  <2>3. \A e \in AllEps : sa[e] % 4 = 0
    BY <1>1, <2>1, ResetValues DEF Init
  <2> QED
    <3>1. 0 \in AllEps /\ 0 \in Nat
      BY FifoAssumption DEF AllEps
    <3>2. act = {} /\ laid = {} /\ done = 0 /\ pc = "read" /\ fsa = 0 /\ len = 0
      BY DEF Init
    <3> QED
      BY <2>2, <2>3, <3>1, <3>2 DEF FifoTypeOK
<1>3. FixedFifos /\ LaidIsDone /\ OthersReset /\ LaidOrdered /\ WriteBehind
  BY FifoAssumption DEF Init, FixedFifos, LaidIsDone, OthersReset, LaidOrdered, WriteBehind, AllEps
<1> QED
  BY <1>2, <1>3 DEF FifoInv

\* Endpoint 0's FIFO ends where its size says, before the first reset value.
LEMMA Ep0End == ASSUME FifoInv PROVE End(0) \in Nat /\ End(0) <= ResetStart(1)
<1>1. End(0) = Ep0Start + Words(Ep0Len)
  BY DEF FifoInv, FixedFifos, End
<1>2. Ep0Start \in Nat /\ Words(Ep0Len) \in Nat
  BY FifoAssumption, Arithmetic DEF Ep0Start
<1> QED
  BY <1>1, <1>2, FifoAssumption

\* The end of the FIFO of the last endpoint configured is behind all that are laid.
LEMMA LastIsBehind ==
    ASSUME FifoInv PROVE End(done) \in Nat /\ \A i \in laid \cup {0} : End(i) <= End(done)
<1> USE DEF FifoInv
<1>1. \A e \in AllEps : sa[e] \in Nat /\ fd[e] \in Nat /\ End(e) \in Nat /\ sa[e] <= End(e)
  BY DEF FifoTypeOK, End
<1>2. done \in AllEps /\ done \in Nat /\ 0 \in AllEps
  BY FifoAssumption DEF FifoTypeOK, AllEps
<1>3. laid \subseteq AllEps /\ \A i \in laid : i \in Nat /\ i <= done
  BY <1>2, FifoAssumption DEF FifoTypeOK, LaidIsDone, AllEps, InEps
<1>4. CASE done \in laid
  <2>1. \A i \in laid : i # done => End(i) <= sa[done]
    BY <1>2, <1>3, <1>4 DEF LaidOrdered
  <2>2. End(0) <= sa[done]
    BY <1>4 DEF LaidOrdered
  <2> QED
    BY <1>1, <1>2, <1>3, <2>1, <2>2
<1>5. CASE done \notin laid
  <2>1. laid = {}
    BY <1>5 DEF LaidIsDone
  <2>2. CASE done = 0
    BY <1>1, <1>2, <2>1, <2>2
  <2>3. CASE done # 0
    <3>1. done \in 1 .. done /\ done \in InEps
      BY <1>2, <2>3, FifoAssumption DEF AllEps, InEps
    <3>2. sa[done] = ResetStart(done)
      BY <1>5, <3>1 DEF OthersReset
    <3>3. ResetStart(1) <= sa[done] /\ ResetStart(1) \in Nat
      BY <3>1, <3>2, ResetValues, SMT DEF ResetStart
    <3>4. End(0) <= sa[done] /\ sa[done] <= End(done)
      BY <1>1, <1>2, <3>3, Ep0End
    <3> QED
      BY <1>1, <1>2, <2>1, <3>4
  <2> QED
    BY <2>2, <2>3
<1> QED
  BY <1>4, <1>5

\* Writing the next register keeps the order.
LEMMA WriteFifoKeeps == ASSUME FifoInv, WriteFifo PROVE FifoInv'
<1> USE DEF FifoInv
<1> DEFINE e == done + 1
<1>1. /\ pc = "write" /\ pc' = "read" /\ done' = e /\ laid' = laid \cup {e}
      /\ fsa' = fsa /\ len' = len /\ act' = act \cup {e}
      /\ sa' = [sa EXCEPT ![e] = Aligned(fsa)] /\ fd' = [fd EXCEPT ![e] = Words(len)]
  BY DEF WriteFifo
<1>2. e \in InEps /\ e \in AllEps /\ e # 0 /\ done \in Nat
  BY <1>1, FifoAssumption DEF FifoTypeOK, InEps, AllEps
<1>3. /\ Aligned(fsa) \in Nat /\ fsa \in Nat /\ Aligned(fsa) >= fsa /\ Aligned(fsa) % 4 = 0
      /\ Words(len) \in Nat
  BY Arithmetic DEF FifoTypeOK
<1>4. \A i \in AllEps : i # e => sa'[i] = sa[i] /\ fd'[i] = fd[i] /\ End(i)' = End(i)
  BY <1>1 DEF FifoTypeOK, End
<1>5. sa'[e] = Aligned(fsa) /\ fd'[e] = Words(len)
  BY <1>1, <1>2 DEF FifoTypeOK
<1>6. FifoTypeOK'
  <2>1. sa' \in [AllEps -> Nat] /\ fd' \in [AllEps -> Nat]
    BY <1>1, <1>2, <1>3 DEF FifoTypeOK
  <2>2. \A i \in AllEps : sa'[i] % 4 = 0
    BY <1>3, <1>4, <1>5 DEF FifoTypeOK
  <2> QED
    BY <1>1, <1>2, <2>1, <2>2 DEF FifoTypeOK, AllEps, InEps
<1>7. \A i \in laid \cup {0} : i \in AllEps /\ i < e
  BY <1>2, FifoAssumption DEF LaidIsDone, FifoTypeOK, AllEps, InEps
<1>8. \A i \in laid \cup {0} : End(i)' <= sa'[e]
  <2> TAKE i \in laid \cup {0}
  <2>1. End(i) <= fsa /\ i \in AllEps /\ i # e
    BY <1>1, <1>2, <1>7 DEF WriteBehind
  <2>2. End(i) \in Nat
    BY <2>1 DEF FifoTypeOK, End
  <2> QED
    BY <1>3, <1>4, <1>5, <2>1, <2>2
<1>9. FixedFifos' /\ LaidIsDone' /\ OthersReset' /\ WriteBehind'
  <2>1. FixedFifos'
    BY <1>2, <1>4, <1>7 DEF FixedFifos
  <2>2. LaidIsDone'
    BY <1>1, <1>2 DEF LaidIsDone
  <2>3. OthersReset'
    <3> SUFFICES ASSUME NEW i \in 1 .. e, i \notin laid, i # e
                 PROVE  sa'[i] = ResetStart(i) /\ fd'[i] = ResetDepth
      BY <1>1 DEF OthersReset
    <3>1. i \in 1 .. done /\ i \in AllEps
      BY <1>2, FifoAssumption DEF AllEps, InEps
    <3> QED
      BY <1>4, <3>1 DEF OthersReset
  <2> QED
    BY <1>1, <2>1, <2>2, <2>3 DEF WriteBehind
<1>10. LaidOrdered'
  <2>1. \A i \in laid : sa'[i] = sa[i] /\ End(i)' = End(i) /\ End(0)' = End(0) /\ i < e
    BY <1>2, <1>4, <1>7
  <2>2. \A i \in laid : End(0)' <= sa'[i]
    BY <2>1 DEF LaidOrdered
  <2>3. End(0)' <= sa'[e] /\ \A i \in laid : End(i)' <= sa'[e]
    BY <1>8
  <2>4. \A i, j \in laid : i < j => End(i)' <= sa'[j]
    BY <2>1 DEF LaidOrdered
  <2>5. \A i \in laid : ~(e < i)
    BY <1>2, <1>7 DEF AllEps
  <2>6. ~(e < e)
    BY <1>2
  <2> QED
    BY <1>1, <2>2, <2>3, <2>4, <2>5, <2>6 DEF LaidOrdered
<1> QED
  BY <1>6, <1>9, <1>10

\* Every step keeps the invariant.
LEMMA FifoInvStep == FifoInv /\ [Next]_vars => FifoInv'
<1> SUFFICES ASSUME FifoInv, [Next]_vars PROVE FifoInv'
  OBVIOUS
<1> USE DEF FifoInv
<1>1. ASSUME pc' = "read", done' = 0, laid' = {}, UNCHANGED <<sa, fd, act, fsa, len>>
      PROVE  FifoInv'
  <2>1. FifoTypeOK'
    BY <1>1, FifoAssumption DEF FifoTypeOK, AllEps
  <2>2. FixedFifos' /\ LaidIsDone' /\ WriteBehind'
    BY <1>1 DEF FixedFifos, LaidIsDone, WriteBehind
  <2>3. OthersReset' /\ LaidOrdered'
    BY <1>1 DEF OthersReset, LaidOrdered
  <2> QED
    BY <2>1, <2>2, <2>3
<1>2. CASE SetConfiguration
  BY <1>1, <1>2 DEF SetConfiguration
<1>3. CASE Refuse
  BY <1>1, <1>3 DEF Refuse
<1>4. CASE ReadPreceding
  <2>1. /\ fsa' = End(done) /\ pc' = "write" /\ done < MAX_NUM_EP
        /\ UNCHANGED <<sa, fd, act, done, laid>>
    BY <1>4 DEF ReadPreceding, Behind
  <2>2. len' \in Nat
    BY <1>4, FifoAssumption DEF ReadPreceding, FifoTypeOK, AllEps, InEps
  <2>3. fsa' \in Nat /\ \A i \in laid \cup {0} : End(i) <= fsa'
    BY <2>1, LastIsBehind
  <2>4. \A i : End(i)' = End(i)
    BY <2>1 DEF End
  <2>5. FifoTypeOK'
    BY <2>1, <2>2, <2>3 DEF FifoTypeOK
  <2>6. FixedFifos' /\ LaidIsDone' /\ OthersReset'
    BY <2>1 DEF FixedFifos, LaidIsDone, OthersReset
  <2>7. LaidOrdered' /\ WriteBehind'
    BY <2>1, <2>3, <2>4 DEF LaidOrdered, WriteBehind
  <2> QED
    BY <2>5, <2>6, <2>7
<1>5. CASE WriteFifo
  BY <1>5, WriteFifoKeeps
<1>6. CASE BusReset
  <2>1. /\ sa' = [e \in AllEps |-> IF e = 0 THEN sa[0] ELSE ResetStart(e)]
        /\ fd' = [e \in AllEps |-> IF e = 0 THEN fd[0] ELSE ResetDepth]
        /\ act' = {} /\ laid' = {} /\ UNCHANGED <<done, pc, fsa, len>>
    BY <1>6 DEF BusReset
  <2>2. 0 \in AllEps /\ \A e \in AllEps : e # 0 => e \in InEps
    BY FifoAssumption DEF AllEps, InEps
  <2>3. FifoTypeOK'
    BY <2>1, <2>2, ResetValues DEF FifoTypeOK
  <2>4. FixedFifos' /\ LaidIsDone' /\ LaidOrdered' /\ End(0)' = End(0)
    BY <2>1, <2>2 DEF FixedFifos, LaidIsDone, LaidOrdered, End
  <2>5. OthersReset'
    <3>1. \A i \in 1 .. done : i \in AllEps /\ i # 0
      BY FifoAssumption DEF FifoTypeOK, AllEps
    <3> QED
      BY <2>1, <3>1 DEF OthersReset
  <2>6. WriteBehind'
    BY <2>1, <2>4 DEF WriteBehind
  <2> QED
    BY <2>3, <2>4, <2>5, <2>6
<1>7. CASE UNCHANGED vars
  BY <1>7 DEF vars, FifoTypeOK, FixedFifos, LaidIsDone, OthersReset, LaidOrdered, WriteBehind, End
<1> QED
  BY <1>2, <1>3, <1>4, <1>5, <1>6, <1>7 DEF Next

\* The invariant implies that the FIFOs are apart.
LEMMA FifoInvApart == FifoInv => LaidFifosApart
<1> SUFFICES ASSUME FifoInv PROVE LaidFifosApart
  OBVIOUS
<1> USE DEF FifoInv
<1>1. \A i \in laid \cup {0} : i \in AllEps /\ i \in Nat /\ sa[i] \in Nat /\ End(i) \in Nat
  BY FifoAssumption DEF FifoTypeOK, AllEps, InEps, End
<1>2. RX_FIFO_SIZE <= sa[0] /\ sa[0] <= End(0)
  <2>1. RX_FIFO_SIZE <= sa[0]
    BY FifoAssumption, Arithmetic DEF FixedFifos, Ep0Start
  <2>2. sa[0] \in Nat /\ fd[0] \in Nat
    BY <1>1 DEF FifoTypeOK
  <2> QED
    BY <2>1, <2>2 DEF End
<1>3. \A i \in laid : End(0) <= sa[i]
  BY DEF LaidOrdered
<1>4. \A i \in laid \cup {0} : RX_FIFO_SIZE <= sa[i]
  BY <1>1, <1>2, <1>3, FifoAssumption
<1>5. \A i, j \in laid \cup {0} : i # j => Apart(i, j)
  <2> SUFFICES ASSUME NEW i \in laid \cup {0}, NEW j \in laid \cup {0}, i # j PROVE Apart(i, j)
    OBVIOUS
  <2>1. CASE i = 0 \/ j = 0
    BY <1>3, <2>1 DEF Apart
  <2>2. CASE i \in laid /\ j \in laid
    BY <1>1, <2>2 DEF LaidOrdered, Apart
  <2> QED
    BY <2>1, <2>2
<1> QED
  BY <1>4, <1>5 DEF LaidFifosApart

\* The registers keep their types and every start address is aligned.
THEOREM FifoTypeCorrect == Spec => []FifoTypeOK
<1>1. FifoInv => FifoTypeOK
  BY DEF FifoInv
<1> QED
  BY FifoInvInit, FifoInvStep, <1>1, PTL DEF Spec

\* The FIFOs laid out by one SET_CONFIGURATION never overlap: for any number of
\* endpoints, any sizes, and bus resets at any point of the computation.
THEOREM FifosNeverOverlap == Spec => []LaidFifosApart
  BY FifoInvInit, FifoInvStep, FifoInvApart, PTL DEF Spec
=============================================================================
