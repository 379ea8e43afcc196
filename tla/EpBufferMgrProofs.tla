-------------------------- MODULE EpBufferMgrProofs --------------------------
(***************************************************************************)
(* What the buffer manager's operations do to the conservation law: one    *)
(* lemma per way a buffer changes hands, for every pool, active buffer,    *)
(* queue and set of taken buffers.                                         *)
(***************************************************************************)
EXTENDS EpBufferMgr, FiniteSetTheorems, SequenceTheorems, TLAPS

(***************************************************************************)
(* Sequences as containers.                                                *)
(***************************************************************************)

\* Append adds one element, and keeps a container without duplicates so.
LEMMA AppendContains ==
    ASSUME NEW S, NEW s \in Seq(S), NEW x \in S
    PROVE  /\ Append(s, x) \in Seq(S)
           /\ Range(Append(s, x)) = Range(s) \cup {x}
           /\ IsInjective(s) /\ x \notin Range(s) => IsInjective(Append(s, x))
<1>1. /\ Append(s, x) \in Seq(S)
      /\ DOMAIN s = 1 .. Len(s) /\ Len(s) \in Nat
      /\ DOMAIN Append(s, x) = 1 .. Len(s) + 1
      /\ \A i \in 1 .. Len(s) : Append(s, x)[i] = s[i]
      /\ Append(s, x)[Len(s) + 1] = x
  OBVIOUS
<1>2. Range(Append(s, x)) = Range(s) \cup {x}
  <2>1. ASSUME NEW y \in Range(Append(s, x)) PROVE y \in Range(s) \cup {x}
    <3>1. PICK i \in 1 .. Len(s) + 1 : y = Append(s, x)[i]
      BY <1>1, <2>1 DEF Range
    <3>2. CASE i = Len(s) + 1
      BY <1>1, <3>1, <3>2
    <3>3. CASE i \in 1 .. Len(s)
      BY <1>1, <3>1, <3>3 DEF Range
    <3>. QED BY <1>1, <3>2, <3>3
  <2>2. ASSUME NEW y \in Range(s) PROVE y \in Range(Append(s, x))
    <3>1. PICK i \in 1 .. Len(s) : y = s[i]
      BY <1>1, <2>2 DEF Range
    <3>2. i \in 1 .. Len(s) + 1 /\ Append(s, x)[i] = y
      BY <1>1, <3>1
    <3>. QED BY <1>1, <3>2 DEF Range
  <2>3. x \in Range(Append(s, x))
    <3>1. Len(s) + 1 \in 1 .. Len(s) + 1
      BY <1>1
    <3>. QED BY <1>1, <3>1 DEF Range
  <2>. QED BY <2>1, <2>2, <2>3
<1>3. ASSUME IsInjective(s), x \notin Range(s)
      PROVE  IsInjective(Append(s, x))
  <2>. SUFFICES ASSUME NEW i \in 1 .. Len(s) + 1, NEW j \in 1 .. Len(s) + 1,
                       Append(s, x)[i] = Append(s, x)[j]
                PROVE  i = j
    BY <1>1 DEF IsInjective
  <2>1. CASE i \in 1 .. Len(s) /\ j \in 1 .. Len(s)
    BY <1>1, <1>3, <2>1 DEF IsInjective
  <2>2. CASE i = Len(s) + 1 /\ j \in 1 .. Len(s)
    BY <1>1, <1>3, <2>2 DEF Range
  <2>3. CASE i \in 1 .. Len(s) /\ j = Len(s) + 1
    BY <1>1, <1>3, <2>3 DEF Range
  <2>. QED BY <1>1, <2>1, <2>2, <2>3
<1>. QED BY <1>1, <1>2, <1>3

\* Tail removes exactly the head of a container without duplicates.
LEMMA TailContains ==
    ASSUME NEW S, NEW s \in Seq(S), s # <<>>
    PROVE  /\ Head(s) \in S /\ Tail(s) \in Seq(S)
           /\ Range(s) = Range(Tail(s)) \cup {Head(s)}
           /\ IsInjective(s) => IsInjective(Tail(s)) /\ Head(s) \notin Range(Tail(s))
<1>1. /\ Tail(s) \in Seq(S) /\ Head(s) \in S /\ Head(s) = s[1]
      /\ Len(s) \in Nat \ {0} /\ DOMAIN s = 1 .. Len(s)
      /\ DOMAIN Tail(s) = 1 .. Len(s) - 1
      /\ \A i \in 1 .. Len(s) - 1 : Tail(s)[i] = s[i + 1]
  BY EmptySeq, HeadTailProperties
<1>2. Range(s) = Range(Tail(s)) \cup {Head(s)}
  <2>1. ASSUME NEW y \in Range(s) PROVE y \in Range(Tail(s)) \cup {Head(s)}
    <3>1. PICK i \in 1 .. Len(s) : y = s[i]
      BY <1>1, <2>1 DEF Range
    <3>2. CASE i = 1
      BY <1>1, <3>1, <3>2
    <3>3. CASE i # 1
      <4>1. i - 1 \in 1 .. Len(s) - 1 /\ Tail(s)[i - 1] = y
        BY <1>1, <3>1, <3>3
      <4>. QED BY <1>1, <4>1 DEF Range
    <3>. QED BY <3>2, <3>3
  <2>2. ASSUME NEW y \in Range(Tail(s)) PROVE y \in Range(s)
    <3>1. PICK i \in 1 .. Len(s) - 1 : y = Tail(s)[i]
      BY <1>1, <2>2 DEF Range
    <3>2. i + 1 \in 1 .. Len(s) /\ s[i + 1] = y
      BY <1>1, <3>1
    <3>. QED BY <1>1, <3>2 DEF Range
  <2>3. Head(s) \in Range(s)
    <3>1. 1 \in 1 .. Len(s)
      BY <1>1
    <3>. QED BY <1>1, <3>1 DEF Range
  <2>. QED BY <2>1, <2>2, <2>3
<1>3. ASSUME IsInjective(s)
      PROVE  IsInjective(Tail(s)) /\ Head(s) \notin Range(Tail(s))
  <2>1. IsInjective(Tail(s))
    <3>. SUFFICES ASSUME NEW i \in 1 .. Len(s) - 1, NEW j \in 1 .. Len(s) - 1,
                         Tail(s)[i] = Tail(s)[j]
                  PROVE  i = j
      BY <1>1 DEF IsInjective
    <3>1. i + 1 \in 1 .. Len(s) /\ j + 1 \in 1 .. Len(s) /\ s[i + 1] = s[j + 1]
      BY <1>1
    <3>2. i + 1 = j + 1
      BY <1>1, <1>3, <3>1 DEF IsInjective
    <3>. QED BY <3>2
  <2>2. ASSUME Head(s) \in Range(Tail(s)) PROVE FALSE
    <3>1. PICK i \in 1 .. Len(s) - 1 : Head(s) = Tail(s)[i]
      BY <1>1, <2>2 DEF Range
    <3>2. 1 \in 1 .. Len(s) /\ i + 1 \in 1 .. Len(s) /\ s[1] = s[i + 1]
      BY <1>1, <3>1
    <3>3. 1 = i + 1
      BY <1>1, <1>3, <3>2 DEF IsInjective
    <3>. QED BY <3>3
  <2>. QED BY <2>1, <2>2
<1>. QED BY <1>1, <1>2, <1>3

\* An empty container.
LEMMA EmptyContains == Range(<<>>) = {} /\ IsInjective(<<>>)
  BY DEF Range, IsInjective

(***************************************************************************)
(* The ways a buffer changes hands.                                        *)
(***************************************************************************)

\* poll_allocate_buffer into the hands of a task.
LEMMA AllocateKeeps ==
    ASSUME NEW p \in Seq(Buffers), NEW a, NEW q \in Seq(Buffers), NEW out,
           Partition(p, a, q, out), p # <<>>
    PROVE  Partition(Tail(p), a, q, out \cup {Head(p)})
<1>1. /\ Range(p) = Range(Tail(p)) \cup {Head(p)}
      /\ IsInjective(Tail(p)) /\ Head(p) \notin Range(Tail(p))
  BY TailContains DEF Partition, NoneTwice
<1>. QED BY <1>1 DEF Partition, NoneTwice, Apart, NoneLost

\* poll_allocate_buffer and set_buffer in the interrupt handler.
LEMMA AllocateActiveKeeps ==
    ASSUME NEW p \in Seq(Buffers), NEW q \in Seq(Buffers), NEW out,
           Partition(p, NoBuf, q, out), p # <<>>
    PROVE  Partition(Tail(p), Head(p), q, out)
<1>1. /\ Range(p) = Range(Tail(p)) \cup {Head(p)}
      /\ IsInjective(Tail(p)) /\ Head(p) \notin Range(Tail(p))
  BY TailContains DEF Partition, NoneTwice
<1>. QED BY <1>1, BuffersAssumption DEF Partition, NoneTwice, Apart, NoneLost

\* release_buffer of a buffer a task has.
LEMMA ReleaseKeeps ==
    ASSUME NEW p \in Seq(Buffers), NEW a, NEW q \in Seq(Buffers), NEW out,
           Partition(p, a, q, out), NEW b \in Buffers, b \in out
    PROVE  Partition(Append(p, b), a, q, out \ {b})
<1>1. b \notin Range(p) /\ b \notin Range(q) /\ b # a
  BY DEF Partition, Apart
<1>2. Range(Append(p, b)) = Range(p) \cup {b} /\ IsInjective(Append(p, b))
  BY <1>1, AppendContains DEF Partition, NoneTwice
<1>. QED BY <1>1, <1>2 DEF Partition, NoneTwice, Apart, NoneLost

\* release_buffer of the active buffer.
LEMMA ReleaseActiveKeeps ==
    ASSUME NEW p \in Seq(Buffers), NEW a \in Buffers, NEW q \in Seq(Buffers), NEW out,
           Partition(p, a, q, out), NoBuf \notin out
    PROVE  Partition(Append(p, a), NoBuf, q, out)
<1>1. Range(Append(p, a)) = Range(p) \cup {a} /\ IsInjective(Append(p, a))
  BY AppendContains DEF Partition, NoneTwice, Apart
<1>2. NoBuf \notin Range(Append(p, a)) /\ NoBuf \notin Range(q)
  <2>1. Append(p, a) \in Seq(Buffers)
    BY AppendContains
  <2>. QED BY <2>1, BuffersAssumption DEF Range
<1>. QED BY <1>1, <1>2 DEF Partition, NoneTwice, Apart, NoneLost

\* set_buffer of a buffer a task has, when there is no active one.
LEMMA ActivateKeeps ==
    ASSUME NEW p, NEW q, NEW out, Partition(p, NoBuf, q, out),
           NEW b \in Buffers, b \in out
    PROVE  Partition(p, b, q, out \ {b})
  BY BuffersAssumption DEF Partition, NoneTwice, Apart, NoneLost

\* poll_enqueue_buffer of a buffer a task has.
LEMMA EnqueueKeeps ==
    ASSUME NEW p \in Seq(Buffers), NEW a, NEW q \in Seq(Buffers), NEW out,
           Partition(p, a, q, out), NEW b \in Buffers, b \in out
    PROVE  Partition(p, a, Append(q, b), out \ {b})
<1>1. b \notin Range(p) /\ b \notin Range(q) /\ b # a
  BY DEF Partition, Apart
<1>2. Range(Append(q, b)) = Range(q) \cup {b} /\ IsInjective(Append(q, b))
  BY <1>1, AppendContains DEF Partition, NoneTwice
<1>. QED BY <1>1, <1>2 DEF Partition, NoneTwice, Apart, NoneLost

\* poll_enqueue_buffer of the active buffer, which is then no longer active.
LEMMA EnqueueActiveKeeps ==
    ASSUME NEW p \in Seq(Buffers), NEW a \in Buffers, NEW q \in Seq(Buffers), NEW out,
           Partition(p, a, q, out), NoBuf \notin out
    PROVE  Partition(p, NoBuf, Append(q, a), out)
<1>1. Range(Append(q, a)) = Range(q) \cup {a} /\ IsInjective(Append(q, a))
  BY AppendContains DEF Partition, NoneTwice, Apart
<1>2. NoBuf \notin Range(p) /\ NoBuf \notin Range(Append(q, a))
  <2>1. Append(q, a) \in Seq(Buffers)
    BY AppendContains
  <2>. QED BY <2>1, BuffersAssumption DEF Range
<1>. QED BY <1>1, <1>2 DEF Partition, NoneTwice, Apart, NoneLost

\* poll_dequeue_buffer into the hands of a task.
LEMMA DequeueKeeps ==
    ASSUME NEW p \in Seq(Buffers), NEW a, NEW q \in Seq(Buffers), NEW out,
           Partition(p, a, q, out), q # <<>>
    PROVE  Partition(p, a, Tail(q), out \cup {Head(q)})
<1>1. /\ Range(q) = Range(Tail(q)) \cup {Head(q)}
      /\ IsInjective(Tail(q)) /\ Head(q) \notin Range(Tail(q))
  BY TailContains DEF Partition, NoneTwice
<1>. QED BY <1>1 DEF Partition, NoneTwice, Apart, NoneLost

\* poll_dequeue_buffer and set_buffer in the interrupt handler.
LEMMA DequeueActiveKeeps ==
    ASSUME NEW p \in Seq(Buffers), NEW q \in Seq(Buffers), NEW out,
           Partition(p, NoBuf, q, out), q # <<>>
    PROVE  Partition(p, Head(q), Tail(q), out)
<1>1. /\ Range(q) = Range(Tail(q)) \cup {Head(q)}
      /\ IsInjective(Tail(q)) /\ Head(q) \notin Range(Tail(q))
  BY TailContains DEF Partition, NoneTwice
<1>. QED BY <1>1, BuffersAssumption DEF Partition, NoneTwice, Apart, NoneLost

(***************************************************************************)
(* The queue is as long as there are buffers: while one of them is         *)
(* elsewhere it has room.                                                  *)
(***************************************************************************)
LEMMA QueueHasRoom ==
    ASSUME NEW q \in Seq(Buffers), IsInjective(q),
           NEW b \in Buffers, b \notin Range(q)
    PROVE  Len(q) < BUFFER_DEPTH
<1>1. IsFiniteSet(Buffers) /\ IsFiniteSet(Buffers \ {b})
      /\ Cardinality(Buffers) \in Nat
      /\ Cardinality(Buffers \ {b}) = Cardinality(Buffers) - 1
  BY BuffersAssumption, FS_RemoveElement, FS_CardinalityType
<1>2. q \in Injection(1 .. Len(q), Buffers \ {b})
  <2>1. DOMAIN q = 1 .. Len(q) /\ q \in [1 .. Len(q) -> Buffers]
    BY LenProperties
  <2>2. \A i \in 1 .. Len(q) : q[i] \in Buffers \ {b}
    BY <2>1 DEF Range
  <2>. QED BY <2>1, <2>2 DEF Injection
<1>3. Cardinality(1 .. Len(q)) <= Cardinality(Buffers \ {b})
  BY <1>1, <1>2, FS_Injection
<1>4. Len(q) \in Nat
  BY LenProperties
<1>5. Cardinality(1 .. Len(q)) = Len(q)
  <2>1. Cardinality(1 .. Len(q)) = IF 1 > Len(q) THEN 0 ELSE Len(q) - 1 + 1
    BY <1>4, FS_Interval
  <2>. QED BY <1>4, <2>1
<1>. QED BY <1>1, <1>3, <1>4, <1>5 DEF BUFFER_DEPTH

(***************************************************************************)
(* The manager after construction.                                         *)
(***************************************************************************)
LEMMA FreeListEnumerates ==
    /\ FreeList \in Seq(Buffers) /\ FreeList # <<>>
    /\ Range(FreeList) = Buffers /\ IsInjective(FreeList)
<1>1. BUFFER_DEPTH \in Nat /\ BUFFER_DEPTH # 0
  BY BuffersAssumption, FS_CardinalityType, FS_EmptySet DEF BUFFER_DEPTH
<1>2. PICK f : f \in Bijection(1 .. BUFFER_DEPTH, Buffers)
  BY BuffersAssumption, FS_CardinalityType DEF BUFFER_DEPTH, ExistsBijection
<1>3. f \in [1 .. BUFFER_DEPTH -> Buffers] /\ Range(f) = Buffers
  BY <1>2 DEF Bijection, Injection, Surjection, Range
<1>4. FreeList \in [1 .. BUFFER_DEPTH -> Buffers] /\ Range(FreeList) = Buffers
  BY <1>3 DEF FreeList
<1>5. FreeList \in Seq(Buffers) /\ FreeList # <<>>
  BY <1>1, <1>4
<1>6. FreeList \in Surjection(1 .. BUFFER_DEPTH, Buffers)
  BY <1>4 DEF Surjection, Range
<1>7. IsFiniteSet(1 .. BUFFER_DEPTH) /\ Cardinality(1 .. BUFFER_DEPTH) = Cardinality(Buffers)
  BY <1>1, FS_Interval DEF BUFFER_DEPTH
<1>8. FreeList \in Injection(1 .. BUFFER_DEPTH, Buffers)
  BY <1>6, <1>7, FS_SurjSameCardinalityImpliesInj
<1>. QED BY <1>4, <1>5, <1>8 DEF Injection

\* Every buffer free, or all but the one that was made active.
LEMMA InitialPartition ==
    /\ Partition(FreeList, NoBuf, <<>>, {})
    /\ Tail(FreeList) \in Seq(Buffers) /\ Head(FreeList) \in Buffers
    /\ Partition(Tail(FreeList), Head(FreeList), <<>>, {})
<1>1. Partition(FreeList, NoBuf, <<>>, {})
  BY FreeListEnumerates, EmptyContains, BuffersAssumption
     DEF Partition, NoneTwice, Apart, NoneLost
<1>2. Tail(FreeList) \in Seq(Buffers) /\ Head(FreeList) \in Buffers
  BY FreeListEnumerates, TailContains
<1>3. Partition(Tail(FreeList), Head(FreeList), <<>>, {})
  <2>1. <<>> \in Seq(Buffers)
    OBVIOUS
  <2>. QED BY <1>1, <2>1, FreeListEnumerates, AllocateActiveKeeps
<1>. QED BY <1>1, <1>2, <1>3

-----------------------------------------------------------------------------
(* How a queue of buffers q with contents d becomes a sequence of packets. *)

Carried(q, d) == [i \in DOMAIN q |-> d[q[i]]]

LEMMA CarriedIsSeq ==
    ASSUME NEW q \in Seq(Buffers), NEW M, NEW d \in [Buffers -> M]
    PROVE  /\ Carried(q, d) \in Seq(M) /\ Len(Carried(q, d)) = Len(q)
           /\ \A i \in 1 .. Len(q) : Carried(q, d)[i] = d[q[i]]
<1>1. Len(q) \in Nat /\ DOMAIN q = 1 .. Len(q) /\ \A i \in 1 .. Len(q) : q[i] \in Buffers
  BY LenProperties
<1>2. Carried(q, d) \in [1 .. Len(q) -> M]
  BY <1>1 DEF Carried
<1>3. Carried(q, d) \in Seq(M)
  BY <1>1, <1>2, SeqDef
<1>4. Len(Carried(q, d)) = Len(q)
  BY <1>1, <1>2, <1>3, LenProperties
<1>. QED BY <1>1, <1>3, <1>4 DEF Carried

LEMMA CarriedEmpty ==
    ASSUME NEW M, NEW d \in [Buffers -> M]
    PROVE  Carried(<<>>, d) = <<>>
<1>1. <<>> \in Seq(Buffers) /\ Len(<<>>) = 0
  BY EmptySeq
<1>2. Carried(<<>>, d) \in Seq(M) /\ Len(Carried(<<>>, d)) = 0
  BY <1>1, CarriedIsSeq
<1>. QED BY <1>2, EmptySeq

LEMMA CarriedAppend ==
    ASSUME NEW q \in Seq(Buffers), NEW b \in Buffers, NEW M, NEW d \in [Buffers -> M]
    PROVE  Carried(Append(q, b), d) = Append(Carried(q, d), d[b])
<1>1. /\ Append(q, b) \in Seq(Buffers) /\ Len(Append(q, b)) = Len(q) + 1 /\ Len(q) \in Nat
      /\ \A i \in 1 .. Len(q) : Append(q, b)[i] = q[i]
      /\ Append(q, b)[Len(q) + 1] = b
  BY AppendProperties, LenProperties
<1>2. /\ Carried(q, d) \in Seq(M) /\ Len(Carried(q, d)) = Len(q)
      /\ \A i \in 1 .. Len(q) : Carried(q, d)[i] = d[q[i]]
  BY CarriedIsSeq
<1>3. /\ Carried(Append(q, b), d) \in Seq(M) /\ Len(Carried(Append(q, b), d)) = Len(q) + 1
      /\ \A i \in 1 .. Len(q) + 1 : Carried(Append(q, b), d)[i] = d[Append(q, b)[i]]
  <2>. DEFINE a == Append(q, b)
  <2>1. a \in Seq(Buffers) /\ Len(a) = Len(q) + 1
    BY <1>1
  <2>. HIDE DEF a
  <2>2. /\ Carried(a, d) \in Seq(M) /\ Len(Carried(a, d)) = Len(q) + 1
        /\ \A i \in 1 .. Len(q) + 1 : Carried(a, d)[i] = d[a[i]]
    <3>1. /\ Carried(a, d) \in Seq(M) /\ Len(Carried(a, d)) = Len(a)
          /\ \A i \in 1 .. Len(a) : Carried(a, d)[i] = d[a[i]]
      BY <2>1, CarriedIsSeq
    <3>. QED BY <2>1, <3>1
  <2>. QED BY <2>2 DEF a
<1>4. /\ d[b] \in M /\ Append(Carried(q, d), d[b]) \in Seq(M)
      /\ Len(Append(Carried(q, d), d[b])) = Len(q) + 1
      /\ \A i \in 1 .. Len(q) : Append(Carried(q, d), d[b])[i] = Carried(q, d)[i]
      /\ Append(Carried(q, d), d[b])[Len(q) + 1] = d[b]
  BY <1>2, AppendProperties
<1>5. ASSUME NEW i \in 1 .. Len(q) + 1
      PROVE  Carried(Append(q, b), d)[i] = Append(Carried(q, d), d[b])[i]
  <2>1. CASE i \in 1 .. Len(q)
    BY <1>1, <1>2, <1>3, <1>4, <2>1
  <2>2. CASE i = Len(q) + 1
    BY <1>1, <1>3, <1>4, <2>2
  <2>3. i \in 1 .. Len(q) \/ i = Len(q) + 1
    BY <1>1
  <2>. QED BY <2>1, <2>2, <2>3
<1>. QED BY <1>3, <1>4, <1>5, SeqEqual

LEMMA CarriedHeadTail ==
    ASSUME NEW q \in Seq(Buffers), q # <<>>, NEW M, NEW d \in [Buffers -> M]
    PROVE  Carried(q, d) = <<d[Head(q)]>> \o Carried(Tail(q), d)
<1>1. /\ Tail(q) \in Seq(Buffers) /\ Len(Tail(q)) = Len(q) - 1 /\ Len(q) \in Nat \ {0}
      /\ Head(q) \in Buffers /\ Head(q) = q[1]
      /\ \A i \in 1 .. Len(q) - 1 : Tail(q)[i] = q[i + 1]
  BY HeadTailProperties, EmptySeq
<1>2. /\ Carried(q, d) \in Seq(M) /\ Len(Carried(q, d)) = Len(q)
      /\ \A i \in 1 .. Len(q) : Carried(q, d)[i] = d[q[i]]
  BY CarriedIsSeq
<1>3. /\ Carried(Tail(q), d) \in Seq(M) /\ Len(Carried(Tail(q), d)) = Len(q) - 1
      /\ \A i \in 1 .. Len(q) - 1 : Carried(Tail(q), d)[i] = d[Tail(q)[i]]
  <2>. DEFINE r == Tail(q)
  <2>1. r \in Seq(Buffers) /\ Len(r) = Len(q) - 1
    BY <1>1
  <2>. HIDE DEF r
  <2>2. /\ Carried(r, d) \in Seq(M) /\ Len(Carried(r, d)) = Len(q) - 1
        /\ \A i \in 1 .. Len(q) - 1 : Carried(r, d)[i] = d[r[i]]
    <3>1. /\ Carried(r, d) \in Seq(M) /\ Len(Carried(r, d)) = Len(r)
          /\ \A i \in 1 .. Len(r) : Carried(r, d)[i] = d[r[i]]
      BY <2>1, CarriedIsSeq
    <3>. QED BY <2>1, <3>1
  <2>. QED BY <2>2 DEF r
<1>4. <<d[Head(q)]>> \in Seq(M) /\ Len(<<d[Head(q)]>>) = 1 /\ <<d[Head(q)]>>[1] = d[Head(q)]
  BY <1>1
<1>5. /\ <<d[Head(q)]>> \o Carried(Tail(q), d) \in Seq(M)
      /\ Len(<<d[Head(q)]>> \o Carried(Tail(q), d)) = Len(q)
      /\ \A i \in 1 .. Len(q) : (<<d[Head(q)]>> \o Carried(Tail(q), d))[i] =
            IF i <= 1 THEN <<d[Head(q)]>>[i] ELSE Carried(Tail(q), d)[i - 1]
  <2>1. 1 + (Len(q) - 1) = Len(q)
    BY <1>1
  <2>. QED BY <1>3, <1>4, <2>1, ConcatProperties
<1>6. ASSUME NEW i \in 1 .. Len(q)
      PROVE  Carried(q, d)[i] = (<<d[Head(q)]>> \o Carried(Tail(q), d))[i]
  <2>1. CASE i = 1
    BY <1>1, <1>2, <1>4, <1>5, <2>1
  <2>2. CASE i # 1
    <3>1. i - 1 \in 1 .. Len(q) - 1 /\ ~(i <= 1) /\ (i - 1) + 1 = i
      BY <1>1, <2>2
    <3>2. Tail(q)[i - 1] = q[i]
      BY <1>1, <3>1
    <3>. QED BY <1>2, <1>3, <1>5, <3>1, <3>2
  <2>. QED BY <2>1, <2>2
<1>. QED BY <1>2, <1>5, <1>6, SeqEqual

\* Reading the loaded packet is taking the first message.
LEMMA TailOfLoaded ==
    ASSUME NEW M, NEW m \in M, NEW s \in Seq(M)
    PROVE  <<m>> \o s # <<>> /\ Tail(<<m>> \o s) = s
<1>1. <<m>> \in Seq(M) /\ Len(<<m>>) = 1 /\ Len(s) \in Nat
  BY LenProperties
<1>2. /\ <<m>> \o s \in Seq(M) /\ Len(<<m>> \o s) = 1 + Len(s)
      /\ \A i \in 1 .. 1 + Len(s) : (<<m>> \o s)[i] = IF i <= 1 THEN <<m>>[i] ELSE s[i - 1]
  BY <1>1, ConcatProperties
<1>3. <<m>> \o s # <<>>
  BY <1>1, <1>2, EmptySeq
<1>4. /\ Tail(<<m>> \o s) \in Seq(M) /\ Len(Tail(<<m>> \o s)) = Len(s)
      /\ \A i \in 1 .. Len(s) : Tail(<<m>> \o s)[i] = (<<m>> \o s)[i + 1]
  BY <1>1, <1>2, <1>3, HeadTailProperties
<1>5. ASSUME NEW i \in 1 .. Len(s) PROVE Tail(<<m>> \o s)[i] = s[i]
  <2>1. i + 1 \in 1 .. 1 + Len(s) /\ ~(i + 1 <= 1) /\ (i + 1) - 1 = i
    BY <1>1
  <2>. QED BY <1>2, <1>4, <2>1
<1>. QED BY <1>3, <1>4, <1>5, SeqEqual
=============================================================================
