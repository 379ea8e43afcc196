----------------------------- MODULE EpBufferMgr -----------------------------
(***************************************************************************)
(* The endpoint buffer manager, EP_buffer_mgr_freertos.  Every endpoint    *)
(* has BUFFER_DEPTH preallocated buffers (an Object_pool), one active      *)
(* buffer (the one the USB core reads into or writes from) and a queue of  *)
(* buffers that carry data between the interrupt handler and the           *)
(* application.  The manager never copies a buffer: it moves pointers, so  *)
(* a buffer is in the pool, active, queued, or with whoever took it out.   *)
(*                                                                         *)
(* Every operator constrains only the primed variables it writes; the      *)
(* modules that extend this one conjoin them into their handlers.  The     *)
(* pool and the queue are FreeRTOS queues of pointers, hence sequences.    *)
(***************************************************************************)
EXTENDS Naturals, Sequences, FiniteSets, Functions

CONSTANTS
    Eps,      \* endpoint numbers the manager serves
    Buffers,  \* the buffers of one endpoint
    NoBuf     \* nullptr

ASSUME EpsAssumption == Eps \subseteq Nat
ASSUME BuffersAssumption ==
    /\ IsFiniteSet(Buffers)
    /\ Buffers # {}
    /\ NoBuf \notin Buffers

VARIABLES
    pool,    \* [Eps -> Seq(Buffers)]: m_ep_buffer, the free buffers
    active,  \* [Eps -> Buffers or NoBuf]: m_active_buffer
    queue    \* [Eps -> Seq(Buffers)]: m_app_buffer

mgrVars == <<pool, active, queue>>

BUFFER_DEPTH == Cardinality(Buffers)

MgrTypeOK ==
    /\ pool   \in [Eps -> Seq(Buffers)]
    /\ active \in [Eps -> Buffers \cup {NoBuf}]
    /\ queue  \in [Eps -> Seq(Buffers)]

\* The order of the free list after construction: any enumeration of Buffers.
FreeList == CHOOSE s \in [1 .. BUFFER_DEPTH -> Buffers] : Range(s) = Buffers

-----------------------------------------------------------------------------
(* Plausible bugs of the operations below, to show that the properties see   *)
(* them: an element looked at instead of taken, a buffer not given back, a   *)
(* queue filled from the wrong end.                                          *)
AllocatePeeks(ep)     == UNCHANGED pool
ReleaseForgets(ep, b) == UNCHANGED pool
DequeuePeeks(ep)      == UNCHANGED queue
EnqueueFirst(ep, b)   == queue' = [queue EXCEPT ![ep] = IF b = NoBuf THEN @ ELSE <<b>> \o @]

-----------------------------------------------------------------------------
SetBuffer(ep, b) == active' = [active EXCEPT ![ep] = b]

CanAllocate(ep) == pool[ep] # <<>>
Allocated(ep)   == IF CanAllocate(ep) THEN Head(pool[ep]) ELSE NoBuf
AllocateBuffer(ep) ==
    pool' = [pool EXCEPT ![ep] = IF CanAllocate(ep) THEN Tail(@) ELSE @]

\* Releasing nullptr is ignored.
ReleaseBuffer(ep, b) ==
    pool' = [pool EXCEPT ![ep] = IF b = NoBuf THEN @ ELSE Append(@, b)]

\* A full queue refuses the buffer, and so does the manager a nullptr.
CanEnqueue(ep, b) == b # NoBuf /\ Len(queue[ep]) < BUFFER_DEPTH
EnqueueBuffer(ep, b) ==
    queue' = [queue EXCEPT ![ep] = IF CanEnqueue(ep, b) THEN Append(@, b) ELSE @]

CanDequeue(ep) == queue[ep] # <<>>
Dequeued(ep)   == IF CanDequeue(ep) THEN Head(queue[ep]) ELSE NoBuf
DequeueBuffer(ep) ==
    queue' = [queue EXCEPT ![ep] = IF CanDequeue(ep) THEN Tail(@) ELSE @]

(***************************************************************************)
(* The conservation law, first for a pool p, an active buffer a and a      *)
(* queue q.  out is the set of buffers that are in nobody's container:     *)
(* those a task has taken and not given back.                              *)
(***************************************************************************)
NoneTwice(p, q) == IsInjective(p) /\ IsInjective(q)
Apart(p, a, q, out) ==
    /\ Range(p) \cap Range(q) = {}
    /\ a \notin Range(p) \cup Range(q) \cup out
    /\ out \cap (Range(p) \cup Range(q)) = {}
NoneLost(p, a, q, out) == Buffers \subseteq Range(p) \cup Range(q) \cup {a} \cup out
Partition(p, a, q, out) == NoneTwice(p, q) /\ Apart(p, a, q, out) /\ NoneLost(p, a, q, out)

Conserved(ep, out) == Partition(pool[ep], active[ep], queue[ep], out)
=============================================================================
