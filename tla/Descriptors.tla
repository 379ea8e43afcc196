----------------------------- MODULE Descriptors -----------------------------
(***************************************************************************)
(* The descriptor tables the application fills and GET_DESCRIPTOR reads.   *)
(* A descriptor is a name.  Ends[d] gives its list of nodes (a             *)
(* configuration is followed by its interface, class and endpoint          *)
(* descriptors) by the place where each node ends once serialized; the     *)
(* bytes of the whole are the units <<d, 1>>, <<d, 2>>, ...                *)
(*                                                                         *)
(* The tables have no lock.  The application changes them while the core's *)
(* thread is not inside a request (from its callbacks, or before connect). *)
(***************************************************************************)
EXTENDS Naturals, Sequences

CONSTANTS
    Keys,     \* <<type, language, index>>: where the application puts descriptors
    Descs,    \* Descs[k]: the descriptors it may put there
    Ends,     \* Ends[d]: where the nodes of d end, the first node's end first
    NoDesc,   \* no descriptor (a null pointer)
    NoLang,   \* the language of a descriptor that has none
    TxMax     \* capacity of m_tx_buffer, in units

AllDescs == UNION {Descs[k] : k \in Keys}

ASSUME DescriptorAssumption ==
    /\ NoDesc \notin AllDescs
    /\ TxMax \in Nat
    /\ \A d \in AllDescs : /\ Ends[d] \in Seq(Nat) /\ Ends[d] # <<>>
                          /\ \A j, k \in DOMAIN Ends[d] : j <= k => Ends[d][j] <= Ends[d][k]

\* m_dev_desc, m_config_table and m_string_table.
VARIABLE table

DescInit   == table = [k \in Keys |-> NoDesc]
DescTypeOK == /\ DOMAIN table = Keys
              /\ \A k \in Keys : table[k] \in Descs[k] \cup {NoDesc}

-----------------------------------------------------------------------------
(* The application. *)

\* std::map::insert leaves an entry that is already there; the pointer to the device
\* descriptor is replaced.
SetDescriptor(k, d) ==
    table' = [table EXCEPT ![k] = IF @ = NoDesc \/ k[1] = "DEVICE" THEN d ELSE @]

Application == \E k \in Keys : \E d \in Descs[k] : SetDescriptor(k, d)

-----------------------------------------------------------------------------
(* GET_DESCRIPTOR. *)

Shorter(a, b)  == IF a <= b THEN a ELSE b
Total(d)       == Ends[d][Len(Ends[d])]
Units(d, n)    == [i \in 1 .. n |-> <<d, i>>]

\* A plausible bug: the walk ends before a node that would go beyond n.
StopsShort(d, k, n) ==
    \/ k = Len(Ends[d])
    \/ Ends[d][k + 1] > n

\* The node after which the walk over a configuration's list ends when n units are
\* asked for: the last, or n is reached exactly, or the next does not fit.
Stops(d, k, n) ==
    \/ k = Len(Ends[d])
    \/ Ends[d][k] = n
    \/ Ends[d][k + 1] > TxMax
LastNode(d, n) ==
    CHOOSE k \in DOMAIN Ends[d] :
        Stops(d, k, n) /\ \A j \in 1 .. k - 1 : ~Stops(d, j, n)

\* What m_tx_buffer holds after config_desc was serialized: the head alone, or with
\* the nodes behind it when more than the head was asked for.
ConfigLength(d, n) == IF n <= Ends[d][1] THEN Ends[d][1] ELSE Ends[d][LastNode(d, n)]

\* The entry that is looked up for a type, an index (the device descriptor has none) and a
\* language (only strings have one).  The table of a language that has none is created and
\* empty: nothing can tell it from none.
Key(type, i, l) ==
    <<type, IF type = "STRING" THEN l ELSE NoLang, IF type = "DEVICE" THEN 0 ELSE i>>
Found(k) == IF k \in Keys THEN table[k] ELSE NoDesc

\* It is refused when there is none or when a configuration's head does not fit.
GetsDescriptor(k) ==
    /\ Found(k) # NoDesc
    /\ k[1] = "CONFIGURATION" => Ends[Found(k)][1] <= TxMax

\* What goes into m_tx_buffer when n units are asked for; a string is cut where the
\* buffer ends.
DescriptorLength(type, d, n) ==
    CASE type = "CONFIGURATION" -> ConfigLength(d, n)
      [] type = "DEVICE"        -> Shorter(Shorter(n, Total(d)), TxMax)
      [] OTHER                  -> Shorter(Total(d), TxMax)
Descriptor(k, n) == Units(Found(k), DescriptorLength(k[1], Found(k), n))
=============================================================================
