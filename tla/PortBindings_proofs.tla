------------------------ MODULE PortBindings_proofs ------------------------
(***************************************************************************)
(* Proofs about the port registry, for every set of ports and channels and *)
(* every size of the list and of the table.                                *)
(***************************************************************************)
EXTENDS PortBindings, SequenceTheorems, FiniteSetTheorems, WellFoundedInduction, TLAPS

\* The part of the inductive invariant about the table and the channel fields.  That
\* the channels of the table are distinct and that every channel field has its entry
\* depend on each other only through the functions that change both.
TableInv ==
    /\ sPortBinds \in Seq(Binding)
    /\ spChannel \in [StreamingPort -> BindChannel \cup {Unbound}]
    /\ TableWellFormed
    /\ ChannelIsBinding

ListInv ==
    /\ ports \in Seq(Port)
    /\ portCount \in Nat
    /\ result \in Status
    /\ BoundPortsListed

PortInv == TableInv /\ ListInv

-----------------------------------------------------------------------------
(* Operators                                                               *)

\* First returns the least element of any set of positions.
LEMMA FirstIsLeast ==
    ASSUME NEW S \in SUBSET Nat, S # {}
    PROVE  First(S) \in S /\ \A j \in S : First(S) <= j
<1> DEFINE R == StrictSubsetOrdering(Nat)
           T == {0..n : n \in S}
<1>1. T \subseteq FiniteSubsetsOf(Nat) /\ T # {}
    <2>1. ASSUME NEW n \in S
          PROVE  0..n \in FiniteSubsetsOf(Nat)
        <3>1. n \in Int /\ 0 \in Int
            OBVIOUS
        <3>2. IsFiniteSet(0..n)
            BY <3>1, FS_Interval
        <3>3. 0..n \in SUBSET Nat
            OBVIOUS
        <3> QED
            BY <3>2, <3>3 DEF FiniteSubsetsOf
    <2> QED
        BY <2>1
<1>2. PICK x \in T : \A y \in T : <<y, x>> \notin R
    <2>1. IsWellFoundedOn(R, FiniteSubsetsOf(Nat))
        BY FS_StrictSubsetOrderingWellFounded
    <2> HIDE DEF R, T
    <2> QED
        BY <1>1, <2>1, WFMin
<1>3. PICK i \in S : x = 0..i
    BY <1>2
<1>4. ASSUME NEW j \in S
      PROVE  i <= j
    <2>1. SUFFICES ASSUME j < i PROVE FALSE
        BY <1>3
    <2>2. 0..j \in T /\ 0..j \subseteq 0..i /\ 0..j # 0..i
        <3>1. i \in 0..i /\ i \notin 0..j
            BY <2>1
        <3> QED
            BY <2>1, <3>1
    <2>3. <<0..j, 0..i>> \in R
        BY <2>2 DEF StrictSubsetOrdering
    <2> QED
        BY <1>2, <1>3, <2>2, <2>3
<1> QED
    BY <1>4 DEF First

\* RemoveAt shifts the elements behind the removed one left by one.
LEMMA RemoveAtProperties ==
    ASSUME NEW S, NEW s \in Seq(S), NEW i \in 1..Len(s)
    PROVE  /\ RemoveAt(s, i) \in Seq(S)
           /\ Len(RemoveAt(s, i)) = Len(s) - 1
           /\ \A j \in 1..(Len(s) - 1) :
                 RemoveAt(s, i)[j] = IF j < i THEN s[j] ELSE s[j + 1]
<1> DEFINE a == SubSeq(s, 1, i - 1)
           b == SubSeq(s, i + 1, Len(s))
<1>0. Len(s) \in Nat /\ \A k \in 1..Len(s) : s[k] \in S
    BY LenProperties, ElementOfSeq
<1>1. /\ a \in Seq(S)
      /\ Len(a) = i - 1
      /\ \A j \in 1..(i - 1) : a[j] = s[j]
    <2>1. \A k \in 1..(i - 1) : s[k] \in S
        BY <1>0
    <2> QED
        BY <1>0, <2>1, SubSeqProperties
<1>2. /\ b \in Seq(S)
      /\ Len(b) = Len(s) - i
      /\ \A j \in 1..(Len(s) - i) : b[j] = s[j + i]
    <2>1. \A k \in (i + 1)..Len(s) : s[k] \in S
        BY <1>0
    <2>2. /\ b \in Seq(S)
          /\ Len(b) = IF i + 1 <= Len(s) THEN Len(s) - (i + 1) + 1 ELSE 0
          /\ \A j \in 1..(Len(s) - (i + 1) + 1) : b[j] = s[(i + 1) + j - 1]
        BY <1>0, <2>1, SubSeqProperties
    <2> QED
        BY <1>0, <2>2
<1>3. /\ a \o b \in Seq(S)
      /\ Len(a \o b) = Len(a) + Len(b)
      /\ \A j \in 1..(Len(a) + Len(b)) :
            (a \o b)[j] = IF j <= Len(a) THEN a[j] ELSE b[j - Len(a)]
    BY <1>1, <1>2, ConcatProperties
<1>4. RemoveAt(s, i) = a \o b
    BY DEF RemoveAt
<1> HIDE DEF a, b
<1>5. ASSUME NEW j \in 1..(Len(s) - 1)
      PROVE  (a \o b)[j] = IF j < i THEN s[j] ELSE s[j + 1]
    <2>1. CASE j < i
        BY <1>0, <1>1, <1>2, <1>3, <2>1
    <2>2. CASE ~(j < i)
        <3>1. (a \o b)[j] = b[j - (i - 1)]
            BY <1>0, <1>1, <1>2, <1>3, <2>2
        <3>2. j - (i - 1) \in 1..(Len(s) - i)
            BY <1>0, <2>2
        <3>3. (j - (i - 1)) + i = j + 1
            BY <1>0
        <3> QED
            BY <1>2, <2>2, <3>1, <3>2, <3>3
    <2> QED
        BY <2>1, <2>2
<1> QED
    BY <1>0, <1>1, <1>2, <1>3, <1>4, <1>5

-----------------------------------------------------------------------------
(* The functions of opdi_port.c and the table                              *)

\* The channel of a binding is never that of a port which is not bound.
LEMMA UnboundIsNoChannel == Unbound \notin BindChannel
    BY PortAssumption DEF PortAssumption, Unbound

\* opdi_bind_port keeps the table within its size and its channels distinct.
LEMMA BindKeepsTable ==
    ASSUME TableInv, NEW p \in Port, NEW c \in BindChannel, BindEffect(p, c)
    PROVE  TableInv'
<1>1. CASE BindStatus(p, c) = "OK" /\ BoundAt(c) = {}
    <2> DEFINE e == [channel |-> c, port |-> p]
    <2>1. p \in StreamingPort /\ Len(sPortBinds) < OPDI_STREAMING_PORTS
        <3>1. p \in StreamingPort
            BY <1>1 DEF BindStatus
        <3>2. BindStatus(p, c) = IF Len(sPortBinds) >= OPDI_STREAMING_PORTS
                                 THEN "TOO_MANY_BINDINGS" ELSE "OK"
            BY <1>1, <3>1 DEF BindStatus
        <3>3. Len(sPortBinds) \in Nat
            BY LenProperties DEF TableInv
        <3> QED
            BY <1>1, <3>1, <3>2, <3>3, PortAssumption DEF PortAssumption
    <2>2. /\ sPortBinds' = Append(sPortBinds, e)
          /\ spChannel' = [spChannel EXCEPT ![p] = c]
        BY <1>1 DEF BindEffect
    <2>3. e \in Binding
        BY <2>1 DEF Binding
    <2>4. /\ sPortBinds' \in Seq(Binding)
          /\ Len(sPortBinds') = Len(sPortBinds) + 1
          /\ \A i \in 1..Len(sPortBinds) : sPortBinds'[i] = sPortBinds[i]
          /\ sPortBinds'[Len(sPortBinds) + 1] = e
          /\ Len(sPortBinds) \in Nat
        BY <2>2, <2>3, AppendProperties, LenProperties DEF TableInv
    <2>5. \A i \in 1..Len(sPortBinds) : sPortBinds[i].channel # c
        BY <1>1, <2>4 DEF BoundAt, TableInv
    <2>6. TableWellFormed'
        <3>1. Len(sPortBinds') <= OPDI_STREAMING_PORTS
            BY <2>1, <2>4, PortAssumption DEF PortAssumption
        <3>2. ASSUME NEW i \in 1..Len(sPortBinds'), NEW j \in 1..Len(sPortBinds'),
                     sPortBinds'[i].channel = sPortBinds'[j].channel
              PROVE  i = j
            <4>1. CASE i \in 1..Len(sPortBinds) /\ j \in 1..Len(sPortBinds)
                BY <2>4, <3>2, <4>1 DEF TableInv, TableWellFormed
            <4>2. CASE i = Len(sPortBinds) + 1 \/ j = Len(sPortBinds) + 1
                BY <2>4, <2>5, <3>2, <4>2
            <4> QED
                BY <2>4, <4>1, <4>2
        <3> QED
            BY <2>4, <3>1, <3>2 DEF TableWellFormed
    <2>7. spChannel' \in [StreamingPort -> BindChannel \cup {Unbound}]
        BY <2>2 DEF TableInv
    <2>8. ChannelIsBinding'
        <3> SUFFICES ASSUME NEW q \in StreamingPort, spChannel'[q] # Unbound
                     PROVE  \E i \in DOMAIN sPortBinds' :
                               sPortBinds'[i] = [channel |-> spChannel'[q], port |-> q]
            BY DEF ChannelIsBinding
        <3>1. CASE q = p
            <4>1. spChannel'[q] = c
                BY <2>1, <2>2, <3>1 DEF TableInv
            <4>2. Len(sPortBinds) + 1 \in DOMAIN sPortBinds'
                BY <2>4
            <4> QED
                BY <2>4, <3>1, <4>1, <4>2
        <3>2. CASE q # p
            <4>1. spChannel'[q] = spChannel[q]
                BY <2>2, <3>2 DEF TableInv
            <4>2. PICK i \in DOMAIN sPortBinds :
                     sPortBinds[i] = [channel |-> spChannel[q], port |-> q]
                BY <4>1 DEF TableInv, ChannelIsBinding
            <4>3. i \in 1..Len(sPortBinds) /\ i \in DOMAIN sPortBinds'
                BY <2>4 DEF TableInv
            <4> QED
                BY <2>4, <4>1, <4>2, <4>3
        <3> QED
            BY <3>1, <3>2
    <2> QED
        BY <2>4, <2>6, <2>7, <2>8 DEF TableInv
<1>2. CASE ~(BindStatus(p, c) = "OK" /\ BoundAt(c) = {})
    BY <1>2 DEF BindEffect, bindVars, TableInv, TableWellFormed, ChannelIsBinding
<1> QED
    BY <1>1, <1>2

\* opdi_unbind_port removes one entry, that of the port whose field it clears.
LEMMA UnbindKeepsTable ==
    ASSUME TableInv, NEW p \in Port, UnbindEffect(p)
    PROVE  TableInv'
<1>1. CASE p \in StreamingPort /\ SlotsOf(p) # {}
    <2> DEFINE k == First(SlotsOf(p))
               n == Len(sPortBinds)
    <2>1. sPortBinds \in Seq(Binding) /\ n \in Nat /\ DOMAIN sPortBinds = 1..n
        BY LenProperties DEF TableInv
    <2>2. k \in 1..n /\ sPortBinds[k].port = p
        <3>1. SlotsOf(p) \in SUBSET Nat
            BY <2>1 DEF SlotsOf
        <3>2. k \in SlotsOf(p)
            BY <1>1, <3>1, FirstIsLeast
        <3> QED
            BY <2>1, <3>2 DEF SlotsOf
    <2>3. /\ sPortBinds' = RemoveAt(sPortBinds, k)
          /\ spChannel' = [spChannel EXCEPT ![p] = Unbound]
        BY <1>1 DEF UnbindEffect
    <2> HIDE DEF k
    <2>4. /\ sPortBinds' \in Seq(Binding)
          /\ Len(sPortBinds') = n - 1
          /\ \A j \in 1..(n - 1) :
                sPortBinds'[j] = IF j < k THEN sPortBinds[j] ELSE sPortBinds[j + 1]
        BY <2>1, <2>2, <2>3, RemoveAtProperties
    <2>5. DOMAIN sPortBinds' = 1..(n - 1)
        BY <2>4, LenProperties
    <2>6. TableWellFormed'
        <3>1. Len(sPortBinds') <= OPDI_STREAMING_PORTS
            BY <2>1, <2>4, PortAssumption DEF PortAssumption, TableInv, TableWellFormed
        <3>2. ASSUME NEW i \in 1..(n - 1), NEW j \in 1..(n - 1),
                     sPortBinds'[i].channel = sPortBinds'[j].channel
              PROVE  i = j
            <4> DEFINE old(x) == IF x < k THEN x ELSE x + 1
            <4>1. old(i) \in 1..n /\ old(j) \in 1..n
                BY <2>1, <2>2
            <4>2. sPortBinds'[i] = sPortBinds[old(i)] /\ sPortBinds'[j] = sPortBinds[old(j)]
                BY <2>4
            <4>3. old(i) = old(j)
                BY <2>1, <3>2, <4>1, <4>2 DEF TableInv, TableWellFormed
            <4> QED
                BY <2>1, <2>2, <4>3
        <3> QED
            BY <2>5, <3>1, <3>2 DEF TableWellFormed
    <2>7. spChannel' \in [StreamingPort -> BindChannel \cup {Unbound}]
        BY <2>3 DEF TableInv
    <2>8. ChannelIsBinding'
        <3> SUFFICES ASSUME NEW q \in StreamingPort, spChannel'[q] # Unbound
                     PROVE  \E i \in DOMAIN sPortBinds' :
                               sPortBinds'[i] = [channel |-> spChannel'[q], port |-> q]
            BY DEF ChannelIsBinding
        <3>1. q # p /\ spChannel'[q] = spChannel[q]
            BY <1>1, <2>3 DEF TableInv
        <3>2. PICK i \in 1..n : sPortBinds[i] = [channel |-> spChannel[q], port |-> q]
            BY <2>1, <3>1 DEF TableInv, ChannelIsBinding
        <3>3. i # k
            BY <2>2, <3>1, <3>2
        <3>4. CASE i < k
            <4>1. i \in 1..(n - 1)
                BY <2>1, <2>2, <3>4
            <4> QED
                BY <2>4, <2>5, <3>1, <3>2, <3>4, <4>1
        <3>5. CASE i > k
            <4>1. i - 1 \in 1..(n - 1) /\ ~(i - 1 < k) /\ (i - 1) + 1 = i
                BY <2>1, <2>2, <3>5
            <4>2. sPortBinds'[i - 1] = sPortBinds[i]
                BY <2>4, <4>1
            <4> QED
                BY <2>5, <3>1, <3>2, <4>1, <4>2
        <3> QED
            BY <2>1, <2>2, <3>3, <3>4, <3>5
    <2> QED
        BY <2>4, <2>6, <2>7, <2>8 DEF TableInv
<1>2. CASE ~(p \in StreamingPort /\ SlotsOf(p) # {})
    BY <1>2 DEF UnbindEffect, bindVars, TableInv, TableWellFormed, ChannelIsBinding
<1> QED
    BY <1>1, <1>2

\* opdi_reset_bindings leaves no channel field set: those it does not clear belong to
\* ports without an entry, whose field is clear already.
LEMMA ClearUnbinds ==
    ASSUME TableInv, ClearBindings
    PROVE  sPortBinds' = <<>> /\ spChannel' = [p \in StreamingPort |-> Unbound]
<1>1. ASSUME NEW p \in StreamingPort, SlotsOf(p) = {}
      PROVE  spChannel[p] = Unbound
    <2>1. SUFFICES ASSUME spChannel[p] # Unbound PROVE FALSE
        OBVIOUS
    <2>2. PICK i \in DOMAIN sPortBinds :
             sPortBinds[i] = [channel |-> spChannel[p], port |-> p]
        BY <2>1 DEF TableInv, ChannelIsBinding
    <2> QED
        BY <1>1, <2>2 DEF SlotsOf
<1> QED
    BY <1>1 DEF ClearBindings

\* opdi_reset_bindings leaves an empty table, which is well formed whatever lies beyond it.
LEMMA ClearKeepsTable ==
    ASSUME TableInv, ClearBindings
    PROVE  TableInv'
<1>1. sPortBinds' = <<>> /\ spChannel' = [p \in StreamingPort |-> Unbound]
    BY ClearUnbinds
<1>2. sPortBinds' \in Seq(Binding) /\ Len(sPortBinds') = 0 /\ DOMAIN sPortBinds' = {}
    BY <1>1
<1>3. TableWellFormed'
    BY <1>2, PortAssumption DEF TableWellFormed, PortAssumption
<1>4. ChannelIsBinding'
    BY <1>1 DEF ChannelIsBinding
<1> QED
    BY <1>1, <1>2, <1>3, <1>4 DEF TableInv

-----------------------------------------------------------------------------
(* The invariant                                                           *)

\* The registry starts with an empty list and an empty table, where the invariant holds.
LEMMA InitPortInv == PortInit => PortInv
<1> SUFFICES ASSUME PortInit PROVE PortInv
    OBVIOUS
<1>1. sPortBinds \in Seq(Binding) /\ ports \in Seq(Port)
    BY DEF PortInit
<1>2. TableWellFormed /\ BoundPortsListed
    BY PortAssumption DEF PortInit, TableWellFormed, BoundPortsListed, PortAssumption
<1>3. ChannelIsBinding
    BY DEF PortInit, ChannelIsBinding
<1> QED
    BY <1>1, <1>2, <1>3 DEF PortInit, PortInv, TableInv, ListInv, Status

\* What a bind adds to the table is the port it was called with.
LEMMA BindKeepsListed ==
    ASSUME TableInv, BoundPortsListed, NEW p \in Listed, NEW c \in BindChannel,
           BindEffect(p, c), UNCHANGED ports
    PROVE  BoundPortsListed'
<1>1. Listed' = Listed
    BY DEF Listed
<1>2. CASE UNCHANGED bindVars
    BY <1>1, <1>2 DEF BoundPortsListed, bindVars
<1>3. CASE sPortBinds' = Append(sPortBinds, [channel |-> c, port |-> p])
    <2>1. Len(sPortBinds) \in Nat /\ DOMAIN sPortBinds = 1..Len(sPortBinds)
        BY LenProperties DEF TableInv
    <2>2. DOMAIN sPortBinds' = 1..(Len(sPortBinds) + 1)
        BY <1>3, <2>1
    <2>3. ASSUME NEW i \in 1..Len(sPortBinds)
          PROVE  sPortBinds'[i].port \in Listed
        BY <1>3, <2>1, <2>3 DEF BoundPortsListed
    <2>4. sPortBinds'[Len(sPortBinds) + 1].port = p
        BY <1>3, <2>1
    <2> QED
        BY <1>1, <2>1, <2>2, <2>3, <2>4 DEF BoundPortsListed
<1> QED
    BY <1>2, <1>3 DEF BindEffect

\* What an unbind leaves in the table was in it before.
LEMMA UnbindKeepsListed ==
    ASSUME TableInv, BoundPortsListed, NEW p \in Port, UnbindEffect(p), UNCHANGED ports
    PROVE  BoundPortsListed'
<1>1. Listed' = Listed
    BY DEF Listed
<1>2. CASE UNCHANGED bindVars
    BY <1>1, <1>2 DEF BoundPortsListed, bindVars
<1>3. CASE SlotsOf(p) # {} /\ sPortBinds' = RemoveAt(sPortBinds, First(SlotsOf(p)))
    <2> DEFINE k == First(SlotsOf(p))
               n == Len(sPortBinds)
    <2>1. sPortBinds \in Seq(Binding) /\ n \in Nat /\ DOMAIN sPortBinds = 1..n
        BY LenProperties DEF TableInv
    <2>2. k \in 1..n
        <3>1. SlotsOf(p) \in SUBSET Nat /\ SlotsOf(p) \subseteq 1..n
            BY <2>1 DEF SlotsOf
        <3> QED
            BY <1>3, <3>1, FirstIsLeast
    <2> HIDE DEF k
    <2>3. /\ sPortBinds' \in Seq(Binding)
          /\ Len(sPortBinds') = n - 1
          /\ \A j \in 1..(n - 1) :
                sPortBinds'[j] = IF j < k THEN sPortBinds[j] ELSE sPortBinds[j + 1]
        BY <1>3, <2>1, <2>2, RemoveAtProperties DEF k
    <2>4. ASSUME NEW j \in 1..(n - 1)
          PROVE  sPortBinds'[j].port \in Listed
        <3>1. j \in 1..n /\ j + 1 \in 1..n
            BY <2>1
        <3> QED
            BY <2>1, <2>3, <3>1 DEF BoundPortsListed
    <2>5. DOMAIN sPortBinds' = 1..(n - 1)
        BY <2>3, LenProperties
    <2> QED
        BY <1>1, <2>4, <2>5 DEF BoundPortsListed
<1> QED
    BY <1>2, <1>3 DEF UnbindEffect

\* The invariant is inductive: every function of opdi_port.c preserves it.
LEMMA NextPortInv == PortInv /\ [PortNext]_portVars => PortInv'
<1> SUFFICES ASSUME PortInv, [PortNext]_portVars PROVE PortInv'
    OBVIOUS
<1> USE DEF PortInv
<1>1. ASSUME NEW p \in Port, opdi_add_port(p)
      PROVE  PortInv'
    <2>1. TableInv'
        BY <1>1 DEF opdi_add_port, bindVars, TableInv, TableWellFormed, ChannelIsBinding
    <2>2. portCount' \in Nat /\ result' \in Status
        BY <1>1 DEF opdi_add_port, ListInv, Status
    <2>3. ports' \in Seq(Port) /\ Listed \subseteq Listed'
        <3>1. CASE UNCHANGED ports
            BY <3>1 DEF ListInv, Listed
        <3>2. CASE ports' = Append(ports, p)
            <4>1. /\ ports' \in Seq(Port)
                  /\ Len(ports') = Len(ports) + 1
                  /\ \A i \in 1..Len(ports) : ports'[i] = ports[i]
                BY <3>2, AppendProperties DEF ListInv
            <4>2. DOMAIN ports \subseteq DOMAIN ports'
                BY <4>1, LenProperties DEF ListInv
            <4>3. DOMAIN ports = 1..Len(ports)
                BY LenProperties DEF ListInv
            <4> QED
                BY <4>1, <4>2, <4>3 DEF Listed
        <3> QED
            BY <1>1, <3>1, <3>2 DEF opdi_add_port
    <2>4. BoundPortsListed'
        BY <1>1, <2>3 DEF opdi_add_port, bindVars, ListInv, BoundPortsListed
    <2> QED
        BY <2>1, <2>2, <2>3, <2>4 DEF ListInv
<1>2. ASSUME NEW p \in Listed, NEW c \in BindChannel, opdi_bind_port(p, c)
      PROVE  PortInv'
    <2>1. p \in Port
        BY DEF ListInv, Listed
    <2>2. TableInv'
        BY <1>2, <2>1, BindKeepsTable DEF opdi_bind_port
    <2>3. BoundPortsListed'
        BY <1>2, BindKeepsListed DEF opdi_bind_port, listVars, ListInv
    <2>4. result' \in Status
        <3>1. BindStatus(p, c) \in {"WRONG_PORT_TYPE", "OK", "CHANNEL_INVALID",
                                    "TOO_MANY_BINDINGS"}
            BY DEF BindStatus
        <3> QED
            BY <1>2, <3>1 DEF opdi_bind_port, Status
    <2> QED
        BY <1>2, <2>2, <2>3, <2>4 DEF opdi_bind_port, listVars, ListInv
<1>3. ASSUME NEW p \in Listed, opdi_unbind_port(p)
      PROVE  PortInv'
    <2>1. p \in Port
        BY DEF ListInv, Listed
    <2>2. TableInv'
        BY <1>3, <2>1, UnbindKeepsTable DEF opdi_unbind_port
    <2>3. BoundPortsListed'
        BY <1>3, <2>1, UnbindKeepsListed DEF opdi_unbind_port, listVars, ListInv
    <2>4. result' \in Status
        BY <1>3 DEF opdi_unbind_port, UnbindStatus, Status
    <2> QED
        BY <1>3, <2>2, <2>3, <2>4 DEF opdi_unbind_port, listVars, ListInv
<1>4. CASE opdi_reset_bindings
    <2>1. TableInv' /\ sPortBinds' = <<>>
        BY <1>4, ClearKeepsTable, ClearUnbinds DEF opdi_reset_bindings
    <2> QED
        BY <1>4, <2>1 DEF opdi_reset_bindings, listVars, ListInv, BoundPortsListed, Status
<1>5. CASE opdi_clear_ports
    <2>1. TableInv' /\ sPortBinds' = <<>>
        BY <1>5, ClearKeepsTable, ClearUnbinds DEF opdi_clear_ports
    <2>2. ports' \in Seq(Port)
        BY <1>5 DEF opdi_clear_ports
    <2> QED
        BY <1>5, <2>1, <2>2 DEF opdi_clear_ports, ListInv, BoundPortsListed, Status
<1>6. CASE UNCHANGED portVars
    BY <1>6 DEF portVars, TableInv, ListInv, TableWellFormed, ChannelIsBinding,
                BoundPortsListed, Listed
<1> QED
    BY <1>1, <1>2, <1>3, <1>4, <1>5, <1>6 DEF PortNext

\* The table stays well formed, the channel fields stay backed by it and every bound
\* port stays offered, whatever is called in whatever order.
THEOREM PortInvariant == PortSpec => []PortInv
    BY InitPortInv, NextPortInv, PTL DEF PortSpec

\* The registry keeps its types: no port of another type is ever bound, no channel
\* is ever 0, and every function returns a known status.
THEOREM PortTypeCorrect == PortSpec => []PortTypeOK
<1>1. PortInv => PortTypeOK
    BY DEF PortInv, TableInv, ListInv, PortTypeOK
<1> QED
    BY <1>1, PortInvariant, PTL

\* opdi_bind_port never writes beyond the end of sPortBinds and never gives a channel
\* to two ports.
THEOREM TableIsWellFormed == PortSpec => []TableWellFormed
<1>1. PortInv => TableWellFormed
    BY DEF PortInv, TableInv
<1> QED
    BY <1>1, PortInvariant, PTL

\* No rebuilding of the port list leaves a binding to a port that is not offered.
THEOREM BoundPortsStayListed == PortSpec => []BoundPortsListed
<1>1. PortInv => BoundPortsListed
    BY DEF PortInv, ListInv
<1> QED
    BY <1>1, PortInvariant, PTL

-----------------------------------------------------------------------------
(* Dispatching                                                             *)

\* With distinct channels it does not matter which binding of a channel is found.
LEMMA DispatchIsBound ==
    TableInv => \A c \in BindChannel :
        opdi_try_dispatch_stream(c) = {sPortBinds[i].port : i \in BoundAt(c)}
<1> SUFFICES ASSUME TableInv, NEW c \in BindChannel
             PROVE  opdi_try_dispatch_stream(c) = {sPortBinds[i].port : i \in BoundAt(c)}
    OBVIOUS
<1>1. \A i, j \in BoundAt(c) : i = j
    BY DEF BoundAt, TableInv, TableWellFormed
<1>2. BoundAt(c) \in SUBSET Nat
    BY LenProperties DEF BoundAt, TableInv
<1>3. BoundAt(c) # {} => First(BoundAt(c)) \in BoundAt(c)
    BY <1>2, FirstIsLeast
<1>4. \A i \in BoundAt(c) : i = First(BoundAt(c))
    BY <1>1, <1>3
<1> QED
    BY <1>4 DEF opdi_try_dispatch_stream

\* Data on the channel a port streams on reaches this port and no other.
THEOREM DispatchIsRight == PortSpec => []DispatchMatchesChannel
<1>1. PortInv => DispatchMatchesChannel
    <2> SUFFICES ASSUME PortInv, NEW p \in StreamingPort, spChannel[p] # Unbound
                 PROVE  opdi_try_dispatch_stream(spChannel[p]) = {p}
        BY DEF DispatchMatchesChannel
    <2>1. TableInv /\ spChannel[p] \in BindChannel
        BY DEF PortInv, TableInv
    <2>2. PICK i \in DOMAIN sPortBinds :
             sPortBinds[i] = [channel |-> spChannel[p], port |-> p]
        BY <2>1 DEF TableInv, ChannelIsBinding
    <2>3. BoundAt(spChannel[p]) = {i}
        BY <2>1, <2>2 DEF BoundAt, TableInv, TableWellFormed
    <2> QED
        BY <2>1, <2>2, <2>3, DispatchIsBound
<1> QED
    BY <1>1, PortInvariant, PTL

-----------------------------------------------------------------------------
(* The registry implements ChannelMap                                      *)

\* Every element of the array in use is a binding.
LEMMA BindingsOfTable ==
    ASSUME TableInv
    PROVE  \A i \in DOMAIN sPortBinds : sPortBinds[i] \in Binding
<1>1. sPortBinds \in Seq(Binding) /\ DOMAIN sPortBinds = 1..Len(sPortBinds)
    BY LenProperties DEF TableInv
<1> QED
    BY <1>1, ElementOfSeq

\* What the abstract owner of every channel is, before and after a step.
LEMMA OwnerIsBound ==
    TableInv => /\ Owner \in [BindChannel -> SUBSET Port]
                /\ \A c \in BindChannel :
                      Owner[c] = {sPortBinds[i].port : i \in BoundAt(c)}
<1> SUFFICES ASSUME TableInv
             PROVE  /\ Owner \in [BindChannel -> SUBSET Port]
                    /\ \A c \in BindChannel :
                          Owner[c] = {sPortBinds[i].port : i \in BoundAt(c)}
    OBVIOUS
<1>1. \A c \in BindChannel : Owner[c] = {sPortBinds[i].port : i \in BoundAt(c)}
    BY DispatchIsBound DEF Owner
<1>2. \A i \in DOMAIN sPortBinds : sPortBinds[i].port \in Port
    <2>1. \A i \in DOMAIN sPortBinds : sPortBinds[i] \in Binding
        BY BindingsOfTable
    <2> QED
        BY <2>1 DEF Binding, Port
<1>3. \A c \in BindChannel : Owner[c] \in SUBSET Port
    BY <1>1, <1>2 DEF BoundAt
<1> QED
    BY <1>1, <1>3 DEF Owner

\* The same of the table a step leaves behind.
LEMMA OwnerIsBoundNext ==
    TableInv' => /\ Owner' \in [BindChannel -> SUBSET Port]
                 /\ \A c \in BindChannel :
                       Owner'[c] = {sPortBinds'[i].port : i \in BoundAt(c)'}
<1>1. (TableInv => /\ Owner \in [BindChannel -> SUBSET Port]
                   /\ \A c \in BindChannel :
                         Owner[c] = {sPortBinds[i].port : i \in BoundAt(c)})'
    BY OwnerIsBound, PTL
<1> QED
    BY <1>1

\* There is room for another channel exactly as long as the table has a free element.
LEMMA BoundChannelsFit ==
    ASSUME TableInv, Len(sPortBinds) < OPDI_STREAMING_PORTS
    PROVE  Cardinality(Channels!Bound) < OPDI_STREAMING_PORTS
<1> DEFINE n == Len(sPortBinds)
           f == [i \in 1..n |-> sPortBinds[i].channel]
<1>1. n \in Nat /\ DOMAIN sPortBinds = 1..n /\ OPDI_STREAMING_PORTS \in Nat
    BY LenProperties, PortAssumption DEF TableInv, PortAssumption
<1>2. Channels!Bound = {c \in BindChannel : BoundAt(c) # {}}
    <2>1. \A c \in BindChannel : Owner[c] = {} <=> BoundAt(c) = {}
        <3> SUFFICES ASSUME NEW c \in BindChannel
                     PROVE  Owner[c] = {} <=> BoundAt(c) = {}
            OBVIOUS
        <3>1. Owner[c] = {sPortBinds[i].port : i \in BoundAt(c)}
            BY OwnerIsBound
        <3> QED
            BY <3>1
    <2> QED
        <3> HIDE DEF Owner, BoundAt
        <3> QED
            BY <2>1 DEF Channels!Bound, Channels!Free
<1>3. \A i \in 1..n : sPortBinds[i].channel \in BindChannel
    <2>1. \A i \in 1..n : sPortBinds[i] \in Binding
        BY <1>1, BindingsOfTable
    <2> QED
        BY <2>1 DEF Binding
<1>4. f \in Surjection(1..n, Channels!Bound)
    <2>1. \A i \in 1..n : f[i] \in Channels!Bound
        BY <1>1, <1>2, <1>3 DEF BoundAt
    <2>2. \A c \in Channels!Bound : \E i \in 1..n : f[i] = c
        BY <1>1, <1>2 DEF BoundAt
    <2> QED
        BY <2>1, <2>2 DEF Surjection
<1>5. ExistsSurjection(1..n, Channels!Bound)
    BY <1>4 DEF ExistsSurjection
<1>6. Cardinality(Channels!Bound) <= n /\ IsFiniteSet(Channels!Bound)
    <2>1. IsFiniteSet(1..n)
        BY <1>1, FS_Interval
    <2> QED
        BY <1>1, <1>4, <1>5, <2>1, FS_SurjCardinalityBound, FS_Surjection
<1> QED
    BY <1>1, <1>6, FS_CardinalityType

\* opdi_bind_port gives a channel to a port, or leaves the abstract map as it is.
LEMMA BindIsAbstractBind ==
    ASSUME TableInv, TableInv', NEW p \in Port, NEW c \in BindChannel, BindEffect(p, c)
    PROVE  [Channels!ChannelNext]_Owner
<1>1. CASE BindStatus(p, c) = "OK" /\ BoundAt(c) = {}
    <2> DEFINE n == Len(sPortBinds)
    <2>1. n \in Nat /\ DOMAIN sPortBinds = 1..n
        BY LenProperties DEF TableInv
    <2>2. p \in StreamingPort /\ n < OPDI_STREAMING_PORTS
        <3>1. p \in StreamingPort
            BY <1>1 DEF BindStatus
        <3>2. BindStatus(p, c) = IF n >= OPDI_STREAMING_PORTS
                                 THEN "TOO_MANY_BINDINGS" ELSE "OK"
            BY <1>1, <3>1 DEF BindStatus
        <3> QED
            BY <1>1, <2>1, <3>1, <3>2, PortAssumption DEF PortAssumption
    <2>3. sPortBinds' = Append(sPortBinds, [channel |-> c, port |-> p])
        BY <1>1 DEF BindEffect
    <2>4. /\ DOMAIN sPortBinds' = 1..(n + 1)
          /\ \A i \in 1..n : sPortBinds'[i] = sPortBinds[i]
          /\ sPortBinds'[n + 1] = [channel |-> c, port |-> p]
        BY <2>1, <2>3 DEF TableInv
    <2>5. Owner[c] = {}
        BY <1>1, OwnerIsBound
    <2>6. Owner'[c] = {p}
        <3>1. BoundAt(c)' = {n + 1}
            BY <1>1, <2>1, <2>4 DEF BoundAt
        <3> QED
            BY <2>4, <3>1, OwnerIsBoundNext
    <2>7. ASSUME NEW d \in BindChannel, d # c
          PROVE  Owner'[d] = Owner[d]
        <3>1. BoundAt(d)' = BoundAt(d)
            BY <2>1, <2>4, <2>7 DEF BoundAt
        <3>2. \A i \in BoundAt(d) : sPortBinds'[i] = sPortBinds[i]
            BY <2>1, <2>4 DEF BoundAt
        <3>3. /\ Owner[d] = {sPortBinds[i].port : i \in BoundAt(d)}
              /\ Owner'[d] = {sPortBinds'[i].port : i \in BoundAt(d)'}
            BY OwnerIsBound, OwnerIsBoundNext
        <3>4. {sPortBinds'[i].port : i \in BoundAt(d)'} = {sPortBinds[i].port : i \in BoundAt(d)}
            BY <3>1, <3>2
        <3> QED
            BY <3>3, <3>4
    <2>8. Owner' = [Owner EXCEPT ![c] = {p}]
        BY <2>6, <2>7, OwnerIsBound, OwnerIsBoundNext
    <2>9. Channels!Bind(p, c)
        <3>1. Cardinality(Channels!Bound) < OPDI_STREAMING_PORTS
            BY <2>2, BoundChannelsFit
        <3>2. Channels!Cardinality(Channels!Bound) = Cardinality(Channels!Bound)
            BY DEF Channels!Cardinality, Cardinality
        <3> QED
            BY <2>5, <2>8, <3>1, <3>2 DEF Channels!Bind, Channels!Free
    <2> QED
        BY <2>2, <2>9 DEF Channels!ChannelNext
<1>2. CASE UNCHANGED bindVars
    <2>1. Owner' = Owner
        BY <1>2 DEF bindVars, Owner, opdi_try_dispatch_stream, BoundAt
    <2> QED
        BY <2>1
<1> QED
    BY <1>1, <1>2 DEF BindEffect

\* opdi_unbind_port frees the channel of one port and disturbs no other channel.
LEMMA UnbindIsAbstractUnbind ==
    ASSUME TableInv, TableInv', NEW p \in Port, UnbindEffect(p)
    PROVE  [Channels!ChannelNext]_Owner
<1>1. CASE p \in StreamingPort /\ SlotsOf(p) # {}
    <2> DEFINE k == First(SlotsOf(p))
               n == Len(sPortBinds)
    <2>1. sPortBinds \in Seq(Binding) /\ n \in Nat /\ DOMAIN sPortBinds = 1..n
        BY LenProperties DEF TableInv
    <2>2. k \in 1..n
        <3>1. SlotsOf(p) \in SUBSET Nat /\ SlotsOf(p) \subseteq 1..n
            BY <2>1 DEF SlotsOf
        <3> QED
            BY <1>1, <3>1, FirstIsLeast
    <2>3. sPortBinds' = RemoveAt(sPortBinds, k)
        BY <1>1 DEF UnbindEffect
    <2> HIDE DEF k
    <2>4. /\ Len(sPortBinds') = n - 1
          /\ \A j \in 1..(n - 1) :
                sPortBinds'[j] = IF j < k THEN sPortBinds[j] ELSE sPortBinds[j + 1]
        BY <2>1, <2>2, <2>3, RemoveAtProperties
    <2>5. DOMAIN sPortBinds' = 1..(n - 1)
        BY <2>4, LenProperties DEF TableInv
    <2>a. PICK c \in BindChannel : c = sPortBinds[k].channel
        <3>1. sPortBinds[k] \in Binding
            BY <2>1, <2>2, BindingsOfTable
        <3> QED
            BY <3>1 DEF Binding
    <2>6. BoundAt(c) = {k}
        BY <2>1, <2>2, <2>a DEF BoundAt, TableInv, TableWellFormed
    <2>7. Owner[c] # {}
        BY <2>6, OwnerIsBound
    <2>8. Owner'[c] = {}
        <3>1. \A j \in 1..(n - 1) : sPortBinds'[j].channel # c
            <4> SUFFICES ASSUME NEW j \in 1..(n - 1), sPortBinds'[j].channel = c
                         PROVE  FALSE
                OBVIOUS
            <4>1. PICK i \in 1..n : i # k /\ sPortBinds'[j] = sPortBinds[i]
                BY <2>1, <2>2, <2>4
            <4> QED
                BY <2>1, <2>6, <4>1 DEF BoundAt
        <3>2. BoundAt(c)' = {}
            BY <2>5, <3>1 DEF BoundAt
        <3> QED
            BY <2>6, <3>2, OwnerIsBoundNext
    <2>9. ASSUME NEW d \in BindChannel, d # c
          PROVE  Owner'[d] = Owner[d]
        <3>1. ASSUME NEW j \in BoundAt(d)'
              PROVE  \E i \in BoundAt(d) : sPortBinds'[j] = sPortBinds[i]
            <4>1. j \in 1..(n - 1) /\ sPortBinds'[j].channel = d
                BY <2>5 DEF BoundAt
            <4>2. PICK i \in 1..n : sPortBinds'[j] = sPortBinds[i]
                BY <2>1, <2>2, <2>4, <4>1
            <4> QED
                BY <2>1, <4>1, <4>2 DEF BoundAt
        <3>2. ASSUME NEW i \in BoundAt(d)
              PROVE  \E j \in BoundAt(d)' : sPortBinds'[j] = sPortBinds[i]
            <4>1. i \in 1..n /\ sPortBinds[i].channel = d /\ i # k
                BY <2>1, <2>a, <2>9 DEF BoundAt
            <4>2. PICK j \in 1..(n - 1) : sPortBinds'[j] = sPortBinds[i]
                <5>1. CASE i < k
                    <6>1. i \in 1..(n - 1)
                        BY <2>1, <2>2, <4>1, <5>1
                    <6> QED
                        BY <2>4, <5>1, <6>1
                <5>2. CASE ~(i < k)
                    <6>1. i - 1 \in 1..(n - 1) /\ ~(i - 1 < k) /\ (i - 1) + 1 = i
                        BY <2>1, <2>2, <4>1, <5>2
                    <6>2. sPortBinds'[i - 1] = sPortBinds[i]
                        BY <2>4, <6>1
                    <6> QED
                        BY <6>1, <6>2
                <5> QED
                    BY <5>1, <5>2
            <4> QED
                BY <2>5, <4>1, <4>2 DEF BoundAt
        <3>3. /\ Owner[d] = {sPortBinds[i].port : i \in BoundAt(d)}
              /\ Owner'[d] = {sPortBinds'[j].port : j \in BoundAt(d)'}
            BY OwnerIsBound, OwnerIsBoundNext
        <3>4. Owner'[d] \subseteq Owner[d]
            BY <3>1, <3>3
        <3>5. Owner[d] \subseteq Owner'[d]
            BY <3>2, <3>3
        <3> QED
            BY <3>4, <3>5
    <2>10. Owner' = [Owner EXCEPT ![c] = {}]
        BY <2>6, <2>8, <2>9, OwnerIsBound, OwnerIsBoundNext
    <2>11. Channels!Unbind(c)
        BY <2>7, <2>10 DEF Channels!Unbind, Channels!Free
    <2> QED
        BY <2>6, <2>11 DEF Channels!ChannelNext
<1>2. CASE UNCHANGED bindVars
    <2>1. Owner' = Owner
        BY <1>2 DEF bindVars, Owner, opdi_try_dispatch_stream, BoundAt
    <2> QED
        BY <2>1
<1> QED
    BY <1>1, <1>2 DEF UnbindEffect

\* opdi_reset_bindings frees every channel.
LEMMA ClearIsAbstractReset ==
    ASSUME ClearBindings
    PROVE  [Channels!ChannelNext]_Owner
<1>1. sPortBinds' = <<>>
    BY DEF ClearBindings
<1>2. \A c \in BindChannel : opdi_try_dispatch_stream(c)' = {}
    BY <1>1 DEF opdi_try_dispatch_stream, BoundAt
<1>3. Owner' = [c \in BindChannel |-> {}]
    BY <1>2 DEF Owner
<1> QED
    BY <1>3 DEF Channels!ChannelNext, Channels!Reset

\* Without a binding no channel has a port.
LEMMA InitIsAbstractInit == PortInit => Channels!ChannelInit
<1> SUFFICES ASSUME PortInit PROVE Channels!ChannelInit
    OBVIOUS
<1>1. \A c \in BindChannel : opdi_try_dispatch_stream(c) = {}
    BY DEF PortInit, opdi_try_dispatch_stream, BoundAt
<1> QED
    BY <1>1 DEF Channels!ChannelInit, Owner

\* The table, with its order, its shifting and its channel fields, implements the map
\* from channels to ports which opdi_port.h promises.
THEOREM RegistryImplementsChannelMap == PortSpec => ImplementsChannelMap
<1>1. PortInv /\ PortInv' /\ [PortNext]_portVars => [Channels!ChannelNext]_Owner
    <2> SUFFICES ASSUME PortInv, PortInv', [PortNext]_portVars
                 PROVE  [Channels!ChannelNext]_Owner
        OBVIOUS
    <2>0. TableInv /\ TableInv' /\ Listed \subseteq Port
        BY DEF PortInv, ListInv, Listed
    <2>1. ASSUME NEW p \in Port, opdi_add_port(p)
          PROVE  [Channels!ChannelNext]_Owner
        <3>1. Owner' = Owner
            BY <2>1 DEF opdi_add_port, bindVars, Owner, opdi_try_dispatch_stream, BoundAt
        <3> QED
            BY <3>1
    <2>2. ASSUME NEW p \in Listed, NEW c \in BindChannel, opdi_bind_port(p, c)
          PROVE  [Channels!ChannelNext]_Owner
        BY <2>0, <2>2, BindIsAbstractBind DEF opdi_bind_port
    <2>3. ASSUME NEW p \in Listed, opdi_unbind_port(p)
          PROVE  [Channels!ChannelNext]_Owner
        BY <2>0, <2>3, UnbindIsAbstractUnbind DEF opdi_unbind_port
    <2>4. CASE opdi_reset_bindings \/ opdi_clear_ports
        BY <2>4, ClearIsAbstractReset DEF opdi_reset_bindings, opdi_clear_ports
    <2>5. CASE UNCHANGED portVars
        <3>1. Owner' = Owner
            BY <2>5 DEF portVars, Owner, opdi_try_dispatch_stream, BoundAt
        <3> QED
            BY <3>1
    <2> QED
        BY <2>1, <2>2, <2>3, <2>4, <2>5 DEF PortNext
<1> QED
    BY <1>1, InitIsAbstractInit, PortInvariant, PTL
       DEF PortSpec, ImplementsChannelMap, Channels!ChannelSpec

=============================================================================
