----------------------------- MODULE ChannelMap -----------------------------
(***************************************************************************)
(* What opdi_bind_port, opdi_unbind_port and opdi_reset_bindings of        *)
(* opdi_port.h promise, without the table, its order and the channel       *)
(* fields of the ports: every channel has no owner or one port.            *)
(***************************************************************************)
EXTENDS Naturals, FiniteSets

CONSTANTS Channel, Port, Room

VARIABLE owner    \* the port of each channel, as a set of at most one

Free(c) == owner[c] = {}
Bound == {c \in Channel : ~Free(c)}

ChannelInit == owner = [c \in Channel |-> {}]

Bind(p, c) ==
    /\ Free(c)
    /\ Cardinality(Bound) < Room
    /\ owner' = [owner EXCEPT ![c] = {p}]

Unbind(c) ==
    /\ ~Free(c)
    /\ owner' = [owner EXCEPT ![c] = {}]

Reset == owner' = [c \in Channel |-> {}]

ChannelNext ==
    \/ \E p \in Port, c \in Channel : Bind(p, c)
    \/ \E c \in Channel : Unbind(c)
    \/ Reset

ChannelSpec == ChannelInit /\ [][ChannelNext]_owner

=============================================================================
