---------------------------- MODULE PortBindings ----------------------------
(***************************************************************************)
(* The port registry of the slave (code/c/common/opdi_port.c): the list of *)
(* ports a device offers and the table that binds streaming ports to       *)
(* channels.  The functions below are called by the slave protocol, which  *)
(* looks a port up in the list before it binds or unbinds it, and by the   *)
(* device code, which rebuilds the list (configs/test/test.c).             *)
(*                                                                         *)
(* The linked list portHead .. portTail is the sequence ports, the array   *)
(* sPortBinds with its count is the sequence sPortBinds, and the channel   *)
(* field that every opdi_StreamingPortInfo keeps is spChannel.  result is  *)
(* the status the last function returned.                                  *)
(***************************************************************************)
EXTENDS Naturals, Sequences, SequencesExt

CONSTANTS StreamingPort,   \* ports of type OPDI_PORTTYPE_STREAMING
          OtherPort,       \* ports of every other type
          BindChannel,     \* channel numbers a master asks to bind
          OPDI_MAX_DEVICE_PORTS,
          OPDI_STREAMING_PORTS

Port == StreamingPort \cup OtherPort

\* A bind request for channel 0 never reaches opdi_bind_port: see
\* bind_streaming_port in SlaveSession.
ASSUME PortAssumption ==
    /\ StreamingPort \cap OtherPort = {}
    /\ BindChannel \subseteq Nat \ {0}
    /\ OPDI_MAX_DEVICE_PORTS \in Nat
    /\ OPDI_STREAMING_PORTS \in Nat

VARIABLES ports, portCount, sPortBinds, spChannel, result

listVars == <<ports, portCount>>
bindVars == <<sPortBinds, spChannel>>
portVars == <<ports, portCount, sPortBinds, spChannel, result>>

\* The status codes of opdi_constants.h that the modelled functions return.
Status == {"OK", "DISCONNECTED", "TIMEOUT", "PARTS_OVERFLOW", "CONVERSION",
           "PROTOCOL_ERROR", "PROTOCOL_NOT_SUPPORTED", "ENCRYPTION_NOT_SUPPORTED",
           "ENCRYPTION_REQUIRED", "ENCRYPTION_ERROR", "AUTH_NOT_SUPPORTED",
           "AUTHENTICATION_EXPECTED", "AUTHENTICATION_FAILED", "DEVICE_ERROR",
           "TOO_MANY_PORTS", "PORT_UNKNOWN", "WRONG_PORT_TYPE", "TOO_MANY_BINDINGS",
           "CHANNEL_INVALID", "POSITION_INVALID", "NETWORK_ERROR",
           "PORT_ACCESS_DENIED", "PORT_ERROR", "MESSAGE_UNKNOWN", "FUNCTION_UNKNOWN"}

Binding == [channel : BindChannel, port : StreamingPort]
Unbound == 0

-----------------------------------------------------------------------------
(* Lookups                                                                 *)

Listed == {ports[i] : i \in DOMAIN ports}

BoundAt(channel) == {i \in DOMAIN sPortBinds : sPortBinds[i].channel = channel}
SlotsOf(port) == {i \in DOMAIN sPortBinds : sPortBinds[i].port = port}

First(S) == CHOOSE i \in S : \A j \in S : i <= j

\* The port whose dataReceived function a message on the channel goes to.
opdi_try_dispatch_stream(channel) ==
    {sPortBinds[i].port : i \in {i \in BoundAt(channel) : i = First(BoundAt(channel))}}

-----------------------------------------------------------------------------
(* The port list                                                           *)

\* Every caller in the repository adds a port at most once after clearing the
\* list: adding a listed port again would cut the linked list.
opdi_add_port(port) ==
    /\ port \notin Listed
    /\ portCount' = portCount + 1
    /\ IF portCount' > OPDI_MAX_DEVICE_PORTS
       THEN /\ result' = "TOO_MANY_PORTS"
            /\ UNCHANGED ports
       ELSE /\ result' = "OK"
            /\ ports' = Append(ports, port)
    /\ UNCHANGED bindVars

-----------------------------------------------------------------------------
(* Streaming port bindings                                                 *)

\* Fault: the type of the port is not checked.
BindUntyped(port, channel) ==
    CASE BoundAt(channel) # {} ->
            IF sPortBinds[First(BoundAt(channel))].port = port
            THEN "OK" ELSE "CHANNEL_INVALID"
      [] OTHER ->
            IF Len(sPortBinds) >= OPDI_STREAMING_PORTS
            THEN "TOO_MANY_BINDINGS" ELSE "OK"

\* Fault: the array is taken to be one element longer than it is.
BindOffByOne(port, channel) ==
    CASE port \notin StreamingPort -> "WRONG_PORT_TYPE"
      [] port \in StreamingPort /\ BoundAt(channel) # {} ->
            IF sPortBinds[First(BoundAt(channel))].port = port
            THEN "OK" ELSE "CHANNEL_INVALID"
      [] port \in StreamingPort /\ BoundAt(channel) = {} ->
            IF Len(sPortBinds) > OPDI_STREAMING_PORTS
            THEN "TOO_MANY_BINDINGS" ELSE "OK"

\* The early returns of opdi_bind_port, in their order.  That the port may already
\* be bound to another channel is not looked at.
BindStatus(port, channel) ==
    CASE port \notin StreamingPort -> "WRONG_PORT_TYPE"
      [] port \in StreamingPort /\ BoundAt(channel) # {} ->
            IF sPortBinds[First(BoundAt(channel))].port = port
            THEN "OK" ELSE "CHANNEL_INVALID"
      [] port \in StreamingPort /\ BoundAt(channel) = {} ->
            IF Len(sPortBinds) >= OPDI_STREAMING_PORTS
            THEN "TOO_MANY_BINDINGS" ELSE "OK"

\* Fault: the latest master of a channel takes it over.
BindTakesOver(port, channel) ==
    IF port \in StreamingPort /\ BoundAt(channel) # {}
    THEN /\ sPortBinds' = [sPortBinds EXCEPT ![First(BoundAt(channel))].port = port]
         /\ spChannel' = [spChannel EXCEPT ![port] = channel]
    ELSE IF BindStatus(port, channel) = "OK"
    THEN /\ sPortBinds' = Append(sPortBinds, [channel |-> channel, port |-> port])
         /\ spChannel' = [spChannel EXCEPT ![port] = channel]
    ELSE UNCHANGED bindVars

\* A port already bound to this very channel is answered OK and left alone.
BindEffect(port, channel) ==
    IF BindStatus(port, channel) = "OK" /\ BoundAt(channel) = {}
    THEN /\ sPortBinds' = Append(sPortBinds, [channel |-> channel, port |-> port])
         /\ spChannel' = [spChannel EXCEPT ![port] = channel]
    ELSE UNCHANGED bindVars

opdi_bind_port(port, channel) ==
    /\ result' = BindStatus(port, channel)
    /\ BindEffect(port, channel)
    /\ UNCHANGED listVars

UnbindStatus(port) == IF port \in StreamingPort THEN "OK" ELSE "WRONG_PORT_TYPE"

\* Fault: the count is decremented, but the bindings are not shifted left.
UnbindUnshifted(port) ==
    IF port \in StreamingPort /\ SlotsOf(port) # {}
    THEN /\ sPortBinds' = SubSeq(sPortBinds, 1, Len(sPortBinds) - 1)
         /\ spChannel' = [spChannel EXCEPT ![port] = Unbound]
    ELSE UNCHANGED bindVars

\* Only the first binding of the port is removed.
UnbindEffect(port) ==
    IF port \in StreamingPort /\ SlotsOf(port) # {}
    THEN /\ sPortBinds' = RemoveAt(sPortBinds, First(SlotsOf(port)))
         /\ spChannel' = [spChannel EXCEPT ![port] = Unbound]
    ELSE UNCHANGED bindVars

opdi_unbind_port(port) ==
    /\ result' = UnbindStatus(port)
    /\ UnbindEffect(port)
    /\ UNCHANGED listVars

\* Fault: the table is emptied, but the ports keep their channels.
ClearTableOnly == sPortBinds' = <<>> /\ UNCHANGED spChannel

ClearBindings ==
    /\ spChannel' = [p \in StreamingPort |->
                        IF SlotsOf(p) # {} THEN Unbound ELSE spChannel[p]]
    /\ sPortBinds' = <<>>

opdi_reset_bindings ==
    /\ ClearBindings
    /\ result' = "OK"
    /\ UNCHANGED listVars

\* Fault: the list is cleared, but not the bindings.
ClearListOnly == ports' = <<>> /\ portCount' = 0 /\ result' = "OK" /\ UNCHANGED bindVars

opdi_clear_ports ==
    /\ ports' = <<>>
    /\ portCount' = 0
    /\ ClearBindings
    /\ result' = "OK"

-----------------------------------------------------------------------------
PortInit ==
    /\ ports = <<>>
    /\ portCount = 0
    /\ sPortBinds = <<>>
    /\ spChannel = [p \in StreamingPort |-> Unbound]
    /\ result = "OK"

\* One more add than the list can hold is let happen; the device code of the
\* repository never comes near the width of portCount.
MayAdd == portCount <= OPDI_MAX_DEVICE_PORTS

PortNext ==
    \/ \E p \in Port : MayAdd /\ opdi_add_port(p)
    \/ \E p \in Listed, c \in BindChannel : opdi_bind_port(p, c)
    \/ \E p \in Listed : opdi_unbind_port(p)
    \/ opdi_reset_bindings
    \/ opdi_clear_ports

PortSpec == PortInit /\ [][PortNext]_portVars

-----------------------------------------------------------------------------
(* Properties                                                              *)

PortTypeOK ==
    /\ ports \in Seq(Port)
    /\ portCount \in Nat
    /\ sPortBinds \in Seq(Binding)
    /\ spChannel \in [StreamingPort -> BindChannel \cup {Unbound}]
    /\ result \in Status

\* The table never holds more bindings than the array sPortBinds has elements,
\* and never one channel twice: a message on a channel has one addressee.
TableWellFormed ==
    /\ Len(sPortBinds) <= OPDI_STREAMING_PORTS
    /\ \A i, j \in DOMAIN sPortBinds :
          sPortBinds[i].channel = sPortBinds[j].channel => i = j

\* Data the master sends on the channel a port streams on (spi->channel, what
\* handle_streaming_ports sends to) is dispatched to that port and to no other.
DispatchMatchesChannel ==
    \A p \in StreamingPort : spChannel[p] # Unbound =>
        opdi_try_dispatch_stream(spChannel[p]) = {p}

\* The invariant this rests on: the channel a port streams on is always one the table
\* gives to that port.
ChannelIsBinding ==
    \A p \in StreamingPort : spChannel[p] # Unbound =>
        \E i \in DOMAIN sPortBinds : sPortBinds[i] = [channel |-> spChannel[p], port |-> p]

\* Rebuilding the port list leaves no binding behind to a port which is no longer
\* offered, so a bound port can always be unbound by the master.
BoundPortsListed ==
    \A i \in DOMAIN sPortBinds : sPortBinds[i].port \in Listed

\* The converse of ChannelIsBinding, which opdi_port.h states of the channel
\* field: "the channel number which is > 0 if the port is bound".
BoundHasChannel ==
    \A i \in DOMAIN sPortBinds : spChannel[sPortBinds[i].port] > 0

\* The port every channel belongs to, as a set of at most one.
Owner == [c \in BindChannel |-> opdi_try_dispatch_stream(c)]

\* What the bindings promise a master, whatever the table looks like: a channel has
\* at most one port, gets one only while it has none and there is room, and loses
\* it when that port is unbound or all bindings are reset (opdi_port.h).
Channels == INSTANCE ChannelMap
            WITH Channel <- BindChannel, Port <- StreamingPort,
                 Room <- OPDI_STREAMING_PORTS,
                 owner <- Owner
ImplementsChannelMap == Channels!ChannelSpec

=============================================================================
