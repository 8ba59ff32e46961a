----------------------------- MODULE BulkQuery -----------------------------
(***************************************************************************)
(* The queries of the extended protocol, over the wire of Framing.  The    *)
(* master reads the device's capabilities, then the information about all  *)
(* ports, their groups, and their states.  For infos, states and labels    *)
(* the slave sends a series of messages from handlers that share the array *)
(* opdi_msg_parts; the master counts them and takes them for the ports of  *)
(* its list, one after the other.  The labels of a select port are         *)
(* requested while the answers for the ports behind it are on their way.   *)
(* The groups of the ports are requested up to the root of the hierarchy   *)
(* and cached.  A query that has failed may be repeated.                   *)
(*                                                                         *)
(* The two message processors and the thread that queries take turns in    *)
(* any order, a streaming port may send while the slave waits, and one     *)
(* byte or block of the connection may be disturbed.  A request of the     *)
(* master may follow another message, whose parts are arbitrary.           *)
(***************************************************************************)
EXTENDS Framing

CONSTANTS Configuration,          \* the devices, connections and messages to consider
          ChunkSizes,             \* how much the master takes, unless it takes all
          MaxAttempts,            \* how often the user queries
          OPDI_MAX_DEVICE_PORTS,
          OPDI_MAX_MESSAGE_PARTS

Text == Seq({Alphabet[i] : i \in DOMAIN Alphabet})

\* Digital ports stand for analog and dial ports.  labels are those of a select port,
\* group is <<>> if the extended information names none.  access: what the function
\* that gets the state of a port returns.  A port that streams has no state.
PortType == [id : Text, name : Text, kind : {"digital", "select", "streaming"},
             labels : Seq(Text), group : Text,
             access : {"OK", "DENIED", "PORT_ERROR", "FAILED"}]

GroupType == [id : Text, parent : Text]

\* first: the parts of a message the master sends before its requests, if any, and
\* whether the slave trims them, which it does for all but the credentials.
ConfigurationType ==
    [ports : Seq(PortType), groups : Seq(GroupType), cipher : BOOLEAN,
     disturbed : BOOLEAN, streaming : BOOLEAN, first : Seq(Text), trim : BOOLEAN]

\* With as many ports as there may be, the end of the list is written behind the array
\* (opdi_slave_protocol.c:59); such devices are left out.  Bytes are lost only in the
\* clear: a reader of blocks would never find their boundaries again.
ASSUME BulkAssumption ==
    /\ ChunkSizes \subseteq Nat \ {0}
    /\ MaxAttempts \in Nat \ {0}
    /\ OPDI_MAX_DEVICE_PORTS \in Nat
    /\ OPDI_MAX_MESSAGE_PARTS \in Nat
    /\ \A c \in Configuration :
          /\ c \in ConfigurationType
          /\ Len(c.ports) < OPDI_MAX_DEVICE_PORTS
          /\ \A i \in DOMAIN c.ports : Len(c.ports[i].labels) < 10
          /\ c.first = <<>> \/ c.first[1] # <<>>
          /\ ~c.trim => ~c.disturbed

VARIABLES
    config,       \* fixed
    toSlave,      \* the bytes under way
    toMaster,
    reader,       \* of opdi_get_message
    serving,      \* the slave is in its message loop
    streamed,     \* the streaming port has sent
    part,         \* message of the MessageProcessor
    inQueue,      \* input queue of the device
    online,       \* the device is connected, for the master
    phase,        \* the message the querying thread is about to send or expects
    attempt,      \* number of the query
    currentChannel,
    channel,      \* of the query, and of its states
    portIDs,      \* local of parseDeviceCapabilities
    ports,        \* the ports of the capabilities, with what is known of them
    counter,      \* ports that have been dealt with in this phase
    groupCache,   \* the groups by id, with their parents
    path,         \* the groups whose information getGroupInfo is about to get
    deviceCaps,   \* the capabilities are complete
    deviceInfo,
    fault,        \* history: a byte or block has been disturbed
    masterSent,   \* history: what each side has sent ...
    slaveSent,
    slaveGot,     \* ... and what it has received, split into parts
    masterGot

slaveVars == <<reader, serving, streamed, slaveSent, slaveGot>>
processorVars == <<part, inQueue, masterGot>>
groupVars == <<groupCache, path>>
channelVars == <<currentChannel, channel>>
deviceVars == <<attempt, deviceCaps, deviceInfo>>
queryVars == <<phase, deviceVars, channelVars, portIDs, ports, counter, groupVars,
               masterSent>>
vars == <<config, toSlave, toMaster, slaveVars, processorVars, queryVars, online, fault>>

CHANNEL_LOWEST_SYNCHRONOUS == 20
CHANNEL_ROLLOVER == 100
StreamChannel == 1

\* What the device says of a port, and of itself.
ExtendedInfo(port) ==
    <<"info">> \o port.id
        \o (IF port.group = <<>> THEN <<>> ELSE <<"group">> \o port.group)
PortState(id) == <<"state">> \o id
ExtendedState(id) == <<"more">> \o id
PortMessage == <<"why">>
DeviceInfo == <<"about">>

Number(n) == <<Digit[n + 1]>>

-----------------------------------------------------------------------------
(* The slave's handlers.  A reply is what they send in order, and whether   *)
(* they refuse or crash.  parts1 is opdi_msg_parts[1], "none" for NULL.     *)

none == <<"none">>

Answer(ch, parts) == [channel |-> ch, parts |-> parts]

\* send_device_caps: a list of lists.
DeviceCaps(ch) ==
    LET ids == [i \in DOMAIN config.ports |-> config.ports[i].id]
    IN <<Answer(ch, << <<"BDC">>, strings_join(ids, ",") >>)>>

PortInfo(port) ==
    IF port.kind = "select"
    THEN << <<"SLP">>, port.id, port.name, Number(Len(port.labels)) >>
    ELSE << <<"DP">>, port.id, port.name >>

\* Fault: the extended information comes first.
ExtendedInfoFirst(ch, reply, port) ==
    [reply EXCEPT !.parts1 = port.id,
                  !.sent = @ \o <<Answer(ch, << <<"EPI">>, port.id, ExtendedInfo(port) >>),
                                  Answer(ch, PortInfo(port))>>]

\* The first entry of a list with an id, 0 if there is none.
FoundAt(list, id) == SelectInSeq(list, LAMBDA entry : entry.id = id)

\* The device's callback tells by the id which port is meant.
InfoFor(id) == ExtendedInfo(config.ports[FoundAt(config.ports, id)])

\* One pass of send_all_port_infos.  Nothing is sent for a streaming port, and the
\* extended information is that of the port whose id was in the array before: with
\* none, strncpy reads from NULL.
InfosOfPort(ch, reply, port) ==
    LET based == IF port.kind = "streaming" THEN reply
                 ELSE [reply EXCEPT !.parts1 = port.id,
                                    !.sent = Append(@, Answer(ch, PortInfo(port)))]
        id == based.parts1
    IN IF reply.status = "crashed" \/ id = none THEN [reply EXCEPT !.status = "crashed"]
       ELSE [based EXCEPT !.sent = Append(@, Answer(ch, << <<"EPI">>, id, InfoFor(id) >>))]

\* One pass of send_all_port_states.  After a refused state the array points to the
\* buffer of a function that has returned, dangling stands for what is found there.
StatesOfPort(ch, reply, port, dangling) ==
    LET State == CASE port.access = "OK" -> << <<"DPS">>, port.id, PortState(port.id) >>
                   [] port.access = "DENIED" -> << <<"NOK">>, <<"29">>, PortMessage >>
                   [] port.access = "PORT_ERROR" -> << <<"Err">>, port.id, PortMessage >>
        id == IF port.access = "DENIED" THEN dangling ELSE port.id
    IN IF port.kind = "streaming" \/ port.access = "FAILED" THEN reply
       ELSE [reply EXCEPT !.sent = @ \o <<Answer(ch, State),
                                          Answer(ch, << <<"EPS">>, id, ExtendedState(id) >>)>>]

\* send_group_info; groups have the id as their label here and no flags.
GroupInfo(group) == << <<"GI">>, group.id, group.id, group.parent, Number(0) >>

EmptyReply == [sent |-> <<>>, parts1 |-> none, status |-> "OK"]
Refusal == [EmptyReply EXCEPT !.status = "refused"]
Replies(answers) == [EmptyReply EXCEPT !.sent = answers]

\* send_all_select_port_labels.
LabelsOf(ch, port) ==
    IF port.kind = "select"
    THEN Replies([i \in DOMAIN port.labels |->
                    Answer(ch, << <<"SLL">>, port.id, Number(i - 1), port.labels[i] >>)])
    ELSE Refusal

\* extended_protocol_message; what it does not know is not answered.
Reply(ch, parts, dangling) ==
    CASE parts[1] = <<"gDC">> -> Replies(DeviceCaps(ch))
      [] parts[1] = <<"gAPI">> ->
            LET replies[n \in 0 .. Len(config.ports)] ==
                    IF n = 0 THEN EmptyReply
                    ELSE InfosOfPort(ch, replies[n - 1], config.ports[n])
            IN replies[Len(config.ports)]
      [] parts[1] = <<"gAPS">> ->
            LET replies[n \in 0 .. Len(config.ports)] ==
                    IF n = 0 THEN EmptyReply
                    ELSE StatesOfPort(ch, replies[n - 1], config.ports[n], dangling)
            IN replies[Len(config.ports)]
      [] parts[1] = <<"gGI">> /\ Len(parts) > 1 ->
            LET i == FoundAt(config.groups, parts[2])
            IN IF i = 0 THEN Refusal ELSE Replies(<<Answer(ch, GroupInfo(config.groups[i]))>>)
      [] parts[1] = <<"gASL">> /\ Len(parts) > 1 ->
            LET i == FoundAt(config.ports, parts[2])
            IN IF i = 0 THEN Refusal ELSE LabelsOf(ch, config.ports[i])
      [] parts[1] = <<"gEDI">> -> Replies(<<Answer(ch, << <<"EDI">>, DeviceInfo >>)>>)
      [] parts[1] \in {<<"gGI">>, <<"gASL">>} /\ Len(parts) = 1 -> Refusal
      [] OTHER -> EmptyReply

\* send_parts fails for what is too long or contains a terminator.
Sendable(answer) ==
    LET text == strings_join(answer.parts, Separator)
    IN ~StringsOverflow(text, PayloadLength) /\ Encodable(text)

\* A handler that refuses, or the first message that cannot be sent, ends the session
\* with an error message on the control channel (handle_message_result).
Sent(reply) ==
    LET failing == SelectInSeq(reply.sent, LAMBDA a : ~Sendable(a))
        error == Answer(0, << <<"Err">>, <<"8">> >>)
    IN IF failing # 0 THEN Append(SubSeq(reply.sent, 1, failing - 1), error)
       ELSE IF reply.status = "refused" THEN Append(reply.sent, error)
       ELSE reply.sent

BytesOf(answers) ==
    FlattenSeq([i \in DOMAIN answers |->
                   OnWire(answers[i].channel, strings_join(answers[i].parts, Separator),
                          config.cipher)])

-----------------------------------------------------------------------------
(* The slave's steps                                                       *)

\* The credentials are the first message, if they are one.
SplitBySlave(text) ==
    strings_split(text, Separator, config.trim \/ slaveGot # <<>>)

\* message_loop with a message it has read.
Handle(message) ==
    LET parts == SplitBySlave(message.text)
    IN IF Len(parts) > OPDI_MAX_MESSAGE_PARTS
       THEN serving' = FALSE /\ UNCHANGED <<toMaster, slaveSent, slaveGot>>
       ELSE \E dangling \in {<<"29">>, <<Noise>>} :
               LET reply == IF message.channel = 0 THEN EmptyReply
                            ELSE Reply(message.channel, parts, dangling)
                   answers == Sent(reply)
               IN /\ slaveGot' = Append(slaveGot, parts)
                  /\ slaveSent' = slaveSent \o answers
                  /\ toMaster' = toMaster \o BytesOf(answers)
                  /\ serving' = (reply.status = "OK" /\ answers = reply.sent)

SlaveTakes == serving /\ toSlave # <<>> /\ toSlave' = Tail(toSlave)

\* opdi_get_message takes the next byte from the connection.
SlaveReads ==
    /\ SlaveTakes
    /\ LET read == ReadByte(reader, Head(toSlave), config.cipher)
       IN /\ reader' = read.reader
          /\ IF read.message = <<>>
             THEN UNCHANGED <<serving, toMaster, slaveSent, slaveGot>>
             ELSE Handle(read.message[1])
    /\ UNCHANGED <<config, streamed, processorVars, queryVars, online, fault>>

\* The receive function sends the data of a streaming port while it waits, once.
SlaveStreams ==
    /\ serving /\ config.streaming /\ ~streamed
    /\ MaySend(reader)
    /\ LET bytes == Encoded(StreamChannel, <<"x">>)
       IN /\ toMaster' = toMaster \o OnWire(StreamChannel, <<"x">>, config.cipher)
          /\ reader' = Overwritten(reader, bytes, config.cipher)
    /\ slaveSent' = Append(slaveSent, Answer(StreamChannel, << <<"x">> >>))
    /\ streamed' = TRUE
    /\ UNCHANGED <<config, toSlave, serving, slaveGot, processorVars, queryVars, online, fault>>

-----------------------------------------------------------------------------
(* The connection                                                          *)

\* One disturbance hits the byte or the block that would be read next.  In the clear
\* the byte changes or is lost.
Hit(bytes) ==
    IF config.cipher
    THEN {[i \in 1..BlockSize |-> Noise] \o SubSeq(bytes, BlockSize + 1, Len(bytes)),
          [i \in 1..BlockSize |-> IF i = 1 THEN Terminator ELSE Noise]
             \o SubSeq(bytes, BlockSize + 1, Len(bytes))}
    ELSE {<<c>> \o Tail(bytes) : c \in {Noise, Separator, Terminator} \ {Head(bytes)}}
         \cup {Tail(bytes)}

\* Only whole blocks are disturbed, not one that has been read in part.
Disturb ==
    /\ config.disturbed /\ ~fault
    /\ \/ /\ toSlave # <<>> /\ reader.block = <<>>
          /\ toSlave' \in Hit(toSlave)
          /\ UNCHANGED toMaster
       \/ /\ toMaster # <<>>
          /\ toMaster' \in Hit(toMaster)
          /\ UNCHANGED toSlave
    /\ fault' = TRUE
    /\ UNCHANGED <<config, slaveVars, processorVars, queryVars, online>>

-----------------------------------------------------------------------------
(* The master's message processor                                          *)

\* Data of a bound port and control messages do not come into the queue of replies.
\* (Control messages do, but nobody expects their channel.)
IsReply(message) == message.channel \notin {0, StreamChannel}

\* The elements of a sequence that pass a test, in order.
Only(s, Test(_)) ==
    FlattenSeq([i \in DOMAIN s |-> IF Test(s[i]) THEN <<s[i]>> ELSE <<>>])

\* What is there, or a part of it.
MasterTakes ==
    /\ toMaster # <<>>
    /\ \E n \in IF config.cipher THEN {BlockSize}
             ELSE {Len(toMaster)} \cup {n \in ChunkSizes : n < Len(toMaster)} :
          toMaster' = SubSeq(toMaster, n + 1, Len(toMaster))

\* An error message ends the connection unless it has been put aside while the query
\* waits.
MasterReads ==
    /\ MasterTakes
    /\ LET chunk == SubSeq(toMaster, 1, Len(toMaster) - Len(toMaster'))
           read == ReadChunk(part, chunk, config.cipher)
           failed == \E i \in DOMAIN read.messages : read.messages[i].channel = 0
       IN /\ part' = read.part
          /\ inQueue' = inQueue \o Only(read.messages, IsReply)
          /\ masterGot' = masterGot \o
                [i \in DOMAIN read.messages |->
                    Answer(read.messages[i].channel,
                           JavaSplit(read.messages[i].text, Separator))]
          /\ online' \in IF failed THEN {online, FALSE} ELSE {online}
    /\ UNCHANGED <<config, toSlave, slaveVars, queryVars, fault>>

-----------------------------------------------------------------------------
(* The query                                                               *)

\* What a message of the slave does not change unless it is said.
Keep == UNCHANGED <<portIDs, ports, counter, groupVars, deviceCaps, deviceInfo>>
Goto(place) == phase' = place /\ Keep
Fail == Goto("failed")

Transmit(ch, parts) ==
    /\ toSlave' = toSlave \o OnWire(ch, JavaJoin(parts, Separator), config.cipher)
    /\ masterSent' = Append(masterSent, Answer(ch, parts))

\* A message the query does not depend on.  One that cannot be encoded ends the
\* connection.
SendFirst ==
    /\ phase = "first"
    /\ IF Encodable(JavaJoin(config.first, Separator))
       THEN /\ Transmit(0, config.first)
            /\ phase' = "query"
            /\ UNCHANGED online
       ELSE /\ phase' = "failed" /\ online' = FALSE
            /\ UNCHANGED <<toSlave, masterSent>>
    /\ UNCHANGED <<config, toMaster, slaveVars, processorVars, deviceVars, channelVars,
                   portIDs, ports, counter, groupVars, fault>>

\* send throws when the device is not connected.
Request(place, ch, parts, next) ==
    /\ phase = place
    /\ IF online
       THEN Transmit(ch, parts) /\ phase' = next
       ELSE phase' = "failed" /\ UNCHANGED <<toSlave, masterSent>>
    /\ UNCHANGED <<config, toMaster, slaveVars, processorVars, deviceVars, portIDs, ports,
                   groupVars, online, fault>>

NextChannel ==
    IF currentChannel + 1 >= CHANNEL_ROLLOVER THEN CHANNEL_LOWEST_SYNCHRONOUS
    ELSE currentChannel + 1

\* A request on a new channel, on which its answers are expected.
RequestAnew(place, parts, next) ==
    /\ Request(place, NextChannel, parts, next)
    /\ currentChannel' = NextChannel /\ channel' = NextChannel
    /\ counter' = 0

NewestPort == Last(ports)

SendRequest ==
    \/ RequestAnew("query", << <<"gDC">> >>, "caps")
    \/ /\ Request("infos", channel, << <<"gAPI">> >>, "info")
       /\ counter' = 0 /\ UNCHANGED channelVars
    \* SelectPort's constructor requests the labels on a channel of its own.
    \/ /\ Request("askLabels", NextChannel, << <<"gASL">>, NewestPort.id >>,
                   IF NewestPort.posCount = 0 THEN "extendedInfo" ELSE "label")
       /\ currentChannel' = NextChannel /\ UNCHANGED <<channel, counter>>
    \/ /\ Request("askGroup", channel, << <<"gGI">>, Last(path) >>, "group")
       /\ UNCHANGED <<channelVars, counter>>
    \/ RequestAnew("askDeviceInfo", << <<"gEDI">> >>, "deviceInfo")
    \/ RequestAnew("states", << <<"gAPS">> >>, IF ports = <<>> THEN "done" ELSE "state")

Expecting == phase \in {"caps", "info", "label", "extendedInfo", "group", "deviceInfo",
                         "state", "extendedState"}

\* No other request is made before the labels are complete.
Expected == IF phase = "label" THEN currentChannel ELSE channel

IsA(parts, kind, count) == Len(parts) = count /\ parts[1] = <<kind>>

\* Fault: the id in a message is not compared.
AnyID(parts, id) == TRUE

IsFor(parts, id) == parts[2] = id

\* BasicDeviceCapabilities, up to the request for the information.
TakeCaps(parts) ==
    /\ phase = "caps"
    /\ IF IsA(parts, "BDC", 2)
       THEN /\ phase' = "infos"
            /\ portIDs' = JavaSplit(parts[2], ",")
            /\ ports' = <<>>
            /\ UNCHANGED <<counter, groupVars, deviceCaps, deviceInfo>>
       ELSE Fail

UnknownPort == [id |-> <<>>, name |-> <<>>, posCount |-> 0, labels |-> <<>>, info |-> <<>>,
                group |-> <<>>, state |-> <<>>, more |-> <<>>, error |-> FALSE]

\* parsePortInfo: the port is created with the id it comes with.
TakeInfo(parts) ==
    /\ phase = "info"
    /\ CASE IsA(parts, "DP", 3) ->
               /\ phase' = "extendedInfo"
               /\ ports' = Append(ports, [UnknownPort EXCEPT !.id = parts[2], !.name = parts[3]])
               /\ UNCHANGED <<portIDs, counter, groupVars, deviceCaps, deviceInfo>>
         [] IsA(parts, "SLP", 4) ->
               /\ phase' = "askLabels"
               /\ \E n \in 0 .. 9 :
                     /\ parts[4] = Number(n)
                     /\ ports' = Append(ports, [UnknownPort EXCEPT
                                           !.id = parts[2], !.name = parts[3], !.posCount = n])
               /\ UNCHANGED <<portIDs, counter, groupVars, deviceCaps, deviceInfo>>
         [] OTHER -> Fail

\* getSelectPortLabels counts the labels.
TakeLabel(parts) ==
    /\ phase = "label"
    /\ IF /\ IsA(parts, "SLL", 4) /\ IsFor(parts, NewestPort.id)
          /\ parts[3] = Number(Len(NewestPort.labels))
       THEN /\ ports' = [ports EXCEPT ![Len(ports)].labels = Append(@, parts[4])]
            /\ phase' = IF Len(NewestPort.labels) + 1 = NewestPort.posCount
                        THEN "extendedInfo" ELSE "label"
            /\ UNCHANGED <<portIDs, counter, groupVars, deviceCaps, deviceInfo>>
       ELSE Fail

\* The property "group" of the extended information, <<>> if it has none.
GroupOf(info) ==
    LET i == SelectInSeq(info, LAMBDA c : c = "group")
    IN IF i = 0 THEN <<>> ELSE SubSeq(info, i + 1, Len(info))

\* parseExtendedPortInfo.
TakeExtendedInfo(parts) ==
    /\ phase = "extendedInfo"
    /\ IF IsA(parts, "EPI", 3) /\ IsFor(parts, NewestPort.id)
       THEN /\ ports' = [ports EXCEPT ![Len(ports)].info = parts[3]]
            /\ phase' = IF Len(ports) = Len(portIDs) THEN "groups" ELSE "info"
            /\ UNCHANGED <<portIDs, counter, groupVars, deviceCaps, deviceInfo>>
       ELSE Fail

\* After the information about the last port the groups of the ports are looked up, from
\* the first port on.
GoThroughGroups ==
    /\ phase = "groups"
    /\ IF counter = Len(ports)
       THEN phase' = "askDeviceInfo" /\ deviceCaps' = TRUE /\ UNCHANGED <<ports, counter, path>>
       ELSE LET group == GroupOf(ports[counter + 1].info)
            IN IF group = <<>> \/ group \in DOMAIN groupCache
               THEN /\ ports' = [ports EXCEPT ![counter + 1].group = group]
                    /\ counter' = counter + 1
                    /\ UNCHANGED <<phase, deviceCaps, path>>
               ELSE phase' = "askGroup" /\ path' = <<group>> /\ UNCHANGED <<ports, deviceCaps, counter>>
    /\ UNCHANGED <<config, toSlave, toMaster, slaveVars, processorVars, attempt, deviceInfo,
                   channelVars, portIDs, groupCache, masterSent, online, fault>>

\* A group of path is complete: its id is removed, and the one before it gets its parent.
Return(next) ==
    /\ path' = Front(path)
    /\ phase' = IF Len(path) = 1 THEN "groups" ELSE next

\* getGroupInfo caches a group before it looks up the parent.
TakeGroup(parts) ==
    /\ phase = "group"
    /\ IF IsA(parts, "GI", 5) /\ IsFor(parts, Last(path))
       THEN /\ groupCache' = [g \in DOMAIN groupCache \cup {Last(path)} |->
                                 IF g = Last(path) THEN [parent |-> parts[4], link |-> <<>>]
                                 ELSE groupCache[g]]
            /\ CASE parts[4] = <<>> -> Return("assign")
                 [] parts[4] \in DOMAIN groupCache' -> phase' = "assign" /\ UNCHANGED path
                 [] OTHER -> phase' = "askGroup" /\ path' = Append(path, parts[4])
            /\ UNCHANGED <<portIDs, ports, counter, deviceCaps, deviceInfo>>
       ELSE Fail

\* The n-th group above a group, <<>> above the highest.
Above(cache, group) ==
    LET up[n \in 0 .. Cardinality(DOMAIN cache)] ==
            IF n = 0 THEN group
            ELSE IF up[n - 1] = <<>> THEN <<>> ELSE cache[up[n - 1]].link
    IN up

\* Fault: parents are assigned without a walk.
NoWalk(up) == "root"

\* The walk up from the parent meets it again, or on a cycle it is not part of never ends.
Walk(up) ==
    IF \E n \in DOMAIN up \ {0} : up[n] = up[0] THEN "cycle"
    ELSE IF \E n \in DOMAIN up : up[n] = <<>> THEN "root"
    ELSE "endless"

\* setParentGroup checks for a cycle when the parent has been assigned.
AssignParent ==
    /\ phase = "assign"
    /\ LET parent == groupCache[Last(path)].parent
           assigned == [groupCache EXCEPT ![Last(path)].link = parent]
           end == Walk(Above(assigned, parent))
       IN /\ groupCache' = assigned
          /\ \/ end = "root" /\ Return("assign")
             \/ end = "cycle" /\ phase' = "failed" /\ UNCHANGED path
             \/ end = "endless" /\ phase' = "endless" /\ UNCHANGED path
    /\ UNCHANGED <<config, toSlave, toMaster, slaveVars, processorVars, deviceVars,
                   channelVars, portIDs, ports, counter, masterSent, online, fault>>

TakeDeviceInfo(parts) ==
    /\ phase = "deviceInfo"
    /\ IF IsA(parts, "EDI", 2)
       THEN /\ phase' = "states" /\ deviceInfo' = parts[2]
            /\ UNCHANGED <<portIDs, ports, counter, groupVars, deviceCaps>>
       ELSE Fail

\* The first message of a state.  A refusal carries the code of the refusal where the
\* master looks for the id of the port.
TakeState(parts) ==
    LET port == ports[counter + 1]
        Taken(changed) == phase' = "extendedState" /\ ports' = changed
    IN /\ phase = "state"
       /\ CASE IsA(parts, "DPS", 3) /\ IsFor(parts, port.id) ->
                  Taken([ports EXCEPT ![counter + 1].state = parts[3],
                                      ![counter + 1].error = FALSE])
            [] parts[1] = <<"NOK">> /\ Len(parts) > 1 /\ parts[2] = port.id ->
                  Taken(ports)
            [] parts[1] = <<"Err">> /\ Len(parts) > 1 /\ parts[2] = port.id ->
                  Taken([ports EXCEPT ![counter + 1].error = TRUE])
            [] OTHER -> phase' = "failed" /\ UNCHANGED ports
       /\ UNCHANGED <<portIDs, counter, groupVars, deviceCaps, deviceInfo>>

NextState ==
    /\ counter' = counter + 1
    /\ phase' = IF counter' = Len(ports) THEN "done" ELSE "state"
    /\ UNCHANGED <<portIDs, groupVars, deviceCaps, deviceInfo>>

\* The second message of a state: whatever goes wrong with it is ignored.
TakeExtendedState(parts) ==
    /\ phase = "extendedState"
    /\ IF IsA(parts, "EPS", 3) /\ IsFor(parts, ports[counter + 1].id)
       THEN ports' = [ports EXCEPT ![counter + 1].more = parts[3]]
       ELSE UNCHANGED ports
    /\ NextState

\* The first message on the channel that is expected, 0 if there is none.
Position == SelectInSeq(inQueue, LAMBDA m : m.channel = Expected)

\* expect: the message is taken out of the queue.
TakeMessage ==
    /\ online
    /\ LET at == Position
           parts == JavaSplit(inQueue[at].text, Separator)
       IN /\ at # 0
          /\ inQueue' = RemoveAt(inQueue, at)
          /\ \/ TakeCaps(parts) \/ TakeInfo(parts) \/ TakeLabel(parts)
             \/ TakeExtendedInfo(parts) \/ TakeGroup(parts) \/ TakeDeviceInfo(parts)
             \/ TakeState(parts) \/ TakeExtendedState(parts)
    /\ UNCHANGED <<config, toSlave, toMaster, slaveVars, part, masterGot, attempt,
                   channelVars, masterSent, online, fault>>

\* Fault: without an answer the query waits on.
WaitOn == FALSE

\* Answers come before the timeout: it expires when none is under way.
NothingComes ==
    /\ Position = 0
    /\ toMaster = <<>>
    /\ serving => toSlave = <<>>

\* expect fails because the connection has ended or the time is up, which ends it.
\* Without the extended device information or an extended state the query goes on.
ExpectFails ==
    /\ Expecting
    /\ ~online \/ NothingComes
    /\ online' = FALSE
    /\ CASE phase = "extendedState" -> NextState /\ UNCHANGED ports
         [] phase = "deviceInfo" ->
              /\ phase' = "states" /\ deviceInfo' = <<>>
              /\ UNCHANGED <<portIDs, ports, counter, groupVars, deviceCaps>>
         [] OTHER -> Fail
    /\ UNCHANGED <<config, toSlave, toMaster, slaveVars, processorVars, attempt, channelVars,
                   masterSent, fault>>

\* The user queries again unless the connection has ended: capabilities that are complete
\* are kept, and the groups in any case.
QueryAgain ==
    /\ phase = "failed" /\ online /\ attempt < MaxAttempts
    /\ attempt' = attempt + 1
    /\ phase' = IF deviceCaps THEN "states" ELSE "query"
    /\ Keep
    /\ UNCHANGED <<config, toSlave, toMaster, slaveVars, processorVars, channelVars,
                   masterSent, online, fault>>

Query ==
    SendFirst \/ SendRequest \/ TakeMessage \/ GoThroughGroups \/ AssignParent \/ ExpectFails

Phase == {"first", "query", "caps", "infos", "info", "askLabels", "label", "extendedInfo",
          "groups", "askGroup", "group", "assign", "endless", "askDeviceInfo", "deviceInfo",
          "states", "state", "extendedState", "done", "failed"}

Ended == phase \in {"done", "failed"}

\* expect looks again after a while.
Wait == Ended \/ phase = "endless" \/ (Expecting /\ Position = 0)

\* The querying thread does not have to wait any longer.
CanGoOn ==
    /\ ~Ended /\ phase # "endless"
    /\ Expecting => ~online \/ Position # 0 \/ NothingComes

-----------------------------------------------------------------------------
Init ==
    /\ config \in Configuration
    /\ toSlave = <<>> /\ toMaster = <<>>
    /\ reader = EmptyReader
    /\ serving = TRUE /\ streamed = FALSE
    /\ part = <<>> /\ inQueue = <<>>
    /\ online = TRUE
    /\ phase = IF config.first = <<>> THEN "query" ELSE "first"
    /\ attempt = 1
    /\ currentChannel = CHANNEL_LOWEST_SYNCHRONOUS - 1 /\ channel = 0
    /\ portIDs = <<>> /\ ports = <<>> /\ counter = 0
    /\ groupCache = [g \in {} |-> <<>>] /\ path = <<>>
    /\ deviceCaps = FALSE /\ deviceInfo = <<>>
    /\ fault = FALSE
    /\ masterSent = <<>> /\ slaveSent = <<>> /\ slaveGot = <<>> /\ masterGot = <<>>

Next ==
    \/ SlaveReads \/ SlaveStreams \/ MasterReads \/ Query \/ QueryAgain \/ Disturb
    \/ Wait /\ UNCHANGED vars

\* The three threads are never stopped, but nobody has to query again.  What they do is
\* told by the variable they move on, which TLC evaluates sooner than the whole steps;
\* that the querying thread can indeed do something is the absence of deadlocks.
Spec ==
    /\ Init /\ [][Next]_vars
    /\ WF_toSlave(SlaveTakes)
    /\ WF_toMaster(MasterTakes)
    /\ WF_phase(CanGoOn /\ phase' \in Phase)

-----------------------------------------------------------------------------
(* Properties                                                              *)

\* The variables have their types, and what the slave has assembled of a message stays
\* within the buffer it is assembled in.
BulkTypeOK ==
    /\ config \in Configuration
    /\ Len(reader.assembled) + Len(reader.block) < BufferSize
    /\ Len(reader.block) < BlockSize
    /\ {serving, streamed, online, fault, deviceCaps} \subseteq BOOLEAN
    /\ phase \in Phase
    /\ attempt \in 1 .. MaxAttempts
    /\ counter \in 0 .. Len(ports)
    /\ \A g \in DOMAIN groupCache : groupCache[g].link \in {<<>>} \cup DOMAIN groupCache

\* What each side receives of an undisturbed connection.
Fits(request) ==
    FitsSlave(request.channel, JavaJoin(request.parts, Separator), config.cipher)

SentToSlave ==
    LET fitting == Only(masterSent, Fits)
    IN [i \in DOMAIN fitting |->
           SlaveReceives(fitting[i].parts, config.trim \/ i > 1)]

SentToMaster ==
    [i \in DOMAIN slaveSent |->
        Answer(slaveSent[i].channel, MasterReceives(slaveSent[i].parts))]

AllUnambiguous(sent) == \A i \in DOMAIN sent : Unambiguous(sent[i].parts, Separator)

\* What the slave receives is what the master has sent and fits its buffer.
RequestsFaithful ==
    ~fault /\ AllUnambiguous(masterSent) => IsPrefix(slaveGot, SentToSlave)

\* What the master receives is what the slave has sent.
AnswersFaithful ==
    ~fault /\ AllUnambiguous(slaveSent) => IsPrefix(masterGot, SentToMaster)

\* Every message that fits arrives, in order, with the parts it was sent with, up to
\* blanks at their ends: joining, framing, encryption, the two readers and splitting
\* undo each other, whatever else is sent or dropped in between.
MessagesFaithful == RequestsFaithful /\ AnswersFaithful

\* got is what is left of sent when one message or two neighbours are lost.
LosesOneOrTwo(got, sent) ==
    \E k \in 1 .. Len(sent) + 1, n \in 0 .. 2 :
        IsPrefix(got, SubSeq(sent, 1, k - 1) \o SubSeq(sent, k + n, Len(sent)))

\* A disturbance costs at most the message it hits and the one after it: none is
\* delivered with other contents, and the readers find the next beginning again.
FaultConfined ==
    fault =>
        /\ AllUnambiguous(masterSent) => LosesOneOrTwo(slaveGot, SentToSlave)
        /\ AllUnambiguous(slaveSent) => LosesOneOrTwo(masterGot, SentToMaster)

\* Every set of groups that is not empty has one with no parent in the set.
IsForest(groups, Parent(_)) ==
    \A S \in (SUBSET groups) \ {{}} : \E g \in S : Parent(g) \notin S

GroupIDs == {config.groups[i].id : i \in DOMAIN config.groups}
ParentOf(id) == config.groups[FoundAt(config.groups, id)].parent

\* Devices the query is made for: there are ports, none streams, all states can be had
\* or are in error, groups are known, and no group is above itself.
Plain ==
    /\ config.ports # <<>>
    /\ \A i \in DOMAIN config.ports :
          LET port == config.ports[i]
          IN /\ port.kind # "streaming" /\ port.access \in {"OK", "PORT_ERROR"}
             /\ port.id # <<>> /\ Head(port.id) \notin {Blank, Separator, ","}
             /\ port.group \in {<<>>} \cup GroupIDs
    /\ \A g \in GroupIDs : ParentOf(g) \in {<<>>} \cup GroupIDs
    /\ IsForest(GroupIDs, ParentOf)

\* What is sent about the device is short enough and can be taken apart.
Presentable ==
    LET ch == CHANNEL_LOWEST_SYNCHRONOUS
        answers ==
            DeviceCaps(ch)
              \o [i \in DOMAIN config.groups |-> Answer(ch, GroupInfo(config.groups[i]))]
              \o FlattenSeq([i \in DOMAIN config.ports |->
                    Append(LabelsOf(ch, config.ports[i]).sent,
                           Answer(ch, PortInfo(config.ports[i])))])
    IN /\ \A i \in DOMAIN answers :
             Sendable(answers[i]) /\ Unambiguous(answers[i].parts, Separator)
       /\ Encodable(JavaJoin(config.first, Separator))
       /\ Len(config.first) <= OPDI_MAX_MESSAGE_PARTS

\* What the master should know of a port.
Known(port) ==
    LET ok == port.access = "OK"
    IN [id |-> port.id, name |-> removeLeadingBlank(port.name), posCount |-> Len(port.labels),
        labels |-> MasterReceives(port.labels), info |-> ExtendedInfo(port),
        group |-> port.group, state |-> IF ok THEN PortState(port.id) ELSE <<>>,
        more |-> ExtendedState(port.id), error |-> ~ok]

LinkOf(group) == groupCache[group].link

\* A first query accepts no group that is above itself, and setParentGroup's walk to the
\* root of the hierarchy ends, whatever the device says.
FirstQueryWithoutCycle ==
    attempt = 1 =>
        /\ deviceCaps => IsForest(DOMAIN groupCache, LinkOf)
        /\ phase # "endless"

\* For such a device an undisturbed query does not fail, and at its end the master
\* knows what the device knows, port by port, with the groups up to the root.  A first
\* query takes over no cycle of any device.
QueryComplete ==
    /\ Ended /\ ~fault /\ Plain /\ Presentable =>
          /\ phase = "done"
          /\ ports = [i \in DOMAIN config.ports |-> Known(config.ports[i])]
          /\ \A g \in DOMAIN groupCache : groupCache[g].link = ParentOf(g)
          /\ deviceInfo = DeviceInfo
    /\ FirstQueryWithoutCycle

\* No reply is on a channel that the master has not used for a request.
RepliesRequested ==
    \A i \in DOMAIN inQueue :
        inQueue[i].channel \in {masterSent[j].channel : j \in DOMAIN masterSent}

\* What is known of a port is what the device says of the one with its id, and no group
\* is below another one than the device says.
NothingSwapped ==
    /\ \A i \in DOMAIN ports :
          \/ ports[i] = [UnknownPort EXCEPT !.id = ports[i].id, !.name = ports[i].name]
          \/ \E j \in DOMAIN config.ports :
                LET device == config.ports[j]
                IN /\ ports[i].id = device.id
                   /\ ports[i].info \in {<<>>, ExtendedInfo(device)}
                   /\ IsPrefix(ports[i].labels, MasterReceives(device.labels))
                   /\ ports[i].group \in {<<>>, device.group}
                   /\ ports[i].state \in {<<>>, PortState(device.id)}
                   /\ ports[i].more \in {<<>>, ExtendedState(device.id)}
    /\ \A g \in DOMAIN groupCache : groupCache[g].link \in {<<>>, ParentOf(g)}

\* No port or group is given what belongs to another one, whichever messages are lost,
\* left out by the slave or sent for the wrong port, also when a query that has failed
\* is repeated while the answers to it are still under way.
NothingMisattributed == RepliesRequested /\ NothingSwapped

\* Somewhere above the group there is one without a parent.
WayUpEnds(group) == LET up == Above(groupCache, group) IN \E n \in DOMAIN up : up[n] = <<>>

\* The "cycle check" of setParentGroup (PortGroup.java:89) keeps cycles out of the
\* hierarchy the user gets: from the group of every port the way up ends, as
\* getPortGroups, which goes it, needs.
AcceptedHierarchyEnds ==
    deviceCaps => \A i \in DOMAIN ports : WayUpEnds(ports[i].group)

\* A query ends, also when messages are lost or the slave has stopped answering.  Only
\* the third query of a device with a cycle in its groups may not: the walk of
\* setParentGroup goes round for ever in a cycle that an earlier query has refused and
\* left in the cache, when it gets there from below.
QueryEnds == <>[](Ended \/ (phase = "endless" /\ attempt > 2))

=============================================================================
