--------------------------- MODULE MasterProtocol ---------------------------
(***************************************************************************)
(* One connection of the Java master from the moment it is opened: the     *)
(* threads that call BasicProtocol, the message processor of               *)
(* MessageQueueDevice, the threads that terminate the connection, and at   *)
(* the other end of the line a slave with the port registry of             *)
(* PortBindings.                                                           *)
(*                                                                         *)
(* A caller stands at a point of the protocol functions where another      *)
(* thread can come between; call[c].at names it.  The message processor    *)
(* holds the monitor of inQueue from reading a message until it is         *)
(* dispatched; the one point in between that matters is the one after it   *)
(* has found expectingMessage set ("aside").                               *)
(***************************************************************************)
EXTENDS PortBindings, FiniteSets

CONSTANTS Caller,        \* threads that call the protocol
          Reader,        \* those that read the capabilities and query ports
          Refresher,     \* those that refresh ports automatically
          Binder,        \* those that bind and unbind streaming ports
          Operations,    \* how many operations each caller performs
          Terminator,    \* the terminator threads, 1..n
          NoPort, NoCaller,
          CHANNEL_LOWEST_SYNCHRONOUS,
          CHANNEL_ROLLOVER,
          PortInfos,     \* port infos requested with the capabilities
          MaxVersion,    \* how often the slave changes its port list
          MaxData,       \* how many stream messages the slave sends
          UserDisconnects,
          MayFail        \* operations may time out, the slave may refuse and end

ASSUME MasterAssumption ==
    /\ Reader \subseteq Caller /\ Refresher \subseteq Caller /\ Binder \subseteq Caller
    /\ Operations \in [Caller -> Nat]
    /\ NoCaller \notin Caller
    /\ NoPort \notin StreamingPort
    /\ BindChannel \subseteq 2..19
    /\ CHANNEL_LOWEST_SYNCHRONOUS \in Nat /\ CHANNEL_LOWEST_SYNCHRONOUS >= 20
    /\ CHANNEL_ROLLOVER \in Nat /\ CHANNEL_ROLLOVER > CHANNEL_LOWEST_SYNCHRONOUS
    /\ PortInfos \in Nat /\ MaxVersion \in Nat /\ MaxData \in Nat
    /\ UserDisconnects \in Nat /\ MayFail \in BOOLEAN
    /\ Terminator = 1..(UserDisconnects + 1)

VARIABLES
    \* MessageQueueDevice
    status, streamsOpen, inQueue, outQueue,
    mp,                \* where the message processor is
    stop, hasMessagesToSend,
    terminator,        \* where each terminator thread is
    \* BasicProtocol
    currentChannel, expectingMessage, messagesToDispatch, deviceCaps,
    boundStreamingPorts, portChannel,
    call,              \* the callers
    \* the line and the slave
    toSlave, toMaster, slaveUp, listVersion, dataLeft, disconnectsLeft,
    \* history
    collided,          \* a channel was given out while a request was under way on it
    channelShared,     \* two bindings under way at once chose the same channel
    portShared,        \* a port got a binding operation while it had another or was bound
    drainFailed,       \* a caller polled a queue that another one had emptied
    delivered,         \* the port the last stream data was given to, and its sender
    unsentAtStop       \* messages that were queued at the stop and are not sent yet

deviceVars == <<status, streamsOpen, inQueue, outQueue, mp, stop, hasMessagesToSend,
                terminator>>
cacheVars == <<deviceCaps, boundStreamingPorts, portChannel>>
protocolVars == <<currentChannel, expectingMessage, messagesToDispatch, cacheVars>>
slaveVars == <<portVars, toSlave, toMaster, slaveUp, listVersion, dataLeft>>
closingVars == <<status, streamsOpen, stop, unsentAtStop, toSlave, slaveUp>>
connectionVars == <<closingVars, toMaster>>
sharedVars == <<channelShared, portShared>>
historyVars == <<collided, sharedVars, drainFailed, delivered, unsentAtStop>>
masterVars == <<deviceVars, protocolVars, call, slaveVars, disconnectsLeft,
                historyVars>>

ControlChannel == 0
CHANNEL_REFRESH == 1
NoCaps == MaxVersion + 1     \* deviceCaps = null

\* by and nr say which request a message is or answers, port and value what it is
\* about: a streaming port, and a channel to bind or the version of the port list.
Message(channel, kind, by, nr, port, value) ==
    [channel |-> channel, kind |-> kind, by |-> by, nr |-> nr, port |-> port,
     value |-> value]
Control(kind) == Message(ControlChannel, kind, NoCaller, 0, NoPort, 0)
Reply(m, kind) == [m EXCEPT !.kind = kind]
NoMessage == Control("none")

\* done and nr count the operations finished and the requests sent.
Idle == [at |-> "idle", kind |-> "none", port |-> NoPort, lock |-> 0, channel |-> 0,
         bChannel |-> 0, reply |-> NoMessage, caps |-> NoCaps, infos |-> 0,
         seen |-> {}, done |-> 0, nr |-> 0]
Goto(c, at) == call' = [call EXCEPT ![c].at = at]
\* The operation of the caller is over, whether it succeeds or throws.
Leave(c) ==
    call' = [call EXCEPT ![c] = [Idle EXCEPT !.done = call[c].done + 1, !.nr = call[c].nr]]

Connected == status = "CONNECTED"
InFlight(c) == call[c].at \notin {"idle", "lock"}
OthersInFlight(c, channel) ==
    \E d \in Caller \ {c} : InFlight(d) /\ call[d].channel = channel

-----------------------------------------------------------------------------
(* The device                                                              *)

\* sendMessages, which marks the queue while it holds its monitor.
Enqueue(m) == outQueue' = Append(outQueue, m) /\ hasMessagesToSend' = TRUE

\* stopProcessing needs the monitors of both queues.
StopProcessing ==
    /\ stop' = TRUE
    /\ unsentAtStop' = IF stop THEN unsentAtStop ELSE Len(outQueue)

\* close, which stops the message processor first.  What is on the line is lost, and the
\* slave, which finds the connection closed, ends its session.
CloseStreams ==
    /\ StopProcessing
    /\ streamsOpen' = FALSE
    /\ toSlave' = <<>> /\ toMaster' = <<>>
    /\ slaveUp' = FALSE

\* setDeviceError.
SetDeviceError == CloseStreams /\ status' = "ERROR"

\* disconnect: a Disconnect message is sent and a thread started that terminates
\* the connection.
Disconnect ==
    IF Connected
    THEN /\ Enqueue(Control("Dis"))
         /\ \E t \in Terminator :
               /\ terminator[t] = "none"
               /\ \A u \in Terminator : terminator[u] = "none" => t <= u
               /\ terminator' = [terminator EXCEPT ![t] = "announce"]
    ELSE UNCHANGED <<outQueue, hasMessagesToSend, terminator>>

\* The user of the master.
UserDisconnect ==
    /\ disconnectsLeft > 0 /\ Connected
    /\ disconnectsLeft' = disconnectsLeft - 1
    /\ Disconnect
    /\ UNCHANGED <<status, streamsOpen, inQueue, mp, stop, protocolVars, call,
                   slaveVars, historyVars>>

TerminatorStep(t, from, to) ==
    /\ terminator[t] = from
    /\ terminator' = [terminator EXCEPT ![t] = to]
    /\ UNCHANGED <<inQueue, outQueue, mp, hasMessagesToSend, protocolVars, call,
                   portVars, listVersion, dataLeft, disconnectsLeft, collided,
                   sharedVars, drainFailed, delivered>>

Announce(t) ==
    /\ TerminatorStep(t, "announce", "stop")
    /\ status' = "DISCONNECTING"
    /\ UNCHANGED <<streamsOpen, stop, unsentAtStop, toSlave, toMaster, slaveUp>>

Stop(t) ==
    /\ mp # "aside"
    /\ TerminatorStep(t, "stop", "wait")
    /\ StopProcessing
    /\ UNCHANGED <<streamsOpen, status, toSlave, toMaster, slaveUp>>

\* Fault: the status is left as it is when the connection is closed.
CloseQuietly(t) ==
    /\ mp # "aside"
    /\ TerminatorStep(t, "wait", "end")
    /\ CloseStreams
    /\ UNCHANGED status

\* The thread waits until the message processor is done, but not for longer than
\* TERMINATION_TIMEOUT; done is set after the first pass of its loop, so that the
\* wait may be over at any time.
Close(t) ==
    /\ mp # "aside"
    /\ TerminatorStep(t, "wait", "end")
    /\ CloseStreams
    /\ status' = "DISCONNECTED"

-----------------------------------------------------------------------------
(* Dispatching                                                             *)

FirstPort(ch) ==
    IF boundStreamingPorts[ch] = NoPort THEN {} ELSE {boundStreamingPorts[ch]}

\* The cached capabilities and all bindings go (BasicProtocol.dispatch).
Reconfigured ==
    /\ deviceCaps' = NoCaps
    /\ portChannel' = [p \in StreamingPort |->
                          IF \E ch \in BindChannel : p \in FirstPort(ch)
                          THEN 0 ELSE portChannel[p]]
    /\ boundStreamingPorts' = [ch \in BindChannel |-> NoPort]

\* What dispatch does with a control message other than Disconnect while no message
\* is expected; rest is what else is on the line.  Refresh and Debug, which are only
\* passed on to listeners, are left out.
Act(m, rest) ==
    \/ /\ m.kind = "Reconf"
       /\ Reconfigured
       /\ toMaster' = rest
       /\ UNCHANGED closingVars
    \/ /\ m.kind = "Err"
       /\ SetDeviceError
       /\ UNCHANGED cacheVars

-----------------------------------------------------------------------------
(* The message processor                                                   *)

processorUnchanged == <<currentChannel, expectingMessage, call, portVars, listVersion,
                        dataLeft, disconnectsLeft, collided, sharedVars, drainFailed>>

\* The message processor has found the condition of its loop to hold.
InLoop == mp = "read" /\ (~stop \/ hasMessagesToSend)

Receive(m) ==
    /\ InLoop /\ streamsOpen
    /\ toMaster # <<>> /\ m = Head(toMaster)
    /\ UNCHANGED processorUnchanged

IsControl(m) == m.channel = ControlChannel /\ m.kind # "Dis"

\* Disconnect is handled at once.  dispatch returns false for every control message
\* that was not put aside: it ends in inQueue, where nobody expects it.
ReceiveDisconnect(m) ==
    /\ Receive(m) /\ m.kind = "Dis"
    /\ toMaster' = Tail(toMaster)
    /\ Disconnect
    /\ inQueue' = Append(inQueue, m)
    /\ mp' = "send"
    /\ UNCHANGED <<closingVars, messagesToDispatch, cacheVars, delivered>>

\* A message is expected: the control message is put aside.  The monitor of inQueue
\* is held from the look at the flag until then, and so the message is left standing
\* on the line in between.
FindExpecting ==
    /\ InLoop /\ streamsOpen
    /\ toMaster # <<>> /\ IsControl(Head(toMaster)) /\ expectingMessage
    /\ mp' = "aside"
    /\ UNCHANGED <<status, streamsOpen, inQueue, outQueue, stop, hasMessagesToSend,
                   terminator, protocolVars, call, slaveVars, disconnectsLeft,
                   historyVars>>

PutAside ==
    /\ mp = "aside"
    /\ messagesToDispatch' = Append(messagesToDispatch, Head(toMaster))
    /\ toMaster' = Tail(toMaster)
    /\ mp' = "send"
    /\ UNCHANGED <<status, streamsOpen, inQueue, outQueue, stop, hasMessagesToSend,
                   terminator, currentChannel, expectingMessage, cacheVars, call,
                   portVars, toSlave, slaveUp, listVersion, dataLeft, disconnectsLeft,
                   historyVars>>

ReceiveControl(m) ==
    /\ Receive(m) /\ IsControl(m) /\ ~expectingMessage
    /\ Act(m, Tail(toMaster))
    /\ inQueue' = Append(inQueue, m)
    /\ mp' = "send"
    /\ UNCHANGED <<outQueue, hasMessagesToSend, terminator, messagesToDispatch,
                   delivered>>

\* Stream data of a bound channel goes to the port, any other message to inQueue.
ReceiveMessage(m) ==
    /\ Receive(m) /\ m.channel # ControlChannel
    /\ toMaster' = Tail(toMaster)
    /\ LET to == IF m.channel \in BindChannel THEN FirstPort(m.channel) ELSE {}
       IN IF to = {}
          THEN inQueue' = Append(inQueue, m) /\ UNCHANGED delivered
          ELSE delivered' = <<CHOOSE p \in to : TRUE, m.port>> /\ UNCHANGED inQueue
    /\ mp' = "send"
    /\ UNCHANGED <<closingVars, outQueue, hasMessagesToSend, terminator,
                   messagesToDispatch, cacheVars>>

\* Fault: the flag is cleared with every message that is sent.
ClearAfterSend(queue) == FALSE

\* hasMessagesToSend after a message was taken from the queue.
StillToSend(queue) == queue # <<>>

\* Passes of the loop that find nothing to read or nothing to send are left out.
SendOne ==
    /\ mp = "send" \/ (InLoop /\ toMaster = <<>> /\ outQueue # <<>>)
    /\ streamsOpen
    /\ mp' = "read"
    /\ IF outQueue = <<>>
       THEN /\ hasMessagesToSend' = FALSE
            /\ UNCHANGED <<outQueue, toSlave, unsentAtStop>>
       ELSE /\ toSlave' = IF slaveUp THEN Append(toSlave, Head(outQueue)) ELSE toSlave
            /\ outQueue' = Tail(outQueue)
            /\ hasMessagesToSend' = StillToSend(outQueue')
            /\ unsentAtStop' = IF unsentAtStop = 0 THEN 0 ELSE unsentAtStop - 1
    /\ UNCHANGED <<status, streamsOpen, inQueue, stop, terminator, protocolVars, call,
                   portVars, toMaster, slaveUp, listVersion, dataLeft,
                   disconnectsLeft, collided, sharedVars, drainFailed, delivered>>

\* Reading or writing raises an IOException: the streams are closed, or the slave is
\* gone.  It is reported unless the message processor was told to stop.
ConnectionFails ==
    /\ mp = "send" \/ InLoop
    /\ ~streamsOpen \/ ~slaveUp
    /\ mp' = "failed"
    /\ IF stop THEN UNCHANGED connectionVars ELSE SetDeviceError
    /\ UNCHANGED <<inQueue, outQueue, hasMessagesToSend, terminator, protocolVars, call,
                   portVars, listVersion, dataLeft, disconnectsLeft, collided,
                   sharedVars, drainFailed, delivered>>

\* The loop is left when its condition no longer holds.
EndLoop ==
    /\ mp = "read" /\ stop /\ ~hasMessagesToSend
    /\ mp' = "ended"
    /\ UNCHANGED <<status, streamsOpen, inQueue, outQueue, stop, hasMessagesToSend,
                   terminator, protocolVars, call, slaveVars, disconnectsLeft,
                   historyVars>>

-----------------------------------------------------------------------------
(* The callers                                                             *)

callerUnchanged == <<closingVars, mp, terminator, portVars, toMaster, listVersion,
                     dataLeft, disconnectsLeft, delivered>>

\* What the operation looks at before it takes a channel, and the channel a port is
\* to be bound to: the lowest that is free.  Nothing keeps two threads from binding at
\* once, or one from binding a port that is bound: the view of a port binds it in its
\* own thread, the list of ports in another.
MayStart(kind, p) ==
    CASE kind = "caps" -> deviceCaps = NoCaps
      [] kind = "bind" -> \E ch \in BindChannel : boundStreamingPorts[ch] = NoPort
      [] kind = "unbind" -> portChannel[p] # 0 /\ boundStreamingPorts[portChannel[p]] = p
      [] OTHER -> TRUE

\* Fault: channels in use are not skipped.
LowestChannel == First(BindChannel)

FreeChannel == First({ch \in BindChannel : boundStreamingPorts[ch] = NoPort})

\* A binding under way has chosen the channel; an operation is under way on the port.
Chosen(ch) == \E d \in Caller : call[d].kind = "bind" /\ call[d].bChannel = ch
Busy(p) == \E d \in Caller : call[d].port = p

\* An operation begins and evaluates currentChannel, the object whose monitor it is
\* going to enter; an automatic refresh uses a channel of its own.
Begin(c, kind, p) ==
    /\ call[c].at = "idle" /\ call[c].done < Operations[c] /\ Connected
    /\ MayStart(kind, p)
    /\ call' = [call EXCEPT ![c].kind = kind, ![c].port = p,
                            ![c].bChannel = IF kind = "bind" THEN FreeChannel ELSE 0,
                            ![c].at = IF kind = "refresh" THEN "send" ELSE "lock",
                            ![c].lock = IF kind = "refresh" THEN 0 ELSE currentChannel,
                            ![c].channel = IF kind = "refresh" THEN CHANNEL_REFRESH
                                           ELSE 0]
    /\ collided' = (collided \/ (kind = "refresh" /\ OthersInFlight(c, CHANNEL_REFRESH)))
    /\ channelShared' = (channelShared \/ (kind = "bind" /\ Chosen(FreeChannel)))
    /\ portShared' = (portShared \/ (kind \in {"bind", "unbind"} /\ Busy(p))
                                 \/ (kind = "bind" /\ portChannel[p] # 0))
    /\ UNCHANGED <<callerUnchanged, inQueue, outQueue, hasMessagesToSend, protocolVars,
                   drainFailed>>

BeginAny(c) ==
    \/ c \in Reader /\ \E kind \in {"caps", "query"} : Begin(c, kind, NoPort)
    \/ c \in Refresher /\ Begin(c, "refresh", NoPort)
    \/ c \in Binder /\ \E kind \in {"bind", "unbind"}, p \in StreamingPort : Begin(c, kind, p)

\* Fault: the counter runs one too far.
RollOverLate(ch) ==
    IF ch >= CHANNEL_ROLLOVER THEN CHANNEL_LOWEST_SYNCHRONOUS ELSE ch + 1

NextChannel(ch) ==
    IF ch + 1 >= CHANNEL_ROLLOVER THEN CHANNEL_LOWEST_SYNCHRONOUS ELSE ch + 1

\* getSynchronousChannel has entered the monitor and computed the channel...
EnterCounter(c) ==
    /\ call[c].at = "lock"
    /\ \A d \in Caller : call[d].at = "count" => call[d].lock # call[c].lock
    /\ call' = [call EXCEPT ![c].at = "count", ![c].channel = NextChannel(currentChannel)]
    /\ UNCHANGED <<callerUnchanged, inQueue, outQueue, hasMessagesToSend, protocolVars,
                   collided, sharedVars, drainFailed>>

\* ... stores it as the new counter, and leaves the monitor of the old one.
StoreCounter(c) ==
    /\ call[c].at = "count"
    /\ currentChannel' = call[c].channel
    /\ collided' = (collided \/ OthersInFlight(c, call[c].channel))
    /\ call' = [call EXCEPT ![c].at = "send", ![c].lock = 0]
    /\ UNCHANGED <<callerUnchanged, inQueue, outQueue, hasMessagesToSend,
                   expectingMessage, messagesToDispatch, cacheVars, sharedVars, drainFailed>>

RequestOf(c) ==
    LET r == call[c]
    IN Message(r.channel,
               CASE r.kind = "caps" /\ r.caps = NoCaps -> "gDC"
                 [] r.kind = "caps" /\ r.caps # NoCaps -> "gPI"
                 [] r.kind \in {"query", "refresh"} -> "get"
                 [] r.kind = "bind" -> "bSP"
                 [] r.kind = "unbind" -> "uSP",
               c, r.nr + 1, r.port, r.bChannel)

\* send throws a DisconnectedException when the device is not connected.
Send(c) ==
    /\ call[c].at = "send"
    /\ IF Connected
       THEN /\ Enqueue(RequestOf(c))
            /\ call' = [call EXCEPT ![c].at = "expect", ![c].nr = @ + 1]
       ELSE /\ Leave(c)
            /\ UNCHANGED <<outQueue, hasMessagesToSend>>
    /\ UNCHANGED <<callerUnchanged, inQueue, protocolVars, collided, sharedVars, drainFailed>>

Expect(c) ==
    /\ call[c].at = "expect"
    /\ expectingMessage' = TRUE
    /\ Goto(c, "wait")
    /\ UNCHANGED <<callerUnchanged, inQueue, outQueue, hasMessagesToSend, currentChannel,
                   messagesToDispatch, cacheVars, collided, sharedVars, drainFailed>>

\* Fault: the first message in the queue is taken, whatever its channel.
WaitingFirst(channel) == DOMAIN inQueue

\* The messages in the queue that expect looks for.
Waiting(channel) == {i \in DOMAIN inQueue : inQueue[i].channel = channel}

\* Fault: the message found is looked at, but not removed.
LeftInQueue(i) == inQueue

\* The queue without the message found.
Removed(i) == RemoveAt(inQueue, i)

\* The first message with the channel is taken out of the queue.
Take(c) ==
    /\ call[c].at = "wait" /\ Connected /\ mp # "aside"
    /\ Waiting(call[c].channel) # {}
    /\ LET i == First(Waiting(call[c].channel))
       IN /\ call' = [call EXCEPT ![c].at = "clear", ![c].reply = inQueue[i]]
          /\ inQueue' = Removed(i)
    /\ UNCHANGED <<callerUnchanged, outQueue, hasMessagesToSend, protocolVars, collided,
                   sharedVars, drainFailed>>

FindDisconnected(c) ==
    /\ call[c].at = "wait" /\ ~Connected
    /\ Goto(c, "clear")
    /\ UNCHANGED <<callerUnchanged, inQueue, outQueue, hasMessagesToSend, protocolVars,
                   collided, sharedVars, drainFailed>>

\* Fault: expect goes on waiting while it is connected.
NoTimeout(c) == FALSE

\* The time is up, perhaps just before the message arrives.
TimeIsUp(c) == MayFail /\ call[c].at = "wait" /\ Connected /\ mp # "aside"

Timeout(c) ==
    /\ TimeIsUp(c)
    /\ SetDeviceError
    /\ Goto(c, "clear")
    /\ UNCHANGED <<inQueue, outQueue, hasMessagesToSend, mp, terminator, protocolVars,
                   portVars, listVersion, dataLeft, disconnectsLeft, collided,
                   sharedVars, drainFailed, delivered>>

\* The finally block of expect: nothing is dispatched without capabilities.
ClearExpecting(c) ==
    /\ call[c].at = "clear"
    /\ expectingMessage' = FALSE
    /\ Goto(c, IF deviceCaps = NoCaps THEN "use" ELSE "drain")
    /\ UNCHANGED <<callerUnchanged, inQueue, outQueue, hasMessagesToSend, currentChannel,
                   messagesToDispatch, cacheVars, collided, sharedVars, drainFailed>>

LookAside(c) ==
    /\ call[c].at = "drain"
    /\ IF messagesToDispatch = <<>>
       THEN call' = [call EXCEPT ![c].at = "use", ![c].seen = {}]
       ELSE Goto(c, "poll")
    /\ UNCHANGED <<callerUnchanged, inQueue, outQueue, hasMessagesToSend, protocolVars,
                   collided, sharedVars, drainFailed>>

\* The queue was emptied by another caller since: a null pointer is dereferenced
\* and the exception leaves expect, whatever it had found.
PollNothing(c) ==
    /\ call[c].at = "poll" /\ messagesToDispatch = <<>>
    /\ Leave(c)
    /\ drainFailed' = TRUE
    /\ UNCHANGED <<callerUnchanged, inQueue, outQueue, hasMessagesToSend, protocolVars,
                   collided, sharedVars>>

\* One message put aside is dispatched, unless it repeats one of this round.  If
\* another caller expects a message by now it is put aside again.
DispatchAside(c) ==
    /\ call[c].at = "poll" /\ messagesToDispatch # <<>>
    /\ LET m == Head(messagesToDispatch)
       IN /\ call' = [call EXCEPT ![c].at = "drain", ![c].seen = @ \cup {m}]
          /\ IF m \in call[c].seen \/ expectingMessage
             THEN /\ messagesToDispatch' =
                        IF m \in call[c].seen THEN Tail(messagesToDispatch)
                        ELSE Append(Tail(messagesToDispatch), m)
                  /\ UNCHANGED <<cacheVars, connectionVars>>
             ELSE /\ messagesToDispatch' = Tail(messagesToDispatch)
                  /\ mp # "aside"
                  /\ Act(m, toMaster)
    /\ UNCHANGED <<inQueue, outQueue, mp, hasMessagesToSend, terminator, currentChannel,
                   expectingMessage, portVars, listVersion, dataLeft, disconnectsLeft,
                   collided, sharedVars, drainFailed, delivered>>

\* expect returned or threw: the message taken tells, if there is one.
Use(c) == call[c].at = "use"

\* The reply is one the operation can parse; any other makes it throw.  To unbind
\* any reply but a refusal will do.
Answered(c) ==
    LET kind == call[c].reply.kind
    IN CASE call[c].kind = "caps" -> kind = (IF call[c].caps = NoCaps THEN "caps" ELSE "info")
         [] call[c].kind \in {"query", "refresh"} -> kind = "state"
         [] call[c].kind = "bind" -> kind = "OK"
         [] call[c].kind = "unbind" -> kind \notin {"none", "NOK"}

useUnchanged == <<callerUnchanged, inQueue, outQueue, hasMessagesToSend, currentChannel,
                  expectingMessage, messagesToDispatch, collided, sharedVars, drainFailed>>

UseState(c) ==
    /\ Use(c)
    /\ call[c].kind \in {"query", "refresh"} \/ ~Answered(c)
    /\ Leave(c)
    /\ UNCHANGED <<useUnchanged, cacheVars>>

\* The capabilities arrived: the info of every port is requested on the same
\* channel before the capabilities are kept.
UseCaps(c) ==
    /\ Use(c) /\ call[c].kind = "caps" /\ Answered(c)
    /\ LET caps == IF call[c].caps = NoCaps THEN call[c].reply.value ELSE call[c].caps
           infos == IF call[c].caps = NoCaps THEN PortInfos ELSE call[c].infos - 1
       IN IF infos = 0
          THEN deviceCaps' = caps /\ Leave(c)
          ELSE /\ call' = [call EXCEPT ![c].at = "send", ![c].reply = NoMessage,
                                       ![c].caps = caps, ![c].infos = infos]
               /\ UNCHANGED deviceCaps
    /\ UNCHANGED <<useUnchanged, boundStreamingPorts, portChannel>>

UseBind(c) ==
    /\ Use(c) /\ call[c].kind = "bind" /\ Answered(c)
    /\ LET r == call[c]
       IN /\ boundStreamingPorts' = [boundStreamingPorts EXCEPT ![r.bChannel] = r.port]
          /\ portChannel' = [portChannel EXCEPT ![r.port] = r.bChannel]
    /\ Leave(c)
    /\ UNCHANGED <<useUnchanged, deviceCaps>>

\* Fault: only the table of the protocol is changed.
UnbindTableOnly(p) ==
    /\ boundStreamingPorts' =
          [ch \in BindChannel |->
             IF ch = portChannel[p] THEN NoPort ELSE boundStreamingPorts[ch]]
    /\ UNCHANGED portChannel

Unregister(p) ==
    /\ boundStreamingPorts' =
          [ch \in BindChannel |->
             IF ch = portChannel[p] THEN NoPort ELSE boundStreamingPorts[ch]]
    /\ portChannel' = [portChannel EXCEPT ![p] = 0]

UseUnbind(c) ==
    /\ Use(c) /\ call[c].kind = "unbind" /\ Answered(c)
    /\ Unregister(call[c].port)
    /\ Leave(c)
    /\ UNCHANGED <<useUnchanged, deviceCaps>>

-----------------------------------------------------------------------------
(* The slave: one action handles one message, as the loop of the slave     *)
(* does (see SlaveSession for what else it does).                          *)

slaveUnchanged == <<deviceVars, protocolVars, call, historyVars, listVars, result>>

SlaveRuns == slaveUp
SlaveLeaves == slaveUp' = FALSE /\ toSlave' = <<>>
Transmit(m) == toMaster' = Append(toMaster, m)

Serve(m) ==
    /\ SlaveRuns
    /\ toSlave # <<>> /\ m = Head(toSlave)
    /\ UNCHANGED <<slaveUnchanged, listVersion, dataLeft, disconnectsLeft>>

Served == toSlave' = Tail(toSlave) /\ UNCHANGED slaveUp

ServeQuery(m) ==
    /\ Serve(m)
    /\ Served
    /\ \/ m.kind = "gDC" /\ Transmit([Reply(m, "caps") EXCEPT !.value = listVersion])
       \/ m.kind = "gPI" /\ Transmit(Reply(m, "info"))
       \/ m.kind = "get" /\ \E k \in {"state", "NOK"} : Transmit(Reply(m, k))
    /\ UNCHANGED bindVars

ServeBind(m) ==
    /\ Serve(m) /\ m.kind = "bSP"
    /\ Served
    /\ BindStatus(m.port, m.value) \in {"OK", "TOO_MANY_BINDINGS"}
    /\ BindEffect(m.port, m.value)
    /\ Transmit(Reply(m, IF BindStatus(m.port, m.value) = "OK" THEN "OK" ELSE "NOK"))

ServeUnbind(m) ==
    /\ Serve(m) /\ m.kind = "uSP"
    /\ Served
    /\ UnbindEffect(m.port)
    /\ Transmit(Reply(m, "OK"))

\* A request is refused with an Error message, and the slave leaves its loop.
Refuse(m) ==
    /\ Serve(m) /\ m.kind # "Dis"
    /\ MayFail \/ (m.kind = "bSP" /\ BindStatus(m.port, m.value) # "OK")
    /\ m.kind = "bSP" => BindStatus(m.port, m.value) # "TOO_MANY_BINDINGS"
    /\ SlaveLeaves
    /\ Transmit(Control("Err"))
    /\ UNCHANGED bindVars

ServeDisconnect(m) ==
    /\ Serve(m) /\ m.kind = "Dis"
    /\ SlaveLeaves
    /\ UNCHANGED <<bindVars, toMaster>>

\* The device rebuilds its port list and tells the master.
Reconfigure ==
    /\ SlaveRuns /\ listVersion < MaxVersion
    /\ listVersion' = listVersion + 1
    /\ ClearBindings
    /\ Transmit(Control("Reconf"))
    /\ UNCHANGED <<slaveUnchanged, toSlave, slaveUp, dataLeft, disconnectsLeft>>

Stream(p) ==
    /\ SlaveRuns /\ dataLeft > 0 /\ spChannel[p] # Unbound
    /\ dataLeft' = dataLeft - 1
    /\ Transmit(Message(spChannel[p], "data", NoCaller, 0, p, 0))
    /\ UNCHANGED <<slaveUnchanged, bindVars, toSlave, slaveUp, listVersion,
                   disconnectsLeft>>

\* The slave ends the session with a Disconnect message, or without a word.
SlaveEnds ==
    /\ SlaveRuns /\ MayFail
    /\ SlaveLeaves
    /\ Transmit(Control("Dis")) \/ UNCHANGED toMaster
    /\ UNCHANGED <<slaveUnchanged, bindVars, listVersion, dataLeft,
                   disconnectsLeft>>

-----------------------------------------------------------------------------
Init ==
    /\ PortInit
    /\ status = "CONNECTED" /\ streamsOpen = TRUE
    /\ inQueue = <<>> /\ outQueue = <<>>
    /\ mp = "read" /\ stop = FALSE /\ hasMessagesToSend = FALSE
    /\ terminator = [t \in Terminator |-> "none"]
    /\ currentChannel = CHANNEL_LOWEST_SYNCHRONOUS - 1
    /\ expectingMessage = FALSE /\ messagesToDispatch = <<>>
    /\ deviceCaps = NoCaps
    /\ boundStreamingPorts = [ch \in BindChannel |-> NoPort]
    /\ portChannel = [p \in StreamingPort |-> 0]
    /\ call = [c \in Caller |-> Idle]
    /\ toSlave = <<>> /\ toMaster = <<>> /\ slaveUp = TRUE
    /\ listVersion = 0 /\ dataLeft = MaxData
    /\ disconnectsLeft = UserDisconnects
    /\ collided = FALSE /\ drainFailed = FALSE
    /\ channelShared = FALSE /\ portShared = FALSE
    /\ delivered = <<NoPort, NoPort>>
    /\ unsentAtStop = 0

ProcessorStep ==
    \/ \E m \in {toMaster[i] : i \in DOMAIN toMaster} :
          ReceiveDisconnect(m) \/ ReceiveControl(m) \/ ReceiveMessage(m)
    \/ FindExpecting
    \/ PutAside
    \/ SendOne
    \/ ConnectionFails
    \/ EndLoop

TerminatorNext(t) == Announce(t) \/ Stop(t) \/ Close(t)

\* An operation that was begun goes on.
CallerStep(c) ==
    \/ EnterCounter(c) \/ StoreCounter(c) \/ Send(c) \/ Expect(c)
    \/ Take(c) \/ FindDisconnected(c) \/ Timeout(c)
    \/ ClearExpecting(c) \/ LookAside(c) \/ PollNothing(c) \/ DispatchAside(c)
    \/ UseState(c) \/ UseCaps(c) \/ UseBind(c) \/ UseUnbind(c)

SlaveNext ==
    \/ \E m \in {toSlave[i] : i \in DOMAIN toSlave} :
          ServeQuery(m) \/ ServeBind(m) \/ ServeUnbind(m) \/ Refuse(m)
             \/ ServeDisconnect(m)
    \/ Reconfigure
    \/ \E p \in StreamingPort : Stream(p)
    \/ SlaveEnds

Next ==
    \/ ProcessorStep
    \/ \E t \in Terminator : TerminatorNext(t)
    \/ \E c \in Caller : BeginAny(c) \/ CallerStep(c)
    \/ UserDisconnect
    \/ SlaveNext

Spec == Init /\ [][Next]_masterVars

\* The threads of the master are scheduled; of the slave nothing is assumed.
Fairness ==
    /\ WF_masterVars(ProcessorStep)
    /\ \A t \in Terminator : WF_masterVars(TerminatorNext(t))
    /\ \A c \in Caller : WF_masterVars(CallerStep(c))

FairSpec == Spec /\ Fairness

-----------------------------------------------------------------------------
(* Properties                                                              *)

MessageSet ==
    [channel : {ControlChannel, CHANNEL_REFRESH} \cup BindChannel
               \cup CHANNEL_LOWEST_SYNCHRONOUS..(CHANNEL_ROLLOVER - 1),
     kind : {"none", "gDC", "gPI", "get", "bSP", "uSP", "Dis", "Err", "Reconf",
             "caps", "info", "state", "OK", "NOK", "data"},
     by : Caller \cup {NoCaller}, nr : Nat, port : StreamingPort \cup {NoPort},
     value : Nat]

\* The state of the master; the registry of the slave has its type as well.
TypeOK ==
    /\ PortTypeOK
    /\ status \in {"CONNECTED", "DISCONNECTING", "DISCONNECTED", "ERROR"}
    /\ streamsOpen \in BOOLEAN /\ stop \in BOOLEAN /\ hasMessagesToSend \in BOOLEAN
    /\ inQueue \in Seq(MessageSet) /\ outQueue \in Seq(MessageSet)
    /\ toSlave \in Seq(MessageSet) /\ toMaster \in Seq(MessageSet)
    /\ messagesToDispatch \in Seq(MessageSet)
    /\ mp \in {"read", "aside", "send", "ended", "failed"}
    /\ terminator \in [Terminator -> {"none", "announce", "stop", "wait", "end"}]
    /\ currentChannel \in (CHANNEL_LOWEST_SYNCHRONOUS - 1)..(CHANNEL_ROLLOVER - 1)
    /\ expectingMessage \in BOOLEAN
    /\ deviceCaps \in 0..NoCaps
    /\ boundStreamingPorts \in [BindChannel -> StreamingPort \cup {NoPort}]
    /\ portChannel \in [StreamingPort -> BindChannel \cup {0}]
    /\ slaveUp \in BOOLEAN /\ listVersion \in 0..MaxVersion

\* Nothing is under way anywhere, and the connection stands.
Quiescent ==
    /\ Connected /\ slaveUp /\ mp \in {"read", "send"}
    /\ toSlave = <<>> /\ toMaster = <<>> /\ outQueue = <<>>
    /\ messagesToDispatch = <<>>
    /\ \A c \in Caller : call[c].at = "idle"

\* An operation gets the answer to its own request, whatever other callers do at the
\* time, as long as getSynchronousChannel has not given two of them the same channel:
\* "Returns a new unique channel for a new protocol."
AnsweredAsAsked ==
    ~collided =>
        \A c \in Caller : call[c].reply.kind # "none" =>
            call[c].reply.by = c /\ call[c].reply.nr = call[c].nr

\* No reply is left in the input queue when all operations are over: a later operation
\* on the same channel could take it for its own.
NoReplyLeftBehind ==
    Quiescent => \A i \in DOMAIN inQueue : inQueue[i].by = NoCaller

\* Stream data is given to the port that sent it, whichever threads bind and unbind, and
\* although the master keeps a table of its own, which lags behind the slave's in
\* binding, unbinding and reconfiguring.  Two things the code lets happen are excluded,
\* and the property fails with either: two threads that bind at once choose the same
\* free channel (bindStreamingPort looks for it before it sends the request), or two
\* operations share a channel of the protocol, so that the answer to one is taken for
\* the answer to the other.
DeliveredToItsPort == ~collided /\ ~channelShared => delivered[1] = delivered[2]

\* Both sides agree on the bindings when nothing is under way, with any number of threads
\* that bind and unbind different ports at once.  Excluded, because the code does not
\* keep the tables together then: the slave has reconfigured at all, two operations
\* shared a channel, two bindings chose the same one, a port was bound twice or in two
\* hands at once, or a caller was thrown out of expect.
BindingsAgree ==
    /\ Quiescent /\ listVersion = 0
    /\ ~collided /\ ~channelShared /\ ~portShared /\ ~drainFailed
    =>  /\ \A ch \in BindChannel : FirstPort(ch) = opdi_try_dispatch_stream(ch)
        /\ portChannel = spChannel

\* The message processor has stopped, by the condition of its loop or by an exception.
Stopped == mp \in {"ended", "failed"}

\* However the message processor stops, what was queued when it was told to is sent, or
\* the connection was cut under it: closed by another thread, or left by the slave.  The
\* condition of the loop alone never lets it go with messages unsent.  (That the thread
\* which disconnects cuts the connection itself, before they are sent, is
\* RemainingMessagesSent.)
SentBeforeStopping ==
    Stopped => unsentAtStop = 0 \/ (mp = "failed" /\ (~streamsOpen \/ ~slaveUp))

\* "flag to ensure that remaining messages are sent before stopping", "terminate the
\* connection asynchronously to give it time to finish the protocol": what was queued
\* when the message processor was told to stop is sent.
RemainingMessagesSent == Stopped => unsentAtStop = 0

\* "clear cached device capabilities", "reconfigure on the device unbinds streaming
\* ports": capabilities read before the port list changed are not kept.
CapabilitiesFollowReconfigure ==
    Quiescent => deviceCaps \in {NoCaps, listVersion}

\* Every operation returns or throws: it waits neither for ever nor for another caller.
OperationsEnd == \A c \in Caller : call[c].at # "idle" ~> call[c].at = "idle"

\* A connection that is being terminated ends up closed, and the message processor with
\* it: "terminate the connection asynchronously to give it time to finish the
\* protocol".
TerminationCompletes ==
    status = "DISCONNECTING" ~>
        status \in {"DISCONNECTED", "ERROR"} /\ mp \in {"ended", "failed"}

=============================================================================
