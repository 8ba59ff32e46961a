----------------------- MODULE MasterProtocol_proofs -----------------------
(***************************************************************************)
(* Proofs about the master of one connection, for every number of callers, *)
(* operations, ports and channels: its types, that an operation gets the   *)
(* answer to its own request, and that the message processor has sent what *)
(* it was told to before it leaves its loop.                               *)
(***************************************************************************)
EXTENDS MasterProtocol, PortBindings_proofs

-----------------------------------------------------------------------------
(* The invariant                                                           *)

SynchronousChannel == CHANNEL_LOWEST_SYNCHRONOUS..(CHANNEL_ROLLOVER - 1)
RequestChannel == {CHANNEL_REFRESH} \cup SynchronousChannel

\* What the slave relies on in a request, and the master in an answer.
WellFormed(m) ==
    /\ m.kind \in {"bSP", "uSP"} => m.port \in StreamingPort
    /\ m.kind = "bSP" => m.value \in BindChannel
    /\ m.kind = "caps" => m.value \in 0..MaxVersion
    /\ m.by = NoCaller => m.channel \notin RequestChannel

GoodMessage == {m \in MessageSet : WellFormed(m)}

LineInv ==
    /\ inQueue \in Seq(GoodMessage) /\ outQueue \in Seq(GoodMessage)
    /\ toSlave \in Seq(GoodMessage) /\ toMaster \in Seq(GoodMessage)
    /\ messagesToDispatch \in Seq(GoodMessage)

DeviceInv ==
    /\ status \in {"CONNECTED", "DISCONNECTING", "DISCONNECTED", "ERROR"}
    /\ streamsOpen \in BOOLEAN /\ slaveUp \in BOOLEAN
    /\ mp \in {"read", "aside", "send", "ended", "failed"}
    /\ terminator \in [Terminator -> {"none", "announce", "stop", "wait", "end"}]

CacheInv ==
    /\ deviceCaps \in 0..NoCaps
    /\ boundStreamingPorts \in [BindChannel -> StreamingPort \cup {NoPort}]
    /\ portChannel \in [StreamingPort -> BindChannel \cup {0}]

\* The table of the slave, whose list of ports does not change.
RegistryInv ==
    /\ TableInv
    /\ ports \in Seq(Port) /\ portCount \in Nat /\ result \in Status
    /\ listVersion \in 0..MaxVersion

OperationKind == {"caps", "query", "refresh", "bind", "unbind"}
Before == {"idle", "lock", "count", "send", "expect", "wait"}
Point == Before \cup {"clear", "drain", "poll", "use"}

CallType ==
    [at : Point, kind : OperationKind \cup {"none"}, port : StreamingPort \cup {NoPort},
     lock : Nat, channel : {0} \cup RequestChannel, bChannel : BindChannel \cup {0},
     reply : GoodMessage, caps : 0..NoCaps, infos : Int, seen : SUBSET GoodMessage,
     done : Nat, nr : Nat]

\* An operation knows what it is about, has a channel from EnterCounter on, and has no
\* reply before Take.
CallOK(r) ==
    /\ r.at # "idle" => r.kind \in OperationKind
    /\ r.kind \in {"bind", "unbind"} => r.port \in StreamingPort
    /\ r.kind = "bind" => r.bChannel \in BindChannel
    /\ r.at \notin {"idle", "lock"} => r.channel \in RequestChannel
    /\ r.at = "count" => r.channel \in SynchronousChannel
    /\ r.at \in Before => r.reply = NoMessage

CallInv ==
    /\ call \in [Caller -> CallType]
    /\ \A c \in Caller : CallOK(call[c])
    /\ currentChannel \in (CHANNEL_LOWEST_SYNCHRONOUS - 1)..(CHANNEL_ROLLOVER - 1)
    /\ expectingMessage \in BOOLEAN /\ collided \in BOOLEAN

\* What was queued when the processor was told to stop is at the head of the queue.
QueueInv ==
    /\ stop \in BOOLEAN /\ hasMessagesToSend \in BOOLEAN
    /\ outQueue # <<>> => hasMessagesToSend
    /\ unsentAtStop \in 0..Len(outQueue)
    /\ mp = "ended" => stop /\ unsentAtStop = 0

\* The message that is about to be put aside stays at the head of the line.
AsideInv == mp = "aside" => toMaster # <<>>

\* Callers that have got their channels have different ones.
Using(c) == call[c].at \notin {"idle", "lock", "count"}
ChannelsDiffer ==
    \A c, d \in Caller :
        Using(c) /\ Using(d) /\ call[c].channel = call[d].channel => c = d

\* A request or an answer that is under way is awaited by the caller it belongs to ...
Awaited(m) ==
    m.by # NoCaller =>
        /\ call[m.by].at \in {"expect", "wait"}
        /\ call[m.by].nr = m.nr /\ call[m.by].channel = m.channel
UnderWay == ToSet(outQueue) \cup ToSet(toSlave) \cup ToSet(toMaster) \cup ToSet(inQueue)

\* ... and there is one of a caller at a time.
Senders(queue) == {m.by : m \in ToSet(queue)} \ {NoCaller}
Single(queue) ==
    \A i, j \in DOMAIN queue : queue[i].by = queue[j].by /\ queue[i].by # NoCaller => i = j
Apart(queue, other) == Senders(queue) \cap Senders(other) = {}

OneEach ==
    /\ Single(outQueue) /\ Single(toSlave) /\ Single(toMaster) /\ Single(inQueue)
    /\ Apart(outQueue, toSlave) /\ Apart(outQueue, toMaster) /\ Apart(outQueue, inQueue)
    /\ Apart(toSlave, toMaster) /\ Apart(toSlave, inQueue) /\ Apart(toMaster, inQueue)

UnderWayInv == (\A m \in UnderWay : Awaited(m)) /\ OneEach

AnswerInv ==
    ~collided =>
        /\ ChannelsDiffer
        /\ AnsweredAsAsked
        /\ Connected => UnderWayInv

TypeInv ==
    /\ LineInv /\ DeviceInv /\ CacheInv /\ RegistryInv /\ CallInv /\ QueueInv
    /\ AsideInv
MasterInv == TypeInv /\ AnswerInv

-----------------------------------------------------------------------------
(* Queues                                                                  *)

\* What a queue of messages consists of.
LEMMA QueueElements ==
    ASSUME NEW q \in Seq(GoodMessage)
    PROVE  /\ Len(q) \in Nat /\ DOMAIN q = 1..Len(q)
           /\ \A i \in DOMAIN q : q[i] \in GoodMessage /\ q[i] \in ToSet(q)
           /\ \A m \in ToSet(q) : \E i \in DOMAIN q : m = q[i]
           /\ \A m \in ToSet(q) : m \in GoodMessage
<1>1. Len(q) \in Nat /\ DOMAIN q = 1..Len(q) /\ q \in [1..Len(q) -> GoodMessage]
    BY LenProperties
<1>2. \A i \in DOMAIN q : q[i] \in GoodMessage
    BY <1>1
<1> QED
    BY <1>1, <1>2 DEF ToSet

\* An empty queue holds no message.
LEMMA EmptyQueue ==
    /\ <<>> \in Seq(GoodMessage) /\ Len(<<>>) = 0
    /\ ToSet(<<>>) = {} /\ Senders(<<>>) = {} /\ Single(<<>>)
<1>1. <<>> \in Seq(GoodMessage) /\ Len(<<>>) = 0
    BY EmptySeq
<1>2. DOMAIN <<>> = {}
    BY <1>1, LenProperties
<1>3. ToSet(<<>>) = {}
    BY <1>2 DEF ToSet
<1> QED
    BY <1>1, <1>2, <1>3 DEF Senders, Single

\* A message put at the end of a queue is one more message in it.
LEMMA AppendMessage ==
    ASSUME NEW q \in Seq(GoodMessage), NEW m \in GoodMessage
    PROVE  /\ Append(q, m) \in Seq(GoodMessage)
           /\ Append(q, m) # <<>>
           /\ Len(Append(q, m)) = Len(q) + 1
           /\ ToSet(Append(q, m)) = ToSet(q) \cup {m}
           /\ Senders(Append(q, m)) = Senders(q) \cup ({m.by} \ {NoCaller})
           /\ Single(q) /\ m.by \notin Senders(q) => Single(Append(q, m))
<1> DEFINE r == Append(q, m)
           n == Len(q)
<1>1. /\ r \in Seq(GoodMessage) /\ r # <<>> /\ Len(r) = n + 1
      /\ \A i \in 1..n : r[i] = q[i]
      /\ r[n + 1] = m
    BY AppendProperties
<1>2. n \in Nat /\ DOMAIN q = 1..n
    BY QueueElements
<1> HIDE DEF r
<1>3. DOMAIN r = 1..(n + 1)
    BY <1>1, QueueElements
<1>4. ToSet(r) = ToSet(q) \cup {m}
    <2>1. ToSet(r) = {r[i] : i \in 1..(n + 1)} /\ ToSet(q) = {q[i] : i \in 1..n}
        BY <1>2, <1>3 DEF ToSet
    <2>2. 1..(n + 1) = 1..n \cup {n + 1}
        BY <1>2
    <2> QED
        BY <1>1, <2>1, <2>2
<1>5. Senders(r) = Senders(q) \cup ({m.by} \ {NoCaller})
    BY <1>4 DEF Senders
<1>6. ASSUME Single(q), m.by \notin Senders(q)
      PROVE  Single(r)
    <2>1. SUFFICES ASSUME NEW i \in 1..(n + 1), NEW j \in 1..(n + 1),
                          r[i].by = r[j].by, r[i].by # NoCaller
                   PROVE  i = j
        BY <1>3 DEF Single
    <2>2. \A k \in 1..n : q[k].by # NoCaller => q[k].by \in Senders(q)
        BY <1>2, QueueElements DEF Senders
    <2>3. CASE i \in 1..n /\ j \in 1..n
        BY <1>1, <1>2, <1>6, <2>1, <2>3 DEF Single
    <2>4. CASE i = n + 1 /\ j \in 1..n
        BY <1>1, <1>6, <2>1, <2>2, <2>4
    <2>5. CASE i \in 1..n /\ j = n + 1
        BY <1>1, <1>6, <2>1, <2>2, <2>5
    <2>6. (i \in 1..n \/ i = n + 1) /\ (j \in 1..n \/ j = n + 1)
        BY <1>2
    <2> QED
        BY <2>3, <2>4, <2>5, <2>6
<1> QED
    BY <1>1, <1>4, <1>5, <1>6 DEF r

\* A message taken out of a queue is no longer in it, if it is the only one of its caller.
LEMMA RemoveMessage ==
    ASSUME NEW q \in Seq(GoodMessage), NEW k \in DOMAIN q,
           NEW r \in Seq(GoodMessage), Len(r) = Len(q) - 1,
           \A j \in 1..Len(r) : r[j] = IF j < k THEN q[j] ELSE q[j + 1]
    PROVE  /\ ToSet(r) \subseteq ToSet(q) /\ Senders(r) \subseteq Senders(q)
           /\ q[k].by # NoCaller => q[k].by \in Senders(q)
           /\ Single(q) => Single(r) /\ q[k].by \notin Senders(r)
<1> DEFINE at(j) == IF j < k THEN j ELSE j + 1
           n == Len(q)
<1>1. n \in Nat /\ DOMAIN q = 1..n /\ DOMAIN r = 1..(n - 1) /\ k \in 1..n
    BY QueueElements
<1>2. \A j \in 1..(n - 1) : at(j) \in 1..n /\ at(j) # k /\ r[j] = q[at(j)]
    BY <1>1
<1>3. \A i, j \in 1..(n - 1) : at(i) = at(j) => i = j
    BY <1>1
<1> HIDE DEF at, n
<1>4. ToSet(r) \subseteq ToSet(q)
    BY <1>1, <1>2 DEF ToSet
<1>5. Senders(r) \subseteq Senders(q)
    BY <1>4 DEF Senders
<1>6. q[k].by # NoCaller => q[k].by \in Senders(q)
    BY QueueElements DEF Senders
<1>7. ASSUME Single(q)
      PROVE  Single(r)
    BY <1>1, <1>2, <1>3, <1>7 DEF Single
<1>8. ASSUME Single(q), q[k].by \in Senders(r)
      PROVE  FALSE
    <2>1. PICK m \in ToSet(r) : m.by = q[k].by /\ m.by # NoCaller
        BY <1>8 DEF Senders
    <2>2. PICK j \in 1..(n - 1) : m = r[j]
        BY <1>1, <2>1, QueueElements
    <2>3. at(j) = k
        BY <1>1, <1>2, <1>8, <2>1, <2>2 DEF Single
    <2> QED
        BY <1>2, <2>3
<1> QED
    BY <1>4, <1>5, <1>6, <1>7, <1>8

\* The same for the head of a queue.
LEMMA TailMessage ==
    ASSUME NEW q \in Seq(GoodMessage), q # <<>>
    PROVE  /\ Tail(q) \in Seq(GoodMessage) /\ Len(Tail(q)) = Len(q) - 1
           /\ Head(q) \in GoodMessage /\ Head(q) \in ToSet(q)
           /\ ToSet(Tail(q)) \subseteq ToSet(q) /\ Senders(Tail(q)) \subseteq Senders(q)
           /\ Head(q).by # NoCaller => Head(q).by \in Senders(q)
           /\ Single(q) => Single(Tail(q)) /\ Head(q).by \notin Senders(Tail(q))
<1> DEFINE r == Tail(q)
<1>1. /\ Head(q) \in GoodMessage /\ r \in Seq(GoodMessage) /\ Len(r) = Len(q) - 1
      /\ \A i \in 1..Len(r) : r[i] = q[i + 1]
    BY HeadTailProperties
<1>2. Len(q) \in Nat \ {0} /\ DOMAIN q = 1..Len(q)
    BY EmptySeq, QueueElements
<1>3. Head(q) = q[1] /\ 1 \in DOMAIN q
    BY <1>2
<1> HIDE DEF r
<1>4. \A j \in 1..Len(r) : r[j] = IF j < 1 THEN q[j] ELSE q[j + 1]
    BY <1>1, <1>2
<1>5. /\ ToSet(r) \subseteq ToSet(q) /\ Senders(r) \subseteq Senders(q)
      /\ q[1].by # NoCaller => q[1].by \in Senders(q)
      /\ Single(q) => Single(r) /\ q[1].by \notin Senders(r)
    BY <1>1, <1>3, <1>4, RemoveMessage
<1>6. q[1] \in ToSet(q)
    BY <1>3, QueueElements
<1> QED
    BY <1>1, <1>3, <1>5, <1>6 DEF r

-----------------------------------------------------------------------------
(* Messages                                                                *)

\* The channels of requests are neither the control channel nor one to stream on.
LEMMA ChannelFacts ==
    /\ RequestChannel \subseteq Nat /\ BindChannel \subseteq Nat
    /\ 0 \notin RequestChannel /\ BindChannel \cap RequestChannel = {}
    /\ 0 \notin BindChannel
    /\ SynchronousChannel \subseteq RequestChannel
    /\ CHANNEL_REFRESH \in RequestChannel
    /\ \A ch \in {0} \cup RequestChannel \cup BindChannel :
          ch \in {ControlChannel, CHANNEL_REFRESH} \cup BindChannel
                 \cup CHANNEL_LOWEST_SYNCHRONOUS..(CHANNEL_ROLLOVER - 1)
    BY MasterAssumption
       DEF MasterAssumption, RequestChannel, SynchronousChannel, CHANNEL_REFRESH,
           ControlChannel

\* A message is well typed if its fields are.
LEMMA MessageIsTyped ==
    ASSUME NEW ch \in {0} \cup RequestChannel \cup BindChannel,
           NEW kind \in {"none", "gDC", "gPI", "get", "bSP", "uSP", "Dis", "Err", "Reconf",
                         "caps", "info", "state", "OK", "NOK", "data"},
           NEW by \in Caller \cup {NoCaller}, NEW nr \in Nat,
           NEW port \in StreamingPort \cup {NoPort}, NEW value \in Nat
    PROVE  Message(ch, kind, by, nr, port, value) \in MessageSet
    BY ChannelFacts DEF Message, MessageSet

\* A control message belongs to no caller.
LEMMA ControlMessage ==
    ASSUME NEW kind \in {"none", "Dis", "Err", "Reconf"}
    PROVE  /\ Control(kind) \in GoodMessage
           /\ Control(kind).by = NoCaller /\ Control(kind).kind = kind
<1>1. Control(kind) \in MessageSet
    BY MessageIsTyped DEF Control, ControlChannel
<1>2. WellFormed(Control(kind))
    BY ChannelFacts DEF WellFormed, Control, Message, ControlChannel
<1> QED
    BY <1>1, <1>2 DEF GoodMessage, Control, Message

\* A reply belongs to whom the request belongs to.
LEMMA ReplyMessage ==
    ASSUME NEW m \in GoodMessage, NEW kind \in {"info", "state", "OK", "NOK"}
    PROVE  /\ Reply(m, kind) \in GoodMessage
           /\ Reply(m, kind).by = m.by /\ Reply(m, kind).nr = m.nr
           /\ Reply(m, kind).channel = m.channel
<1>1. m \in MessageSet /\ WellFormed(m)
    BY DEF GoodMessage
<1>2. /\ Reply(m, kind) \in MessageSet /\ Reply(m, kind).kind = kind
      /\ Reply(m, kind).by = m.by /\ Reply(m, kind).nr = m.nr
      /\ Reply(m, kind).channel = m.channel
    BY <1>1 DEF Reply, MessageSet
<1>3. WellFormed(Reply(m, kind))
    BY <1>1, <1>2 DEF WellFormed
<1> QED
    BY <1>2, <1>3 DEF GoodMessage

\* The same for the capabilities, which carry the version of the port list.
LEMMA CapsMessage ==
    ASSUME NEW m \in GoodMessage, NEW v \in 0..MaxVersion
    PROVE  LET r == [Reply(m, "caps") EXCEPT !.value = v]
           IN /\ r \in GoodMessage
              /\ r.by = m.by /\ r.nr = m.nr /\ r.channel = m.channel
<1> DEFINE r == [Reply(m, "caps") EXCEPT !.value = v]
<1>1. m \in MessageSet /\ WellFormed(m) /\ v \in Nat
    BY MasterAssumption DEF GoodMessage, MasterAssumption
<1>2. /\ r \in MessageSet /\ r.kind = "caps" /\ r.value = v
      /\ r.by = m.by /\ r.nr = m.nr /\ r.channel = m.channel
    BY <1>1 DEF Reply, MessageSet
<1>3. WellFormed(r)
    BY <1>1, <1>2 DEF WellFormed
<1> QED
    BY <1>2, <1>3 DEF GoodMessage

\* Stream data belongs to no caller.
LEMMA DataMessage ==
    ASSUME NEW p \in StreamingPort, NEW ch \in BindChannel
    PROVE  LET m == Message(ch, "data", NoCaller, 0, p, 0)
           IN m \in GoodMessage /\ m.by = NoCaller
<1> DEFINE m == Message(ch, "data", NoCaller, 0, p, 0)
<1>1. m \in MessageSet
    BY MessageIsTyped
<1>2. WellFormed(m) /\ m.by = NoCaller
    BY ChannelFacts DEF WellFormed, Message
<1> QED
    BY <1>1, <1>2 DEF GoodMessage

\* A request belongs to the caller that sends it and is the next it sends.
LEMMA RequestMessage ==
    ASSUME CallInv, NEW c \in Caller, call[c].at = "send"
    PROVE  /\ RequestOf(c) \in GoodMessage
           /\ RequestOf(c).by = c /\ RequestOf(c).nr = call[c].nr + 1
           /\ RequestOf(c).channel = call[c].channel
<1> DEFINE r == call[c]
           kind == CASE r.kind = "caps" /\ r.caps = NoCaps -> "gDC"
                     [] r.kind = "caps" /\ r.caps # NoCaps -> "gPI"
                     [] r.kind \in {"query", "refresh"} -> "get"
                     [] r.kind = "bind" -> "bSP"
                     [] r.kind = "unbind" -> "uSP"
<1>1. r.channel \in RequestChannel /\ r.port \in StreamingPort \cup {NoPort}
    BY DEF CallInv, CallType, CallOK
<1>2. r.nr + 1 \in Nat
    BY DEF CallInv, CallType
<1>3. r.bChannel \in Nat
    <2>1. r.bChannel \in BindChannel \cup {0}
        BY DEF CallInv, CallType
    <2> HIDE DEF r
    <2> QED
        BY <2>1, ChannelFacts
<1>4. /\ r.kind \in {"bind", "unbind"} => r.port \in StreamingPort
      /\ r.kind = "bind" => r.bChannel \in BindChannel
      /\ r.kind \in OperationKind
    BY DEF CallInv, CallType, CallOK
<1>5. /\ kind \in {"gDC", "gPI", "get", "bSP", "uSP"}
      /\ kind = "bSP" => r.kind = "bind"
      /\ kind = "uSP" => r.kind = "unbind"
    BY <1>4 DEF OperationKind
<1>6. RequestOf(c) = Message(r.channel, kind, c, r.nr + 1, r.port, r.bChannel)
    BY DEF RequestOf
<1> HIDE DEF kind, r
<1>7. RequestOf(c) \in MessageSet
    <2> DEFINE k == r.nr + 1
    <2>1. r.channel \in {0} \cup RequestChannel \cup BindChannel /\ k \in Nat
        BY <1>1, <1>2
    <2>2. kind \in {"none", "gDC", "gPI", "get", "bSP", "uSP", "Dis", "Err", "Reconf",
                    "caps", "info", "state", "OK", "NOK", "data"}
        BY <1>5
    <2> HIDE DEF k
    <2>3. Message(r.channel, kind, c, k, r.port, r.bChannel) \in MessageSet
        BY <1>1, <1>3, <2>1, <2>2, MessageIsTyped
    <2> QED
        BY <1>6, <2>3 DEF k
<1>8. WellFormed(RequestOf(c))
    BY <1>1, <1>4, <1>5, <1>6, MasterAssumption DEF WellFormed, Message, MasterAssumption
<1> QED
    BY <1>6, <1>7, <1>8 DEF GoodMessage, Message, r

-----------------------------------------------------------------------------
(* What a step that leaves the variables of an invariant alone preserves   *)

\* The queues keep their types.
LEMMA LineFrame ==
    ASSUME LineInv,
           UNCHANGED <<inQueue, outQueue, toSlave, toMaster, messagesToDispatch>>
    PROVE  LineInv'
    BY DEF LineInv

\* So does the state of the device ...
LEMMA DeviceFrame ==
    ASSUME DeviceInv, UNCHANGED <<status, streamsOpen, slaveUp, mp, terminator>>
    PROVE  DeviceInv'
    BY DEF DeviceInv

\* ... and what the protocol remembers of the slave.
LEMMA CacheFrame ==
    ASSUME CacheInv, UNCHANGED cacheVars
    PROVE  CacheInv'
    BY DEF CacheInv, cacheVars

\* The table of the slave stays well formed.
LEMMA RegistryFrame ==
    ASSUME RegistryInv, UNCHANGED <<portVars, listVersion>>
    PROVE  RegistryInv'
    BY DEF RegistryInv, TableInv, TableWellFormed, ChannelIsBinding, portVars

\* The callers stay where they are.
LEMMA CallFrame ==
    ASSUME CallInv, UNCHANGED <<call, currentChannel, expectingMessage, collided>>
    PROVE  CallInv'
    BY DEF CallInv

\* What is still to be sent before the stop does not change.
LEMMA QueueFrame ==
    ASSUME QueueInv,
           UNCHANGED <<mp, stop, hasMessagesToSend, outQueue, unsentAtStop>>
    PROVE  QueueInv'
    BY DEF QueueInv

\* No step restores the connection, and the answers are kept with the callers: what is
\* left to show is that the requests under way are accounted for.
LEMMA AnswerFrame ==
    ASSUME AnswerInv, UNCHANGED <<call, collided>>, Connected' => Connected,
           ~collided /\ Connected' /\ UnderWayInv => UnderWayInv'
    PROVE  AnswerInv'
<1>1. ChannelsDiffer => ChannelsDiffer'
    BY DEF ChannelsDiffer, Using
<1>2. AnsweredAsAsked => AnsweredAsAsked'
    BY DEF AnsweredAsAsked
<1> QED
    BY <1>1, <1>2 DEF AnswerInv

\* Nothing moves: what is under way is the same.
LEMMA UnderWayFrame ==
    ASSUME UnderWayInv, UNCHANGED <<call, outQueue, toSlave, toMaster, inQueue>>
    PROVE  UnderWayInv'
<1>1. UnderWay' = UnderWay
    BY DEF UnderWay
<1>2. \A m : Awaited(m) => Awaited(m)'
    BY DEF Awaited
<1>3. OneEach'
    BY DEF UnderWayInv, OneEach
<1> QED
    BY <1>1, <1>2, <1>3 DEF UnderWayInv

-----------------------------------------------------------------------------
(* Messages under way                                                      *)

\* A message that goes from one queue to another, or is answered, stays the only one
\* of its caller.
LEMMA MoveMessage ==
    ASSUME NEW q \in Seq(GoodMessage), q # <<>>, NEW r \in Seq(GoodMessage),
           NEW m \in GoodMessage, m.by \in {Head(q).by, NoCaller},
           Single(q), Single(r), Apart(q, r)
    PROVE  /\ Single(Tail(q)) /\ Single(Append(r, m)) /\ Apart(Tail(q), Append(r, m))
           /\ \A s : Apart(q, s) => Apart(Tail(q), s)
           /\ \A s : Apart(q, s) /\ Apart(r, s) => Apart(Append(r, m), s)
<1>1. /\ Senders(Tail(q)) \subseteq Senders(q) /\ Single(Tail(q))
      /\ Head(q).by # NoCaller => Head(q).by \in Senders(q)
      /\ Head(q).by \notin Senders(Tail(q))
    BY TailMessage
<1>2. m.by \notin Senders(r)
    BY <1>1 DEF Apart, Senders
<1>3. /\ Senders(Append(r, m)) = Senders(r) \cup ({m.by} \ {NoCaller})
      /\ Single(Append(r, m))
    BY <1>2, AppendMessage
<1> HIDE DEF Senders
<1> QED
    BY <1>1, <1>3 DEF Apart

\* The callers are told apart from NoCaller.
LEMMA SendersAreCallers ==
    ASSUME NEW q \in Seq(GoodMessage)
    PROVE  Senders(q) \subseteq Caller /\ NoCaller \notin Senders(q)
    BY QueueElements DEF Senders, GoodMessage, MessageSet

\* While the callers stay where they are, it is enough that no other message than those
\* under way and their answers is under way, and one of a caller at a time.
LEMMA UnderWayKept ==
    ASSUME UnderWayInv, UNCHANGED call, OneEach',
           \A m \in UnderWay' : \/ m.by = NoCaller
                                \/ \E n \in UnderWay : n.by = m.by /\ n.nr = m.nr
                                                       /\ n.channel = m.channel
    PROVE  UnderWayInv'
<1>1. ASSUME NEW m \in UnderWay'
      PROVE  Awaited(m)'
    <2>1. CASE m.by = NoCaller
        BY <2>1 DEF Awaited
    <2>2. CASE \E n \in UnderWay : n.by = m.by /\ n.nr = m.nr /\ n.channel = m.channel
        BY <2>2 DEF UnderWayInv, Awaited
    <2> QED
        BY <1>1, <2>1, <2>2
<1> QED
    BY <1>1 DEF UnderWayInv

-----------------------------------------------------------------------------
(* The message processor and the termination of the connection             *)

\* A Disconnect message is queued and a terminator starts, or nothing happens.
LEMMA DisconnectEffect ==
    ASSUME TypeInv, Disconnect, UNCHANGED <<stop, unsentAtStop>>,
           mp' = "ended" => mp = "ended"
    PROVE  /\ outQueue' \in Seq(GoodMessage)
           /\ terminator' \in [Terminator -> {"none", "announce", "stop", "wait", "end"}]
           /\ QueueInv'
           /\ Senders(outQueue') = Senders(outQueue)
           /\ Single(outQueue) => Single(outQueue')
           /\ \A m \in ToSet(outQueue') : m \in ToSet(outQueue) \/ m.by = NoCaller
<1>1. outQueue \in Seq(GoodMessage)
    BY DEF TypeInv, LineInv
<1>2. CASE ~Connected
    BY <1>1, <1>2 DEF Disconnect, TypeInv, QueueInv, DeviceInv
<1>3. CASE Connected
    <2> DEFINE m == Control("Dis")
    <2>1. m \in GoodMessage /\ m.by = NoCaller /\ m.by \notin Senders(outQueue)
        BY <1>1, ControlMessage, SendersAreCallers
    <2>2. outQueue' = Append(outQueue, m) /\ hasMessagesToSend' = TRUE
        BY <1>3 DEF Disconnect, Enqueue
    <2>3. terminator' \in [Terminator -> {"none", "announce", "stop", "wait", "end"}]
        BY <1>3 DEF Disconnect, TypeInv, DeviceInv
    <2> HIDE DEF m
    <2>4. /\ outQueue' \in Seq(GoodMessage) /\ Len(outQueue') = Len(outQueue) + 1
          /\ ToSet(outQueue') = ToSet(outQueue) \cup {m}
          /\ Senders(outQueue') = Senders(outQueue) \cup ({m.by} \ {NoCaller})
          /\ Single(outQueue) => Single(outQueue')
        BY <1>1, <2>1, <2>2, AppendMessage
    <2>5. QueueInv'
        <3>1. Len(outQueue) \in Nat
            BY <1>1, QueueElements
        <3> QED
            BY <2>2, <2>4, <3>1 DEF TypeInv, QueueInv
    <2> QED
        BY <2>1, <2>3, <2>4, <2>5
<1> QED
    BY <1>2, <1>3

\* What the invariant says of the queues.
LEMMA QueuesOfLine ==
    ASSUME LineInv
    PROVE  /\ inQueue \in Seq(GoodMessage) /\ outQueue \in Seq(GoodMessage)
           /\ toSlave \in Seq(GoodMessage) /\ toMaster \in Seq(GoodMessage)
           /\ messagesToDispatch \in Seq(GoodMessage)
    BY DEF LineInv

\* The message at the head of the line ends in inQueue or nowhere.
LEMMA MoveIn ==
    ASSUME LineInv, toMaster # <<>>, UNCHANGED <<call, toSlave>>,
           toMaster' = Tail(toMaster),
           inQueue' = Append(inQueue, Head(toMaster)) \/ UNCHANGED inQueue,
           Senders(outQueue') = Senders(outQueue),
           Single(outQueue) => Single(outQueue'),
           \A m \in ToSet(outQueue') : m \in ToSet(outQueue) \/ m.by = NoCaller
    PROVE  /\ toMaster' \in Seq(GoodMessage) /\ inQueue' \in Seq(GoodMessage)
           /\ UnderWayInv => UnderWayInv'
<1> DEFINE m == Head(toMaster)
<1>1. inQueue \in Seq(GoodMessage) /\ toMaster \in Seq(GoodMessage)
    BY QueuesOfLine
<1>2. /\ m \in GoodMessage /\ m \in ToSet(toMaster) /\ toMaster' \in Seq(GoodMessage)
      /\ ToSet(toMaster') \subseteq ToSet(toMaster)
    BY <1>1, TailMessage
<1>3. /\ inQueue' \in Seq(GoodMessage)
      /\ ToSet(inQueue') \subseteq ToSet(inQueue) \cup {m}
    <2>1. CASE UNCHANGED inQueue
        BY <1>1, <2>1
    <2>2. CASE inQueue' = Append(inQueue, m)
        <3> HIDE DEF m
        <3> QED
            BY <1>1, <1>2, <2>2, AppendMessage
    <2> QED
        BY <2>1, <2>2
<1>4. ASSUME UnderWayInv
      PROVE  UnderWayInv'
    <2>1. OneEach
        BY <1>4 DEF UnderWayInv
    <2>2. /\ Single(Tail(toMaster)) /\ Single(Append(inQueue, m))
          /\ Apart(Tail(toMaster), Append(inQueue, m))
          /\ \A s : Apart(toMaster, s) => Apart(Tail(toMaster), s)
          /\ \A s : Apart(toMaster, s) /\ Apart(inQueue, s) => Apart(Append(inQueue, m), s)
        BY <1>1, <1>2, <2>1, MoveMessage DEF OneEach
    <2> HIDE DEF m
    <2>3. /\ Single(toMaster') /\ Single(inQueue') /\ Apart(toMaster', inQueue')
          /\ Apart(toMaster', outQueue) /\ Apart(toMaster', toSlave)
          /\ Apart(inQueue', outQueue) /\ Apart(inQueue', toSlave)
        <3>1. /\ Apart(toMaster, outQueue) /\ Apart(toMaster, toSlave)
              /\ Apart(inQueue, outQueue) /\ Apart(inQueue, toSlave)
              /\ Single(inQueue) /\ Apart(toMaster, inQueue)
            BY <2>1 DEF OneEach, Apart
        <3>2. CASE UNCHANGED inQueue
            BY <2>2, <3>1, <3>2
        <3>3. CASE inQueue' = Append(inQueue, m)
            BY <2>2, <3>1, <3>3
        <3> QED
            BY <3>2, <3>3 DEF m
    <2>4. OneEach'
        BY <2>1, <2>3 DEF OneEach, Apart
    <2>5. \A x \in UnderWay' : x.by = NoCaller \/ x \in UnderWay
        BY <1>2, <1>3 DEF UnderWay
    <2> QED
        BY <1>4, <2>4, <2>5, UnderWayKept
<1> QED
    BY <1>2, <1>3, <1>4

\* The processor is told to stop: all that is queued is still to be sent.
LEMMA StopEffect ==
    ASSUME TypeInv, StopProcessing, UNCHANGED <<outQueue, hasMessagesToSend>>,
           mp' = "ended" => mp = "ended"
    PROVE  QueueInv'
<1>1. Len(outQueue) \in Nat
    BY QueuesOfLine, QueueElements DEF TypeInv
<1> QED
    BY <1>1 DEF StopProcessing, TypeInv, QueueInv

\* Closing loses what is on the line.
LEMMA CloseEffect ==
    ASSUME TypeInv, CloseStreams, UNCHANGED <<outQueue, hasMessagesToSend>>,
           mp' = "ended" => mp = "ended"
    PROVE  /\ QueueInv'
           /\ toSlave' \in Seq(GoodMessage) /\ toMaster' \in Seq(GoodMessage)
           /\ streamsOpen' \in BOOLEAN /\ slaveUp' \in BOOLEAN
    BY StopEffect, EmptyQueue DEF CloseStreams

\* A reconfiguration leaves no binding and no capabilities.
LEMMA ReconfiguredEffect ==
    ASSUME CacheInv, Reconfigured
    PROVE  CacheInv'
    BY MasterAssumption DEF Reconfigured, CacheInv, MasterAssumption, NoCaps

\* Dispatching clears the cache or ends the connection.
LEMMA ActEffect ==
    ASSUME TypeInv, NEW m, NEW rest \in Seq(GoodMessage), Act(m, rest),
           UNCHANGED <<outQueue, hasMessagesToSend>>, mp' = "ended" => mp = "ended"
    PROVE  /\ CacheInv' /\ QueueInv'
           /\ toSlave' \in Seq(GoodMessage) /\ toMaster' \in Seq(GoodMessage)
           /\ status' \in {"CONNECTED", "DISCONNECTING", "DISCONNECTED", "ERROR"}
           /\ streamsOpen' \in BOOLEAN /\ slaveUp' \in BOOLEAN
           /\ Connected' => Connected /\ toMaster' = rest /\ UNCHANGED toSlave
<1>1. CASE Reconfigured /\ toMaster' = rest /\ UNCHANGED closingVars
    <2>1. /\ toSlave' \in Seq(GoodMessage) /\ QueueInv'
        BY <1>1 DEF TypeInv, LineInv, QueueInv, closingVars
    <2> QED
        BY <1>1, <2>1, ReconfiguredEffect DEF TypeInv, DeviceInv, closingVars, Connected
<1>2. CASE SetDeviceError /\ UNCHANGED cacheVars
    <2>1. CloseStreams /\ status' = "ERROR"
        BY <1>2 DEF SetDeviceError
    <2> QED
        BY <1>2, <2>1, CloseEffect, CacheFrame DEF TypeInv, Connected
<1> QED
    BY <1>1, <1>2 DEF Act

\* What receiving leaves alone.
LEMMA ReceiveFrame ==
    ASSUME TypeInv, UNCHANGED processorUnchanged
    PROVE  RegistryInv' /\ CallInv' /\ UNCHANGED <<call, collided>>
    BY RegistryFrame, CallFrame DEF TypeInv, processorUnchanged

\* A Disconnect message arrives.
LEMMA ReceiveDisconnectStep ==
    ASSUME MasterInv, NEW m, ReceiveDisconnect(m)
    PROVE  MasterInv'
<1> USE DEF MasterInv
<1>1. /\ toMaster # <<>> /\ m = Head(toMaster) /\ UNCHANGED processorUnchanged
      /\ toMaster' = Tail(toMaster) /\ Disconnect /\ inQueue' = Append(inQueue, m)
      /\ mp' = "send" /\ UNCHANGED <<closingVars, messagesToDispatch, cacheVars>>
    BY DEF ReceiveDisconnect, Receive
<1>2. /\ RegistryInv' /\ CallInv' /\ UNCHANGED <<call, collided>>
      /\ LineInv /\ QueueInv /\ DeviceInv /\ CacheInv
    BY <1>1, ReceiveFrame DEF TypeInv
<1>3. /\ outQueue' \in Seq(GoodMessage)
      /\ terminator' \in [Terminator -> {"none", "announce", "stop", "wait", "end"}]
      /\ Senders(outQueue') = Senders(outQueue)
      /\ Single(outQueue) => Single(outQueue')
      /\ \A x \in ToSet(outQueue') : x \in ToSet(outQueue) \/ x.by = NoCaller
      /\ QueueInv'
    BY <1>1, DisconnectEffect DEF closingVars
<1>4. /\ toMaster' \in Seq(GoodMessage) /\ inQueue' \in Seq(GoodMessage)
      /\ UnderWayInv => UnderWayInv'
    BY <1>1, <1>2, <1>3, MoveIn DEF closingVars
<1>5. LineInv'
    BY <1>1, <1>2, <1>3, <1>4 DEF LineInv, closingVars
<1>6. DeviceInv' /\ CacheInv'
    BY <1>1, <1>2, <1>3, CacheFrame DEF DeviceInv, closingVars
<1>7. AnswerInv'
    BY <1>1, <1>2, <1>4, AnswerFrame DEF Connected, closingVars
<1>8. AsideInv'
    BY <1>1 DEF AsideInv
<1> QED
    BY <1>2, <1>3, <1>5, <1>6, <1>7, <1>8 DEF TypeInv

\* A control message is dispatched, and ends in inQueue as well.
LEMMA ReceiveControlStep ==
    ASSUME MasterInv, NEW m, ReceiveControl(m)
    PROVE  MasterInv'
<1> USE DEF MasterInv
<1>1. /\ toMaster # <<>> /\ m = Head(toMaster) /\ UNCHANGED processorUnchanged
      /\ Act(m, Tail(toMaster)) /\ inQueue' = Append(inQueue, m) /\ mp' = "send"
      /\ UNCHANGED <<outQueue, hasMessagesToSend, terminator, messagesToDispatch>>
    BY DEF ReceiveControl, Receive
<1>2. /\ RegistryInv' /\ CallInv' /\ UNCHANGED <<call, collided>>
      /\ LineInv /\ DeviceInv
    BY <1>1, ReceiveFrame DEF TypeInv
<1>3. m \in GoodMessage /\ Tail(toMaster) \in Seq(GoodMessage)
    BY <1>1, <1>2, QueuesOfLine, TailMessage
<1>4. /\ CacheInv' /\ QueueInv'
      /\ toSlave' \in Seq(GoodMessage) /\ toMaster' \in Seq(GoodMessage)
      /\ status' \in {"CONNECTED", "DISCONNECTING", "DISCONNECTED", "ERROR"}
      /\ streamsOpen' \in BOOLEAN /\ slaveUp' \in BOOLEAN
      /\ Connected' => Connected /\ toMaster' = Tail(toMaster) /\ UNCHANGED toSlave
    BY <1>1, <1>3, ActEffect
<1>5. inQueue' \in Seq(GoodMessage)
    BY <1>1, <1>2, <1>3, QueuesOfLine, AppendMessage
<1>6. LineInv' /\ DeviceInv'
    BY <1>1, <1>2, <1>4, <1>5 DEF LineInv, DeviceInv
<1>7. Connected' /\ UnderWayInv => UnderWayInv'
    BY <1>1, <1>2, <1>4, MoveIn
<1>8. AnswerInv'
    BY <1>2, <1>4, <1>7, AnswerFrame
<1>9. AsideInv'
    BY <1>1 DEF AsideInv
<1> QED
    BY <1>2, <1>4, <1>6, <1>8, <1>9 DEF TypeInv

\* A reply is put into inQueue, stream data is delivered.
LEMMA ReceiveMessageStep ==
    ASSUME MasterInv, NEW m, ReceiveMessage(m)
    PROVE  MasterInv'
<1> USE DEF MasterInv
<1>1. /\ toMaster # <<>> /\ m = Head(toMaster) /\ UNCHANGED processorUnchanged
      /\ toMaster' = Tail(toMaster) /\ mp' = "send"
      /\ inQueue' = Append(inQueue, m) \/ UNCHANGED inQueue
      /\ UNCHANGED <<closingVars, outQueue, hasMessagesToSend, terminator,
                     messagesToDispatch, cacheVars>>
    BY DEF ReceiveMessage, Receive
<1>2. /\ RegistryInv' /\ CallInv' /\ UNCHANGED <<call, collided>>
      /\ LineInv /\ QueueInv /\ DeviceInv /\ CacheInv
    BY <1>1, ReceiveFrame DEF TypeInv
<1>3. /\ toMaster' \in Seq(GoodMessage) /\ inQueue' \in Seq(GoodMessage)
      /\ UnderWayInv => UnderWayInv'
    BY <1>1, <1>2, MoveIn DEF closingVars
<1>4. LineInv' /\ DeviceInv' /\ CacheInv' /\ QueueInv'
    BY <1>1, <1>2, <1>3, CacheFrame DEF LineInv, DeviceInv, QueueInv, closingVars
<1>5. AnswerInv'
    BY <1>1, <1>2, <1>3, AnswerFrame DEF Connected, closingVars
<1>6. AsideInv'
    BY <1>1 DEF AsideInv
<1> QED
    BY <1>2, <1>4, <1>5, <1>6 DEF TypeInv

\* The processor finds that a message is expected ...
LEMMA FindExpectingStep ==
    ASSUME MasterInv, FindExpecting
    PROVE  MasterInv'
<1> USE DEF MasterInv, TypeInv, protocolVars, slaveVars, historyVars
<1>1. LineInv' /\ RegistryInv' /\ CacheInv' /\ CallInv'
    BY LineFrame, RegistryFrame, CacheFrame, CallFrame DEF FindExpecting
<1>2. DeviceInv' /\ QueueInv' /\ AsideInv'
    BY DEF FindExpecting, DeviceInv, QueueInv, AsideInv
<1>3. AnswerInv'
    BY AnswerFrame, UnderWayFrame DEF FindExpecting, Connected
<1> QED
    BY <1>1, <1>2, <1>3

\* ... and puts the control message aside.
LEMMA PutAsideStep ==
    ASSUME MasterInv, PutAside
    PROVE  MasterInv'
<1> USE DEF MasterInv, TypeInv, historyVars
<1>0. toMaster # <<>>
    BY DEF PutAside, AsideInv
<1>1. RegistryInv' /\ CacheInv' /\ CallInv'
    BY RegistryFrame, CacheFrame, CallFrame DEF PutAside
<1>2. /\ toMaster' \in Seq(GoodMessage) /\ inQueue' \in Seq(GoodMessage)
      /\ UnderWayInv => UnderWayInv'
    BY <1>0, MoveIn DEF PutAside
<1>3. LineInv'
    <2>1. Append(messagesToDispatch, Head(toMaster)) \in Seq(GoodMessage)
        BY <1>0, QueuesOfLine, TailMessage, AppendMessage
    <2> QED
        BY <1>2, <2>1 DEF PutAside, LineInv
<1>4. DeviceInv' /\ QueueInv' /\ AsideInv'
    BY DEF PutAside, DeviceInv, QueueInv, AsideInv
<1>5. AnswerInv'
    BY <1>2, AnswerFrame DEF PutAside, Connected
<1> QED
    BY <1>1, <1>3, <1>4, <1>5

\* The loop of the processor ends when there is nothing more to send.
LEMMA EndLoopStep ==
    ASSUME MasterInv, EndLoop
    PROVE  MasterInv'
<1> USE DEF MasterInv, TypeInv, protocolVars, slaveVars, historyVars
<1>1. LineInv' /\ RegistryInv' /\ CacheInv' /\ CallInv'
    BY LineFrame, RegistryFrame, CacheFrame, CallFrame DEF EndLoop
<1>2. DeviceInv' /\ AsideInv'
    BY DEF EndLoop, DeviceInv, AsideInv
<1>3. QueueInv'
    <2>1. outQueue = <<>> /\ Len(outQueue) = 0 /\ stop
        BY EmptyQueue DEF EndLoop, QueueInv
    <2>2. unsentAtStop = 0
        BY <2>1 DEF QueueInv
    <2> QED
        BY <2>1, <2>2 DEF EndLoop, QueueInv
<1>4. AnswerInv'
    BY AnswerFrame, UnderWayFrame DEF EndLoop, Connected
<1> QED
    BY <1>1, <1>2, <1>3, <1>4

\* The head of outQueue goes to the slave, if there is one.
LEMMA SendOneStep ==
    ASSUME MasterInv, SendOne
    PROVE  MasterInv'
<1> USE DEF MasterInv, TypeInv
<1>1. /\ RegistryInv' /\ CacheInv' /\ CallInv' /\ UNCHANGED <<call, collided>>
      /\ mp' = "read" /\ UNCHANGED <<status, streamsOpen, slaveUp, terminator, stop>>
      /\ UNCHANGED <<inQueue, toMaster, messagesToDispatch>>
    BY RegistryFrame, CacheFrame, CallFrame DEF SendOne, protocolVars
<1>2. DeviceInv' /\ AsideInv'
    BY <1>1 DEF DeviceInv, AsideInv
<1>3. CASE outQueue = <<>>
    <2>1. hasMessagesToSend' = FALSE /\ UNCHANGED <<outQueue, toSlave, unsentAtStop>>
        BY <1>3 DEF SendOne
    <2>2. LineInv' /\ QueueInv'
        BY <1>1, <1>3, <2>1, LineFrame DEF QueueInv
    <2>3. AnswerInv'
        BY <1>1, <2>1, AnswerFrame, UnderWayFrame DEF Connected
    <2> QED
        BY <1>1, <1>2, <2>2, <2>3
<1>4. CASE outQueue # <<>>
    <2> DEFINE m == Head(outQueue)
    <2>1. /\ toSlave' = Append(toSlave, m) \/ UNCHANGED toSlave
          /\ outQueue' = Tail(outQueue) /\ hasMessagesToSend' = (outQueue' # <<>>)
          /\ unsentAtStop' = IF unsentAtStop = 0 THEN 0 ELSE unsentAtStop - 1
        BY <1>4 DEF SendOne, StillToSend
    <2>2. /\ outQueue \in Seq(GoodMessage) /\ toSlave \in Seq(GoodMessage)
          /\ Len(outQueue) \in Nat
        BY QueuesOfLine, QueueElements
    <2>3. /\ m \in GoodMessage /\ m \in ToSet(outQueue) /\ outQueue' \in Seq(GoodMessage)
          /\ ToSet(outQueue') \subseteq ToSet(outQueue) /\ Len(outQueue') = Len(outQueue) - 1
        BY <1>4, <2>1, <2>2, TailMessage
    <2>4. toSlave' \in Seq(GoodMessage) /\ ToSet(toSlave') \subseteq ToSet(toSlave) \cup {m}
        BY <2>1, <2>2, <2>3, AppendMessage
    <2>5. LineInv'
        BY <1>1, <2>3, <2>4 DEF LineInv
    <2>6. QueueInv'
        <3>1. hasMessagesToSend' \in BOOLEAN /\ (outQueue' # <<>> => hasMessagesToSend')
            BY <2>1
        <3>2. unsentAtStop' \in 0..Len(outQueue')
            BY <2>1, <2>2, <2>3 DEF QueueInv
        <3> QED
            BY <1>1, <3>1, <3>2 DEF QueueInv
    <2>7. ASSUME UnderWayInv
          PROVE  UnderWayInv'
        <3>1. OneEach
            BY <2>7 DEF UnderWayInv
        <3>2. /\ Single(Tail(outQueue)) /\ Single(Append(toSlave, m))
              /\ Apart(Tail(outQueue), Append(toSlave, m))
              /\ \A s : Apart(outQueue, s) => Apart(Tail(outQueue), s)
              /\ \A s : Apart(outQueue, s) /\ Apart(toSlave, s) => Apart(Append(toSlave, m), s)
            BY <1>4, <2>2, <2>3, <3>1, MoveMessage DEF OneEach
        <3>3. /\ Single(toSlave) /\ Apart(outQueue, toSlave)
              /\ Apart(outQueue, toMaster) /\ Apart(outQueue, inQueue)
              /\ Apart(toSlave, toMaster) /\ Apart(toSlave, inQueue)
            BY <3>1 DEF OneEach
        <3>4. /\ Single(outQueue') /\ Single(toSlave') /\ Apart(outQueue', toSlave')
              /\ Apart(outQueue', toMaster) /\ Apart(outQueue', inQueue)
              /\ Apart(toSlave', toMaster) /\ Apart(toSlave', inQueue)
            <4> HIDE DEF m
            <4> QED
                BY <2>1, <3>2, <3>3
        <3>5. OneEach'
            BY <1>1, <3>1, <3>4 DEF OneEach
        <3>6. \A x \in UnderWay' : x.by = NoCaller \/ x \in UnderWay
            BY <1>1, <2>3, <2>4 DEF UnderWay
        <3> QED
            BY <1>1, <2>7, <3>5, <3>6, UnderWayKept
    <2>8. AnswerInv'
        BY <1>1, <2>7, AnswerFrame DEF Connected
    <2> QED
        BY <1>1, <1>2, <2>5, <2>6, <2>8
<1> QED
    BY <1>3, <1>4

\* Reading or writing fails.
LEMMA ConnectionFailsStep ==
    ASSUME MasterInv, ConnectionFails
    PROVE  MasterInv'
<1> USE DEF MasterInv, TypeInv
<1>1. /\ RegistryInv' /\ CacheInv' /\ CallInv' /\ UNCHANGED <<call, collided>>
      /\ mp' = "failed" /\ UNCHANGED terminator
      /\ UNCHANGED <<inQueue, outQueue, messagesToDispatch, hasMessagesToSend>>
    BY RegistryFrame, CacheFrame, CallFrame DEF ConnectionFails, protocolVars
<1>2. AsideInv'
    BY <1>1 DEF AsideInv
<1>3. CASE UNCHANGED connectionVars
    <2>1. LineInv' /\ DeviceInv' /\ QueueInv'
        BY <1>1, <1>3, LineFrame DEF DeviceInv, QueueInv, connectionVars, closingVars
    <2>2. AnswerInv'
        BY <1>1, <1>3, AnswerFrame, UnderWayFrame DEF Connected, connectionVars, closingVars
    <2> QED
        BY <1>1, <1>2, <2>1, <2>2
<1>4. CASE SetDeviceError
    <2>1. CloseStreams /\ status' = "ERROR"
        BY <1>4 DEF SetDeviceError
    <2>2. /\ QueueInv' /\ toSlave' \in Seq(GoodMessage) /\ toMaster' \in Seq(GoodMessage)
          /\ streamsOpen' \in BOOLEAN /\ slaveUp' \in BOOLEAN
        BY <1>1, <2>1, CloseEffect
    <2>3. LineInv' /\ DeviceInv'
        BY <1>1, <2>1, <2>2 DEF LineInv, DeviceInv
    <2>4. AnswerInv'
        BY <1>1, <2>1, AnswerFrame DEF Connected
    <2> QED
        BY <1>1, <1>2, <2>2, <2>3, <2>4
<1> QED
    BY <1>3, <1>4 DEF ConnectionFails

\* A terminator thread takes one of its steps.
LEMMA TerminatorNextStep ==
    ASSUME MasterInv, NEW t \in Terminator, TerminatorNext(t)
    PROVE  MasterInv'
<1> USE DEF MasterInv, TypeInv
<1>1. PICK from \in {"announce", "stop", "wait"}, to \in {"stop", "wait", "end"} :
         TerminatorStep(t, from, to)
    BY DEF TerminatorNext, Announce, Stop, Close
<1>2. /\ RegistryInv' /\ CacheInv' /\ CallInv' /\ UNCHANGED <<call, collided>>
      /\ terminator' \in [Terminator -> {"none", "announce", "stop", "wait", "end"}]
      /\ UNCHANGED <<inQueue, outQueue, messagesToDispatch, hasMessagesToSend, mp>>
    BY <1>1, RegistryFrame, CacheFrame, CallFrame DEF TerminatorStep, protocolVars, DeviceInv
<1>3. CASE UNCHANGED <<streamsOpen, toSlave, toMaster, slaveUp>> /\ QueueInv'
           /\ status' \in {status, "DISCONNECTING"}
    <2>1. LineInv' /\ DeviceInv' /\ AsideInv'
        BY <1>2, <1>3, LineFrame DEF DeviceInv, AsideInv
    <2>2. AnswerInv'
        BY <1>2, <1>3, AnswerFrame, UnderWayFrame DEF Connected
    <2> QED
        BY <1>2, <1>3, <2>1, <2>2
<1>4. CASE Close(t)
    <2>1. CloseStreams /\ status' = "DISCONNECTED" /\ mp # "aside"
        BY <1>4 DEF Close
    <2>2. /\ QueueInv' /\ toSlave' \in Seq(GoodMessage) /\ toMaster' \in Seq(GoodMessage)
          /\ streamsOpen' \in BOOLEAN /\ slaveUp' \in BOOLEAN
        BY <1>2, <2>1, CloseEffect
    <2>3. LineInv' /\ DeviceInv' /\ AsideInv'
        BY <1>2, <2>1, <2>2 DEF LineInv, DeviceInv, AsideInv
    <2>4. AnswerInv'
        BY <1>2, <2>1, AnswerFrame DEF Connected
    <2> QED
        BY <1>2, <2>2, <2>3, <2>4
<1>5. CASE Announce(t)
    BY <1>2, <1>3, <1>5 DEF Announce, QueueInv
<1>6. CASE Stop(t)
    BY <1>2, <1>3, <1>6, StopEffect DEF Stop
<1> QED
    BY <1>4, <1>5, <1>6 DEF TerminatorNext

\* The user disconnects.
LEMMA UserDisconnectStep ==
    ASSUME MasterInv, UserDisconnect
    PROVE  MasterInv'
<1> USE DEF MasterInv, TypeInv
<1>1. /\ RegistryInv' /\ CacheInv' /\ CallInv' /\ UNCHANGED <<call, collided>>
      /\ Disconnect /\ UNCHANGED <<status, streamsOpen, slaveUp, mp, stop, unsentAtStop>>
      /\ UNCHANGED <<inQueue, toSlave, toMaster, messagesToDispatch>>
    BY RegistryFrame, CacheFrame, CallFrame
       DEF UserDisconnect, protocolVars, slaveVars, historyVars
<1>2. /\ outQueue' \in Seq(GoodMessage)
      /\ terminator' \in [Terminator -> {"none", "announce", "stop", "wait", "end"}]
      /\ QueueInv'
      /\ Senders(outQueue') = Senders(outQueue)
      /\ Single(outQueue) => Single(outQueue')
      /\ \A m \in ToSet(outQueue') : m \in ToSet(outQueue) \/ m.by = NoCaller
    BY <1>1, DisconnectEffect
<1>3. LineInv' /\ DeviceInv' /\ AsideInv'
    BY <1>1, <1>2 DEF LineInv, DeviceInv, AsideInv
<1>4. ASSUME UnderWayInv
      PROVE  UnderWayInv'
    <2>1. OneEach'
        BY <1>1, <1>2, <1>4 DEF UnderWayInv, OneEach, Apart
    <2>2. \A x \in UnderWay' : x.by = NoCaller \/ x \in UnderWay
        BY <1>1, <1>2 DEF UnderWay
    <2> QED
        BY <1>1, <1>4, <2>1, <2>2, UnderWayKept
<1>5. AnswerInv'
    BY <1>1, <1>4, AnswerFrame DEF Connected
<1> QED
    BY <1>1, <1>2, <1>3, <1>5

-----------------------------------------------------------------------------
(* The slave                                                               *)

\* The slave changes nothing of the master.
LEMMA SlaveFrame ==
    ASSUME MasterInv, UNCHANGED slaveUnchanged, slaveUp' \in BOOLEAN
    PROVE  /\ DeviceInv' /\ CacheInv' /\ CallInv' /\ QueueInv'
           /\ UNCHANGED <<call, collided, status, mp, inQueue, outQueue, messagesToDispatch>>
           /\ UNCHANGED <<ports, portCount, result>>
    BY CacheFrame, CallFrame, QueueFrame
       DEF MasterInv, TypeInv, DeviceInv, slaveUnchanged, deviceVars, protocolVars,
           historyVars, listVars

\* It answers the request at the head of the line ...
LEMMA SlaveAnswers ==
    ASSUME MasterInv, UNCHANGED slaveUnchanged, UNCHANGED slaveUp, RegistryInv',
           toSlave # <<>>, toSlave' = Tail(toSlave),
           NEW m \in GoodMessage, toMaster' = Append(toMaster, m),
           m.by = Head(toSlave).by, m.nr = Head(toSlave).nr,
           m.channel = Head(toSlave).channel
    PROVE  MasterInv'
<1> USE DEF MasterInv, TypeInv
<1>1. /\ DeviceInv' /\ CacheInv' /\ CallInv' /\ QueueInv'
      /\ UNCHANGED <<call, collided, status, mp, inQueue, outQueue, messagesToDispatch>>
    BY SlaveFrame DEF DeviceInv
<1>2. /\ toSlave \in Seq(GoodMessage) /\ toMaster \in Seq(GoodMessage)
      /\ toSlave' \in Seq(GoodMessage) /\ toMaster' \in Seq(GoodMessage)
      /\ toMaster' # <<>>
      /\ Head(toSlave) \in ToSet(toSlave)
      /\ ToSet(toSlave') \subseteq ToSet(toSlave)
      /\ ToSet(toMaster') = ToSet(toMaster) \cup {m}
    BY QueuesOfLine, TailMessage, AppendMessage
<1>3. LineInv' /\ AsideInv'
    BY <1>1, <1>2 DEF LineInv, AsideInv
<1>4. ASSUME UnderWayInv
      PROVE  UnderWayInv'
    <2>1. OneEach
        BY <1>4 DEF UnderWayInv
    <2>2. /\ Single(Tail(toSlave)) /\ Single(Append(toMaster, m))
          /\ Apart(Tail(toSlave), Append(toMaster, m))
          /\ \A s : Apart(toSlave, s) => Apart(Tail(toSlave), s)
          /\ \A s : Apart(toSlave, s) /\ Apart(toMaster, s) => Apart(Append(toMaster, m), s)
        BY <1>2, <2>1, MoveMessage DEF OneEach
    <2>3. /\ Apart(toSlave, outQueue) /\ Apart(toSlave, inQueue)
          /\ Apart(toMaster, outQueue) /\ Apart(toMaster, inQueue)
        BY <2>1 DEF OneEach, Apart
    <2>4. /\ Single(toSlave') /\ Single(toMaster') /\ Apart(toSlave', toMaster')
          /\ Apart(toSlave', outQueue) /\ Apart(toSlave', inQueue)
          /\ Apart(toMaster', outQueue) /\ Apart(toMaster', inQueue)
        BY <2>2, <2>3
    <2>5. OneEach'
        BY <1>1, <2>1, <2>4 DEF OneEach, Apart
    <2>6. \A x \in UnderWay' : x \in UnderWay \/ x = m
        BY <1>1, <1>2 DEF UnderWay
    <2>7. Head(toSlave) \in UnderWay
        BY <1>2 DEF UnderWay
    <2> QED
        BY <1>1, <1>4, <2>5, <2>6, <2>7, UnderWayKept
<1>5. AnswerInv'
    BY <1>1, <1>4, AnswerFrame DEF Connected
<1> QED
    BY <1>1, <1>3, <1>5

\* ... or says something of its own, or leaves.
LEMMA SlaveSpeaks ==
    ASSUME MasterInv, UNCHANGED slaveUnchanged, slaveUp' \in BOOLEAN, RegistryInv',
           toSlave' \in {toSlave, <<>>},
           NEW m \in GoodMessage, toMaster' \in {toMaster, Append(toMaster, m)},
           m.by = NoCaller
    PROVE  MasterInv'
<1> USE DEF MasterInv, TypeInv
<1>1. /\ DeviceInv' /\ CacheInv' /\ CallInv' /\ QueueInv'
      /\ UNCHANGED <<call, collided, status, mp, inQueue, outQueue, messagesToDispatch>>
    BY SlaveFrame
<1>2. /\ toSlave \in Seq(GoodMessage) /\ toMaster \in Seq(GoodMessage)
      /\ m.by \notin Senders(toMaster)
    BY QueuesOfLine, SendersAreCallers
<1>3. /\ toSlave' \in Seq(GoodMessage) /\ ToSet(toSlave') \subseteq ToSet(toSlave)
      /\ Senders(toSlave') \subseteq Senders(toSlave)
      /\ Single(toSlave) => Single(toSlave')
    BY <1>2, EmptyQueue
<1>4. /\ toMaster' \in Seq(GoodMessage) /\ ToSet(toMaster') \subseteq ToSet(toMaster) \cup {m}
      /\ toMaster # <<>> => toMaster' # <<>>
      /\ Senders(toMaster') \subseteq Senders(toMaster)
      /\ Single(toMaster) => Single(toMaster')
    <2>1. CASE toMaster' = toMaster
        BY <1>2, <2>1
    <2>2. CASE toMaster' = Append(toMaster, m)
        <3>1. /\ Append(toMaster, m) \in Seq(GoodMessage) /\ Append(toMaster, m) # <<>>
              /\ ToSet(Append(toMaster, m)) = ToSet(toMaster) \cup {m}
              /\ Senders(Append(toMaster, m)) = Senders(toMaster) \cup ({m.by} \ {NoCaller})
              /\ Single(toMaster) => Single(Append(toMaster, m))
            BY <1>2, AppendMessage
        <3> QED
            BY <2>2, <3>1
    <2> QED
        BY <2>1, <2>2
<1>5. LineInv' /\ AsideInv'
    BY <1>1, <1>3, <1>4 DEF LineInv, AsideInv
<1>6. ASSUME UnderWayInv
      PROVE  UnderWayInv'
    <2>1. OneEach'
        BY <1>1, <1>3, <1>4, <1>6 DEF UnderWayInv, OneEach, Apart
    <2>2. \A x \in UnderWay' : x \in UnderWay \/ x.by = NoCaller
        BY <1>1, <1>3, <1>4 DEF UnderWay
    <2> QED
        BY <1>1, <1>6, <2>1, <2>2, UnderWayKept
<1>7. AnswerInv'
    BY <1>1, <1>6, AnswerFrame DEF Connected
<1> QED
    BY <1>1, <1>5, <1>7

\* The table of the slave while it handles messages.
LEMMA RegistryKept ==
    ASSUME RegistryInv, TableInv', listVersion' \in 0..MaxVersion,
           UNCHANGED <<ports, portCount, result>>
    PROVE  RegistryInv'
    BY DEF RegistryInv

\* The message the slave handles, and what stays as it is.
LEMMA ServeFrame ==
    ASSUME MasterInv, NEW m, Serve(m)
    PROVE  /\ toSlave # <<>> /\ m = Head(toSlave) /\ m \in GoodMessage
           /\ UNCHANGED slaveUnchanged /\ UNCHANGED listVersion
           /\ UNCHANGED <<ports, portCount, result>>
           /\ RegistryInv /\ slaveUp = TRUE
<1>1. toSlave # <<>> /\ m = Head(toSlave)
    BY DEF Serve
<1>2. m \in GoodMessage
    BY <1>1, QueuesOfLine, TailMessage DEF MasterInv, TypeInv
<1>3. UNCHANGED slaveUnchanged /\ UNCHANGED listVersion
    BY DEF Serve, slaveUnchanged
<1>4. UNCHANGED <<ports, portCount, result>>
    BY <1>3 DEF slaveUnchanged, listVars
<1>5. RegistryInv /\ slaveUp = TRUE
    BY DEF Serve, SlaveRuns, MasterInv, TypeInv, DeviceInv
<1> QED
    BY <1>1, <1>2, <1>3, <1>4, <1>5

\* Capabilities, port infos and port states are answered.
LEMMA ServeQueryStep ==
    ASSUME MasterInv, NEW m, ServeQuery(m)
    PROVE  MasterInv'
<1>1. /\ toSlave # <<>> /\ m = Head(toSlave) /\ m \in GoodMessage
      /\ UNCHANGED slaveUnchanged /\ UNCHANGED listVersion
      /\ UNCHANGED <<ports, portCount, result>> /\ RegistryInv
    BY ServeFrame DEF ServeQuery
<1>2. toSlave' = Tail(toSlave) /\ UNCHANGED slaveUp /\ UNCHANGED bindVars
    BY DEF ServeQuery, Served
<1>3. RegistryInv'
    BY <1>1, <1>2, RegistryFrame DEF portVars, bindVars
<1>4. \E r \in GoodMessage : toMaster' = Append(toMaster, r) /\ r.by = m.by /\ r.nr = m.nr
                             /\ r.channel = m.channel
    <2>1. CASE Transmit([Reply(m, "caps") EXCEPT !.value = listVersion])
        <3> DEFINE r == [Reply(m, "caps") EXCEPT !.value = listVersion]
        <3>1. r \in GoodMessage /\ r.by = m.by /\ r.nr = m.nr /\ r.channel = m.channel
            BY <1>1, CapsMessage DEF RegistryInv
        <3>2. toMaster' = Append(toMaster, r)
            BY <2>1 DEF Transmit
        <3> HIDE DEF r
        <3> QED
            BY <3>1, <3>2
    <2>2. ASSUME NEW k \in {"info", "state", "NOK"}, Transmit(Reply(m, k))
          PROVE  \E r \in GoodMessage : toMaster' = Append(toMaster, r) /\ r.by = m.by
                                        /\ r.nr = m.nr /\ r.channel = m.channel
        BY <1>1, <2>2, ReplyMessage DEF Transmit
    <2> QED
        BY <2>1, <2>2 DEF ServeQuery
<1> QED
    BY <1>1, <1>2, <1>3, <1>4, SlaveAnswers

\* A port is bound, if there is room.
LEMMA ServeBindStep ==
    ASSUME MasterInv, NEW m, ServeBind(m)
    PROVE  MasterInv'
<1>1. /\ toSlave # <<>> /\ m = Head(toSlave) /\ m \in GoodMessage
      /\ UNCHANGED slaveUnchanged /\ UNCHANGED listVersion
      /\ UNCHANGED <<ports, portCount, result>> /\ RegistryInv
    BY ServeFrame DEF ServeBind
<1>2. /\ toSlave' = Tail(toSlave) /\ UNCHANGED slaveUp
      /\ BindEffect(m.port, m.value) /\ m.kind = "bSP"
    BY DEF ServeBind, Served
<1>3. m.port \in Port /\ m.value \in BindChannel
    BY <1>1, <1>2 DEF GoodMessage, WellFormed, Port
<1>4. TableInv'
    BY <1>1, <1>2, <1>3, BindKeepsTable DEF RegistryInv
<1>5. RegistryInv'
    BY <1>1, <1>4, RegistryKept DEF RegistryInv
<1>6. PICK k \in {"OK", "NOK"} : toMaster' = Append(toMaster, Reply(m, k))
    BY DEF ServeBind, Transmit
<1>7. /\ Reply(m, k) \in GoodMessage /\ Reply(m, k).by = m.by /\ Reply(m, k).nr = m.nr
      /\ Reply(m, k).channel = m.channel
    BY <1>1, ReplyMessage
<1> QED
    BY <1>1, <1>2, <1>5, <1>6, <1>7, SlaveAnswers

\* A port is unbound.
LEMMA ServeUnbindStep ==
    ASSUME MasterInv, NEW m, ServeUnbind(m)
    PROVE  MasterInv'
<1>1. /\ toSlave # <<>> /\ m = Head(toSlave) /\ m \in GoodMessage
      /\ UNCHANGED slaveUnchanged /\ UNCHANGED listVersion
      /\ UNCHANGED <<ports, portCount, result>> /\ RegistryInv
    BY ServeFrame DEF ServeUnbind
<1>2. /\ toSlave' = Tail(toSlave) /\ UNCHANGED slaveUp
      /\ UnbindEffect(m.port) /\ m.kind = "uSP"
    BY DEF ServeUnbind, Served
<1>3. m.port \in Port
    BY <1>1, <1>2 DEF GoodMessage, WellFormed, Port
<1>4. TableInv'
    BY <1>1, <1>2, <1>3, UnbindKeepsTable DEF RegistryInv
<1>5. RegistryInv'
    BY <1>1, <1>4, RegistryKept DEF RegistryInv
<1>6. toMaster' = Append(toMaster, Reply(m, "OK"))
    BY DEF ServeUnbind, Transmit
<1>7. /\ Reply(m, "OK") \in GoodMessage /\ Reply(m, "OK").by = m.by
      /\ Reply(m, "OK").nr = m.nr /\ Reply(m, "OK").channel = m.channel
    BY <1>1, ReplyMessage
<1> QED
    BY <1>1, <1>2, <1>5, <1>6, <1>7, SlaveAnswers

\* The slave ends the session: it refuses a request, or was asked to.
LEMMA ServeEndStep ==
    ASSUME MasterInv, NEW m, Refuse(m) \/ ServeDisconnect(m)
    PROVE  MasterInv'
<1>1. /\ UNCHANGED slaveUnchanged /\ UNCHANGED listVersion
      /\ UNCHANGED <<ports, portCount, result>> /\ RegistryInv
    BY ServeFrame DEF Refuse, ServeDisconnect
<1>2. slaveUp' = FALSE /\ toSlave' = <<>> /\ UNCHANGED bindVars
    BY DEF Refuse, ServeDisconnect, SlaveLeaves
<1>3. RegistryInv'
    BY <1>1, <1>2, RegistryFrame DEF portVars, bindVars
<1>4. Control("Err") \in GoodMessage /\ Control("Err").by = NoCaller
    BY ControlMessage
<1>5. toMaster' \in {toMaster, Append(toMaster, Control("Err"))}
    BY DEF Refuse, ServeDisconnect, Transmit
<1> QED
    BY <1>1, <1>2, <1>3, <1>4, <1>5, SlaveSpeaks

\* The device rebuilds its port list.
LEMMA ReconfigureStep ==
    ASSUME MasterInv, Reconfigure
    PROVE  MasterInv'
<1> USE DEF MasterInv, TypeInv
<1>1. /\ UNCHANGED slaveUnchanged /\ UNCHANGED <<toSlave, slaveUp>>
      /\ listVersion' = listVersion + 1 /\ listVersion < MaxVersion /\ ClearBindings
    BY DEF Reconfigure, slaveUnchanged
<1>2. UNCHANGED <<ports, portCount, result>>
    BY <1>1 DEF slaveUnchanged, listVars
<1>3. RegistryInv'
    <2>1. TableInv'
        BY <1>1, ClearKeepsTable DEF RegistryInv
    <2>2. listVersion' \in 0..MaxVersion
        BY <1>1, MasterAssumption DEF RegistryInv, MasterAssumption
    <2> QED
        BY <1>2, <2>1, <2>2, RegistryKept
<1>4. Control("Reconf") \in GoodMessage /\ Control("Reconf").by = NoCaller
    BY ControlMessage
<1>5. toMaster' = Append(toMaster, Control("Reconf"))
    BY DEF Reconfigure, Transmit
<1>6. slaveUp' \in BOOLEAN
    BY <1>1 DEF DeviceInv
<1> QED
    BY <1>1, <1>3, <1>4, <1>5, <1>6, SlaveSpeaks

\* A bound port sends data.
LEMMA StreamStep ==
    ASSUME MasterInv, NEW p \in StreamingPort, Stream(p)
    PROVE  MasterInv'
<1> DEFINE m == Message(spChannel[p], "data", NoCaller, 0, p, 0)
<1> USE DEF MasterInv, TypeInv
<1>1. /\ UNCHANGED slaveUnchanged /\ UNCHANGED <<toSlave, slaveUp, listVersion>>
      /\ UNCHANGED bindVars /\ spChannel[p] # Unbound /\ toMaster' = Append(toMaster, m)
    BY DEF Stream, slaveUnchanged, Transmit
<1>2. RegistryInv'
    BY <1>1, RegistryFrame DEF slaveUnchanged, portVars, bindVars, listVars
<1>3. spChannel[p] \in BindChannel
    BY <1>1 DEF RegistryInv, TableInv
<1>4. m \in GoodMessage /\ m.by = NoCaller
    BY <1>3, DataMessage
<1>5. slaveUp' \in BOOLEAN
    BY <1>1 DEF DeviceInv
<1> HIDE DEF m
<1> QED
    BY <1>1, <1>2, <1>4, <1>5, SlaveSpeaks

\* The slave ends the session on its own.
LEMMA SlaveEndsStep ==
    ASSUME MasterInv, SlaveEnds
    PROVE  MasterInv'
<1>1. /\ UNCHANGED slaveUnchanged /\ UNCHANGED <<bindVars, listVersion>>
      /\ slaveUp' = FALSE /\ toSlave' = <<>>
    BY DEF SlaveEnds, slaveUnchanged, SlaveLeaves
<1>2. RegistryInv'
    BY <1>1, RegistryFrame
       DEF slaveUnchanged, portVars, bindVars, listVars, MasterInv, TypeInv
<1>3. Control("Dis") \in GoodMessage /\ Control("Dis").by = NoCaller
    BY ControlMessage
<1>4. toMaster' \in {toMaster, Append(toMaster, Control("Dis"))}
    BY DEF SlaveEnds, Transmit
<1> QED
    BY <1>1, <1>2, <1>3, <1>4, SlaveSpeaks

-----------------------------------------------------------------------------
(* The callers                                                             *)

\* A caller changes nothing of the slave, and little of the device.
LEMMA CallerFrame ==
    ASSUME MasterInv, UNCHANGED callerUnchanged
    PROVE  /\ DeviceInv' /\ RegistryInv' /\ AsideInv'
           /\ UNCHANGED <<toSlave, toMaster, status, mp, stop, unsentAtStop>>
    BY RegistryFrame
       DEF MasterInv, TypeInv, DeviceInv, AsideInv, callerUnchanged, closingVars

\* One caller goes on.
LEMMA CallUpdate ==
    ASSUME CallInv, NEW c \in Caller, NEW r \in CallType, CallOK(r),
           call' = [call EXCEPT ![c] = r],
           currentChannel' \in (CHANNEL_LOWEST_SYNCHRONOUS - 1)..(CHANNEL_ROLLOVER - 1),
           expectingMessage' \in BOOLEAN, collided' \in BOOLEAN
    PROVE  CallInv' /\ call'[c] = r /\ \A d \in Caller \ {c} : call'[d] = call[d]
<1>1. call \in [Caller -> CallType] /\ \A d \in Caller : CallOK(call[d])
    BY DEF CallInv
<1>2. call' \in [Caller -> CallType] /\ call'[c] = r
      /\ \A d \in Caller \ {c} : call'[d] = call[d]
    BY <1>1
<1>3. \A d \in Caller : CallOK(call'[d])
    BY <1>1, <1>2
<1> QED
    BY <1>2, <1>3 DEF CallInv

\* What one caller does keeps the channels apart and the answers right.
LEMMA ChannelsKept ==
    ASSUME NEW c \in Caller, NEW r,
           call'[c] = r, \A d \in Caller \ {c} : call'[d] = call[d],
           ChannelsDiffer, AnsweredAsAsked, ~collided, ~collided',
           r.at \notin {"idle", "lock", "count"} =>
               \/ Using(c) /\ r.channel = call[c].channel
               \/ \A d \in Caller \ {c} : Using(d) => call[d].channel # r.channel,
           \/ r.reply.kind = "none"
           \/ r.reply = call[c].reply /\ r.nr = call[c].nr
           \/ r.reply.by = c /\ r.reply.nr = r.nr
    PROVE  ChannelsDiffer' /\ AnsweredAsAsked'
<1>1. ASSUME NEW d \in Caller, NEW e \in Caller, Using(d)', Using(e)',
             call'[d].channel = call'[e].channel
      PROVE  d = e
    <2>1. \A x \in Caller \ {c} : Using(x)' => Using(x) /\ call'[x].channel = call[x].channel
        BY DEF Using
    <2>2. Using(c)' => r.at \notin {"idle", "lock", "count"} /\ call'[c].channel = r.channel
        BY DEF Using
    <2>3. CASE d # c /\ e # c
        BY <1>1, <2>1, <2>3 DEF ChannelsDiffer
    <2>4. \A x \in Caller \ {c} : Using(x) /\ Using(c)' => call[x].channel # r.channel
        BY <2>2 DEF ChannelsDiffer
    <2>5. CASE d = c /\ e # c
        BY <1>1, <2>1, <2>2, <2>4, <2>5
    <2>6. CASE d # c /\ e = c
        BY <1>1, <2>1, <2>2, <2>4, <2>6
    <2> QED
        BY <2>3, <2>5, <2>6
<1>2. ChannelsDiffer'
    BY <1>1 DEF ChannelsDiffer
<1>3. ASSUME NEW d \in Caller, call'[d].reply.kind # "none"
      PROVE  call'[d].reply.by = d /\ call'[d].reply.nr = call'[d].nr
    BY <1>3 DEF AnsweredAsAsked
<1> QED
    BY <1>2, <1>3 DEF AnsweredAsAsked

\* A caller that awaits nothing, or goes on awaiting the same, leaves all that is under
\* way awaited.
LEMMA AwaitedKept ==
    ASSUME NEW c \in Caller, NEW r,
           call'[c] = r, \A d \in Caller \ {c} : call'[d] = call[d],
           \/ call[c].at \notin {"expect", "wait"}
           \/ r.at \in {"expect", "wait"} /\ r.nr = call[c].nr
              /\ r.channel = call[c].channel,
           NEW m, m.by \in Caller \cup {NoCaller}, Awaited(m)
    PROVE  Awaited(m)'
<1>1. CASE m.by = NoCaller
    BY <1>1 DEF Awaited
<1>2. CASE m.by = c /\ m.by # NoCaller
    BY <1>2 DEF Awaited
<1>3. CASE m.by \in Caller \ {c}
    BY <1>3 DEF Awaited
<1> QED
    BY <1>1, <1>2, <1>3

\* The senders of what is under way.
LEMMA UnderWayIsGood ==
    ASSUME LineInv
    PROVE  \A m \in UnderWay : m \in GoodMessage /\ m.by \in Caller \cup {NoCaller}
<1>1. UnderWay \subseteq GoodMessage
    BY QueuesOfLine, QueueElements DEF UnderWay
<1> QED
    BY <1>1 DEF GoodMessage, MessageSet

\* A caller goes on without touching the queues.
LEMMA CallerMoves ==
    ASSUME LineInv, AnswerInv, NEW c \in Caller, NEW r,
           call'[c] = r, \A d \in Caller \ {c} : call'[d] = call[d],
           collided => collided', Connected' => Connected,
           Connected' => UNCHANGED <<outQueue, toSlave, toMaster, inQueue>>,
           ~collided' /\ r.at \notin {"idle", "lock", "count"} =>
               \/ Using(c) /\ r.channel = call[c].channel
               \/ \A d \in Caller \ {c} : Using(d) => call[d].channel # r.channel,
           r.reply.kind = "none" \/ (r.reply = call[c].reply /\ r.nr = call[c].nr),
           Connected' => \/ call[c].at \notin {"expect", "wait"}
                         \/ r.at \in {"expect", "wait"} /\ r.nr = call[c].nr
                            /\ r.channel = call[c].channel,
           collided \in BOOLEAN
    PROVE  AnswerInv'
<1> SUFFICES ASSUME ~collided'
             PROVE  ChannelsDiffer' /\ AnsweredAsAsked' /\ (Connected' => UnderWayInv')
    BY DEF AnswerInv
<1>1. ~collided /\ ChannelsDiffer /\ AnsweredAsAsked /\ (Connected => UnderWayInv)
    BY DEF AnswerInv
<1>2. ChannelsDiffer' /\ AnsweredAsAsked'
    BY <1>1, ChannelsKept
<1>3. ASSUME Connected'
      PROVE  UnderWayInv'
    <2>1. UnderWay' = UnderWay /\ OneEach'
        BY <1>1, <1>3 DEF UnderWay, UnderWayInv, OneEach
    <2>2. \A m \in UnderWay : Awaited(m) /\ m.by \in Caller \cup {NoCaller}
        BY <1>1, <1>3, UnderWayIsGood DEF UnderWayInv
    <2>3. \/ call[c].at \notin {"expect", "wait"}
          \/ r.at \in {"expect", "wait"} /\ r.nr = call[c].nr /\ r.channel = call[c].channel
        BY <1>3
    <2>4. \A m \in UnderWay : Awaited(m)'
        BY <2>2, <2>3, AwaitedKept
    <2> QED
        BY <2>1, <2>4 DEF UnderWayInv
<1> QED
    BY <1>2, <1>3

\* One caller goes on, and touches no queue but the one of messages put aside.
LEMMA QuietStep ==
    ASSUME MasterInv, NEW c \in Caller, NEW r \in CallType, CallOK(r),
           call' = [call EXCEPT ![c] = r],
           UNCHANGED callerUnchanged, UNCHANGED <<inQueue, outQueue, hasMessagesToSend>>,
           messagesToDispatch' \in Seq(GoodMessage), CacheInv',
           currentChannel' \in (CHANNEL_LOWEST_SYNCHRONOUS - 1)..(CHANNEL_ROLLOVER - 1),
           expectingMessage' \in BOOLEAN, collided' \in BOOLEAN, collided => collided',
           ~collided' /\ r.at \notin {"idle", "lock", "count"} =>
               \/ Using(c) /\ r.channel = call[c].channel
               \/ \A d \in Caller \ {c} : Using(d) => call[d].channel # r.channel,
           r.reply.kind = "none" \/ (r.reply = call[c].reply /\ r.nr = call[c].nr),
           Connected => \/ call[c].at \notin {"expect", "wait"}
                        \/ r.at \in {"expect", "wait"} /\ r.nr = call[c].nr
                           /\ r.channel = call[c].channel
    PROVE  MasterInv'
<1>1. LineInv /\ CallInv /\ QueueInv /\ AnswerInv /\ collided \in BOOLEAN
    BY DEF MasterInv, TypeInv, CallInv
<1>2. /\ DeviceInv' /\ RegistryInv' /\ AsideInv'
      /\ UNCHANGED <<toSlave, toMaster, status, mp, stop, unsentAtStop>>
    BY CallerFrame
<1>3. CallInv' /\ call'[c] = r /\ \A d \in Caller \ {c} : call'[d] = call[d]
    BY <1>1, CallUpdate
<1>4. LineInv' /\ QueueInv'
    BY <1>1, <1>2, QueueFrame DEF LineInv
<1>5. UNCHANGED <<outQueue, toSlave, toMaster, inQueue>> /\ (Connected' => Connected)
    BY <1>2 DEF Connected
<1>6. AnswerInv'
    BY <1>1, <1>3, <1>5, CallerMoves
<1> QED
    BY <1>2, <1>3, <1>4, <1>6 DEF MasterInv, TypeInv

\* No reply yet.
LEMMA NoReplyYet == NoMessage \in GoodMessage /\ NoMessage.kind = "none"
    BY ControlMessage DEF NoMessage

\* A caller that does nothing.
LEMMA IdleIsCall == Idle \in CallType
<1>1. NoCaps \in 0..NoCaps /\ {} \in SUBSET GoodMessage
    BY MasterAssumption DEF MasterAssumption, NoCaps
<1>2. "idle" \in Point
    BY DEF Point, Before
<1> QED
    BY <1>1, <1>2, NoReplyYet DEF CallType, Idle

\* What a caller is when it moves on within its operation ...
LEMMA GotoUpdate ==
    ASSUME CallInv, NEW c \in Caller, NEW at \in Point, Goto(c, at)
    PROVE  LET r == [call[c] EXCEPT !.at = at]
           IN /\ r \in CallType /\ call' = [call EXCEPT ![c] = r]
              /\ r.at = at /\ r.reply = call[c].reply /\ r.nr = call[c].nr
              /\ r.channel = call[c].channel /\ r.kind = call[c].kind
              /\ r.port = call[c].port /\ r.bChannel = call[c].bChannel
<1>1. call[c] \in CallType
    BY DEF CallInv
<1>2. call \in [Caller -> CallType]
    BY DEF CallInv
<1>3. [call EXCEPT ![c].at = at] = [call EXCEPT ![c] = [call[c] EXCEPT !.at = at]]
    BY <1>1, <1>2 DEF CallType
<1> QED
    BY <1>1, <1>3 DEF CallType, Goto

\* ... and when it ends it.
LEMMA LeaveUpdate ==
    ASSUME CallInv, NEW c \in Caller, Leave(c)
    PROVE  LET r == [Idle EXCEPT !.done = call[c].done + 1, !.nr = call[c].nr]
           IN /\ r \in CallType /\ CallOK(r) /\ call' = [call EXCEPT ![c] = r]
              /\ r.at = "idle" /\ r.reply.kind = "none"
<1> DEFINE r == [Idle EXCEPT !.done = call[c].done + 1, !.nr = call[c].nr]
<1>1. call[c].done \in Nat /\ call[c].nr \in Nat
    BY DEF CallInv, CallType
<1>2. call[c].done + 1 \in Nat
    BY <1>1
<1>3. Idle \in CallType
    BY IdleIsCall
<1>4. r \in CallType /\ r.at = "idle" /\ r.reply = NoMessage
    <2>1. r.at = "idle" /\ r.reply = NoMessage
        BY DEF Idle
    <2> QED
        BY <1>1, <1>2, <1>3, <2>1 DEF CallType
<1>5. CallOK(r)
    BY <1>4 DEF CallOK, Idle
<1> QED
    BY <1>4, <1>5, NoReplyYet DEF Leave

\* A port to be bound gets a channel of the range there is for them.
LEMMA FreeChannelIsOne ==
    ASSUME \E ch \in BindChannel : boundStreamingPorts[ch] = NoPort
    PROVE  FreeChannel \in BindChannel
<1> DEFINE S == {ch \in BindChannel : boundStreamingPorts[ch] = NoPort}
<1>1. S \in SUBSET Nat /\ S # {}
    BY ChannelFacts
<1>2. First(S) \in S
    BY <1>1, FirstIsLeast
<1> QED
    BY <1>2 DEF FreeChannel

\* Others that use a channel have it, if it was noticed that nobody has.
LEMMA NobodyUses ==
    ASSUME NEW c \in Caller, NEW ch, ~OthersInFlight(c, ch)
    PROVE  \A d \in Caller \ {c} : Using(d) => call[d].channel # ch
    BY DEF OthersInFlight, InFlight, Using

\* An operation begins.
LEMMA BeginStep ==
    ASSUME MasterInv, NEW c \in Caller, NEW kind \in OperationKind,
           NEW p \in StreamingPort \cup {NoPort},
           kind \in {"bind", "unbind"} => p \in StreamingPort,
           Begin(c, kind, p)
    PROVE  MasterInv'
<1> DEFINE b == IF kind = "bind" THEN FreeChannel ELSE 0
           at == IF kind = "refresh" THEN "send" ELSE "lock"
           lock == IF kind = "refresh" THEN 0 ELSE currentChannel
           ch == IF kind = "refresh" THEN CHANNEL_REFRESH ELSE 0
           r == [call[c] EXCEPT !.kind = kind, !.port = p, !.bChannel = b, !.at = at,
                                !.lock = lock, !.channel = ch]
<1>1. /\ call[c] \in CallType /\ call \in [Caller -> CallType] /\ CallOK(call[c])
      /\ currentChannel \in Nat /\ CallInv /\ CacheInv /\ LineInv
      /\ collided \in BOOLEAN
    BY MasterAssumption DEF MasterInv, TypeInv, CallInv, MasterAssumption
<1>2. /\ call[c].at = "idle" /\ MayStart(kind, p)
      /\ collided' = (collided \/ (kind = "refresh" /\ OthersInFlight(c, CHANNEL_REFRESH)))
      /\ UNCHANGED <<callerUnchanged, inQueue, outQueue, hasMessagesToSend, protocolVars>>
    BY DEF Begin
<1>3. b \in BindChannel \cup {0} /\ (kind = "bind" => b \in BindChannel)
    BY <1>2, FreeChannelIsOne DEF MayStart
<1>4. /\ at \in Point /\ lock \in Nat /\ ch \in {0} \cup RequestChannel
      /\ at \in {"lock", "send"}
      /\ at = "send" => kind = "refresh" /\ ch = CHANNEL_REFRESH
    BY <1>1, ChannelFacts DEF Point, Before
<1>5. call[c].reply = NoMessage
    BY <1>1, <1>2 DEF CallOK, Before
<1>6. call' = [call EXCEPT ![c] = r]
    BY <1>1 DEF Begin, CallType
<1> HIDE DEF b, at, lock, ch
<1>7. r \in CallType /\ r.at = at /\ r.channel = ch /\ r.kind = kind /\ r.port = p
      /\ r.bChannel = b /\ r.reply = NoMessage
    BY <1>1, <1>3, <1>4, <1>5 DEF CallType
<1> HIDE DEF r
<1>8. CallOK(r)
    BY <1>3, <1>4, <1>7, ChannelFacts DEF CallOK
<1>9. ~collided' /\ r.at \notin {"idle", "lock", "count"} =>
         \A d \in Caller \ {c} : Using(d) => call[d].channel # r.channel
    BY <1>2, <1>4, <1>7, NobodyUses
<1>10. /\ messagesToDispatch' \in Seq(GoodMessage) /\ CacheInv'
       /\ currentChannel' \in (CHANNEL_LOWEST_SYNCHRONOUS - 1)..(CHANNEL_ROLLOVER - 1)
       /\ expectingMessage' \in BOOLEAN /\ collided' \in BOOLEAN /\ (collided => collided')
    BY <1>1, <1>2, CacheFrame DEF LineInv, CallInv, protocolVars
<1>11. r.reply.kind = "none"
    BY <1>7, NoReplyYet
<1>12. /\ UNCHANGED callerUnchanged /\ UNCHANGED <<inQueue, outQueue, hasMessagesToSend>>
       /\ call[c].at \notin {"expect", "wait"}
    BY <1>2
<1> QED
    BY <1>6, <1>7, <1>8, <1>9, <1>10, <1>11, <1>12, QuietStep

\* The counter of the channels is read ...
LEMMA EnterCounterStep ==
    ASSUME MasterInv, NEW c \in Caller, EnterCounter(c)
    PROVE  MasterInv'
<1> DEFINE ch == NextChannel(currentChannel)
           r == [call[c] EXCEPT !.at = "count", !.channel = ch]
<1>1. /\ call[c] \in CallType /\ call \in [Caller -> CallType] /\ CallOK(call[c])
      /\ CallInv /\ CacheInv /\ LineInv
    BY DEF MasterInv, TypeInv, CallInv
<1>2. /\ call[c].at = "lock"
      /\ UNCHANGED <<callerUnchanged, inQueue, outQueue, hasMessagesToSend, protocolVars,
                     collided>>
    BY DEF EnterCounter
<1>3. ch \in SynchronousChannel
    BY <1>1, MasterAssumption
       DEF CallInv, NextChannel, SynchronousChannel, MasterAssumption
<1>4. call' = [call EXCEPT ![c] = r]
    BY <1>1 DEF EnterCounter, CallType
<1> HIDE DEF ch
<1>5. "count" \in Point /\ ch \in RequestChannel
    BY <1>3, ChannelFacts DEF Point, Before
<1>6. r \in CallType /\ r.at = "count" /\ r.channel = ch /\ r.kind = call[c].kind
      /\ r.port = call[c].port /\ r.bChannel = call[c].bChannel /\ r.reply = call[c].reply
    BY <1>1, <1>5 DEF CallType
<1> HIDE DEF r
<1>7. call[c].reply = NoMessage
    BY <1>1, <1>2 DEF CallOK, Before
<1>8. CallOK(r)
    BY <1>1, <1>2, <1>3, <1>5, <1>6, <1>7 DEF CallOK
<1>9. /\ messagesToDispatch' \in Seq(GoodMessage) /\ CacheInv'
      /\ currentChannel' \in (CHANNEL_LOWEST_SYNCHRONOUS - 1)..(CHANNEL_ROLLOVER - 1)
      /\ expectingMessage' \in BOOLEAN /\ collided' \in BOOLEAN /\ (collided => collided')
    BY <1>1, <1>2, CacheFrame DEF LineInv, CallInv, protocolVars
<1>10. r.reply.kind = "none"
    BY <1>6, <1>7, NoReplyYet
<1>11. /\ UNCHANGED callerUnchanged /\ UNCHANGED <<inQueue, outQueue, hasMessagesToSend>>
       /\ call[c].at \notin {"expect", "wait"}
    BY <1>2
<1> QED
    BY <1>4, <1>6, <1>8, <1>9, <1>10, <1>11, QuietStep

\* ... and stored.
LEMMA StoreCounterStep ==
    ASSUME MasterInv, NEW c \in Caller, StoreCounter(c)
    PROVE  MasterInv'
<1> DEFINE r == [call[c] EXCEPT !.at = "send", !.lock = 0]
<1>1. /\ call[c] \in CallType /\ call \in [Caller -> CallType] /\ CallOK(call[c])
      /\ CallInv /\ CacheInv /\ LineInv
    BY DEF MasterInv, TypeInv, CallInv
<1>2. /\ call[c].at = "count" /\ currentChannel' = call[c].channel
      /\ collided' = (collided \/ OthersInFlight(c, call[c].channel))
      /\ UNCHANGED <<callerUnchanged, inQueue, outQueue, hasMessagesToSend,
                     expectingMessage, messagesToDispatch, cacheVars>>
    BY DEF StoreCounter
<1>3. call[c].channel \in SynchronousChannel /\ call[c].reply = NoMessage
    BY <1>1, <1>2 DEF CallOK, Before
<1>4. call' = [call EXCEPT ![c] = r]
    BY <1>1 DEF StoreCounter, CallType
<1>5. r \in CallType /\ r.at = "send" /\ r.channel = call[c].channel
      /\ r.kind = call[c].kind /\ r.port = call[c].port
      /\ r.bChannel = call[c].bChannel /\ r.reply = call[c].reply
    BY <1>1 DEF CallType, Point, Before
<1> HIDE DEF r
<1>6. CallOK(r)
    BY <1>1, <1>2, <1>3, <1>5, ChannelFacts DEF CallOK
<1>7. ~collided' => \A d \in Caller \ {c} : Using(d) => call[d].channel # r.channel
    BY <1>2, <1>5, NobodyUses
<1>8. currentChannel' \in (CHANNEL_LOWEST_SYNCHRONOUS - 1)..(CHANNEL_ROLLOVER - 1)
    BY <1>2, <1>3, MasterAssumption DEF SynchronousChannel, MasterAssumption
<1>9. /\ messagesToDispatch' \in Seq(GoodMessage) /\ CacheInv'
      /\ expectingMessage' \in BOOLEAN /\ collided' \in BOOLEAN /\ (collided => collided')
    <2>1. collided' \in BOOLEAN /\ (collided => collided')
        BY <1>1, <1>2 DEF CallInv
    <2> QED
        BY <1>1, <1>2, <2>1, CacheFrame DEF LineInv, CallInv
<1>10. r.reply.kind = "none"
    BY <1>3, <1>5, NoReplyYet
<1>11. /\ UNCHANGED callerUnchanged /\ UNCHANGED <<inQueue, outQueue, hasMessagesToSend>>
       /\ call[c].at \notin {"expect", "wait"}
    BY <1>2
<1> QED
    BY <1>4, <1>5, <1>6, <1>7, <1>8, <1>9, <1>10, <1>11, QuietStep

\* The operation of a caller ends.
LEMMA LeaveStep ==
    ASSUME MasterInv, NEW c \in Caller, Leave(c), UNCHANGED callerUnchanged,
           UNCHANGED <<inQueue, outQueue, hasMessagesToSend, currentChannel,
                       expectingMessage, messagesToDispatch, collided>>,
           CacheInv', Connected => call[c].at \notin {"expect", "wait"}
    PROVE  MasterInv'
<1> DEFINE r == [Idle EXCEPT !.done = call[c].done + 1, !.nr = call[c].nr]
<1>1. LineInv /\ CallInv
    BY DEF MasterInv, TypeInv
<1>2. /\ r \in CallType /\ CallOK(r) /\ call' = [call EXCEPT ![c] = r]
      /\ r.at = "idle" /\ r.reply.kind = "none"
    BY <1>1, LeaveUpdate
<1> HIDE DEF r
<1>3. /\ messagesToDispatch' \in Seq(GoodMessage)
      /\ currentChannel' \in (CHANNEL_LOWEST_SYNCHRONOUS - 1)..(CHANNEL_ROLLOVER - 1)
      /\ expectingMessage' \in BOOLEAN /\ collided' \in BOOLEAN /\ (collided => collided')
    BY <1>1 DEF LineInv, CallInv
<1> QED
    BY <1>2, <1>3, QuietStep

\* A caller goes on within its operation.
LEMMA GotoStep ==
    ASSUME MasterInv, NEW c \in Caller, NEW at \in Point, Goto(c, at),
           UNCHANGED callerUnchanged,
           UNCHANGED <<inQueue, outQueue, hasMessagesToSend, currentChannel,
                       messagesToDispatch, cacheVars, collided>>,
           expectingMessage' \in BOOLEAN,
           call[c].at \notin {"idle", "lock", "count"},
           at \notin {"idle", "lock", "count", "send"},
           at \in Before => call[c].at \in Before,
           Connected /\ call[c].at \in {"expect", "wait"} => at \in {"expect", "wait"}
    PROVE  MasterInv'
<1> DEFINE r == [call[c] EXCEPT !.at = at]
<1>1. /\ call[c] \in CallType /\ CallOK(call[c]) /\ CallInv /\ CacheInv /\ LineInv
    BY DEF MasterInv, TypeInv, CallInv
<1>2. /\ r \in CallType /\ call' = [call EXCEPT ![c] = r]
      /\ r.at = at /\ r.reply = call[c].reply /\ r.nr = call[c].nr
      /\ r.channel = call[c].channel /\ r.kind = call[c].kind
      /\ r.port = call[c].port /\ r.bChannel = call[c].bChannel
    BY <1>1, GotoUpdate
<1> HIDE DEF r
<1>3. CallOK(r)
    BY <1>1, <1>2 DEF CallOK
<1>4. /\ messagesToDispatch' \in Seq(GoodMessage) /\ CacheInv'
      /\ currentChannel' \in (CHANNEL_LOWEST_SYNCHRONOUS - 1)..(CHANNEL_ROLLOVER - 1)
      /\ collided' \in BOOLEAN /\ (collided => collided')
    BY <1>1, CacheFrame DEF LineInv, CallInv
<1>5. Using(c)
    BY DEF Using
<1> QED
    BY <1>2, <1>3, <1>4, <1>5, QuietStep

\* expect begins: from now on control messages are put aside.
LEMMA ExpectStep ==
    ASSUME MasterInv, NEW c \in Caller, Expect(c)
    PROVE  MasterInv'
    BY GotoStep DEF Expect, Point, Before

\* It notices that the connection is gone.
LEMMA FindDisconnectedStep ==
    ASSUME MasterInv, NEW c \in Caller, FindDisconnected(c)
    PROVE  MasterInv'
<1>1. expectingMessage \in BOOLEAN
    BY DEF MasterInv, TypeInv, CallInv
<1> QED
    BY <1>1, GotoStep DEF FindDisconnected, protocolVars, Point, Before

\* It ends.
LEMMA ClearExpectingStep ==
    ASSUME MasterInv, NEW c \in Caller, ClearExpecting(c)
    PROVE  MasterInv'
<1>1. PICK at \in {"use", "drain"} : Goto(c, at)
    BY DEF ClearExpecting
<1> QED
    BY <1>1, GotoStep DEF ClearExpecting, Point, Before

\* Without messages put aside the reply is used.
LEMMA LookAsideStep ==
    ASSUME MasterInv, NEW c \in Caller, LookAside(c)
    PROVE  MasterInv'
<1> DEFINE r == [call[c] EXCEPT !.at = "use", !.seen = {}]
<1>1. /\ call[c] \in CallType /\ call \in [Caller -> CallType] /\ CallOK(call[c])
      /\ CallInv /\ CacheInv /\ LineInv
    BY DEF MasterInv, TypeInv, CallInv
<1>2. /\ call[c].at = "drain"
      /\ UNCHANGED <<callerUnchanged, inQueue, outQueue, hasMessagesToSend, protocolVars,
                     collided>>
    BY DEF LookAside
<1>3. CASE messagesToDispatch = <<>>
    <2>1. call' = [call EXCEPT ![c] = r]
        BY <1>1, <1>3 DEF LookAside, CallType
    <2>2. /\ r \in CallType /\ r.at = "use" /\ r.reply = call[c].reply
          /\ r.nr = call[c].nr /\ r.channel = call[c].channel /\ r.kind = call[c].kind
          /\ r.port = call[c].port /\ r.bChannel = call[c].bChannel
        BY <1>1 DEF CallType, Point, Before
    <2> HIDE DEF r
    <2>3. CallOK(r)
        BY <1>1, <1>2, <2>2 DEF CallOK, Before
    <2>4. /\ messagesToDispatch' \in Seq(GoodMessage) /\ CacheInv'
          /\ currentChannel' \in (CHANNEL_LOWEST_SYNCHRONOUS - 1)..(CHANNEL_ROLLOVER - 1)
          /\ expectingMessage' \in BOOLEAN /\ collided' \in BOOLEAN
          /\ (collided => collided')
        BY <1>1, <1>2, CacheFrame DEF LineInv, CallInv, protocolVars
    <2>5. Using(c)
        BY <1>2 DEF Using
    <2> QED
        BY <1>2, <2>1, <2>2, <2>3, <2>4, <2>5, QuietStep
<1>4. CASE Goto(c, "poll")
    <2>1. expectingMessage' \in BOOLEAN
        BY <1>1, <1>2 DEF CallInv, protocolVars
    <2>2. "poll" \in Point /\ "poll" \notin Before
        BY DEF Point, Before
    <2> QED
        BY <1>2, <1>4, <2>1, <2>2, GotoStep DEF protocolVars
<1> QED
    BY <1>3, <1>4 DEF LookAside

\* The queue was emptied by another caller.
LEMMA PollNothingStep ==
    ASSUME MasterInv, NEW c \in Caller, PollNothing(c)
    PROVE  MasterInv'
<1>1. CacheInv'
    BY CacheFrame DEF PollNothing, protocolVars, MasterInv, TypeInv
<1> QED
    BY <1>1, LeaveStep DEF PollNothing, protocolVars

\* The reply is of no use, or all there was to learn.
LEMMA UseStateStep ==
    ASSUME MasterInv, NEW c \in Caller, UseState(c)
    PROVE  MasterInv'
<1>1. CacheInv'
    BY CacheFrame DEF UseState, MasterInv, TypeInv
<1> QED
    BY <1>1, LeaveStep DEF UseState, Use, useUnchanged

\* The capabilities are kept when the infos of all ports are there.
LEMMA UseCapsStep ==
    ASSUME MasterInv, NEW c \in Caller, UseCaps(c)
    PROVE  MasterInv'
<1> DEFINE caps == IF call[c].caps = NoCaps THEN call[c].reply.value ELSE call[c].caps
           infos == IF call[c].caps = NoCaps THEN PortInfos ELSE call[c].infos - 1
           r == [call[c] EXCEPT !.at = "send", !.reply = NoMessage, !.caps = caps,
                                !.infos = infos]
<1>1. /\ call[c] \in CallType /\ call \in [Caller -> CallType] /\ CallOK(call[c])
      /\ CallInv /\ CacheInv /\ LineInv
    BY DEF MasterInv, TypeInv, CallInv
<1>2. /\ call[c].at = "use" /\ call[c].kind = "caps" /\ Answered(c)
      /\ UNCHANGED <<callerUnchanged, inQueue, outQueue, hasMessagesToSend, currentChannel,
                     expectingMessage, messagesToDispatch, collided>>
      /\ UNCHANGED <<boundStreamingPorts, portChannel>>
    BY DEF UseCaps, Use, useUnchanged
<1>3. caps \in 0..NoCaps
    <2>1. CASE call[c].caps = NoCaps
        <3>1. call[c].reply.kind = "caps"
            BY <1>2, <2>1 DEF Answered
        <3>2. call[c].reply.value \in 0..MaxVersion
            BY <1>1, <3>1 DEF CallType, GoodMessage, WellFormed
        <3> QED
            BY <2>1, <3>2, MasterAssumption DEF NoCaps, MasterAssumption
    <2>2. CASE call[c].caps # NoCaps
        BY <1>1, <2>2 DEF CallType
    <2> QED
        BY <2>1, <2>2
<1>4. infos \in Int
    BY <1>1, MasterAssumption DEF CallType, MasterAssumption
<1>5. CASE infos = 0
    <2>1. deviceCaps' = caps /\ Leave(c)
        BY <1>5 DEF UseCaps
    <2>2. CacheInv'
        BY <1>1, <1>2, <1>3, <2>1 DEF CacheInv
    <2> QED
        BY <1>2, <2>1, <2>2, LeaveStep
<1>6. CASE infos # 0
    <2>1. UNCHANGED deviceCaps /\ call' = [call EXCEPT ![c] = r]
        BY <1>1, <1>6 DEF UseCaps, CallType
    <2> HIDE DEF caps, infos
    <2>2. /\ r \in CallType /\ r.at = "send" /\ r.reply = NoMessage
          /\ r.channel = call[c].channel /\ r.kind = call[c].kind
          /\ r.port = call[c].port /\ r.bChannel = call[c].bChannel
        BY <1>1, <1>3, <1>4, NoReplyYet DEF CallType, Point, Before
    <2> HIDE DEF r
    <2>3. CallOK(r)
        BY <1>1, <1>2, <2>2 DEF CallOK
    <2>4. CacheInv'
        BY <1>1, <1>2, <2>1, CacheFrame DEF cacheVars
    <2>5. /\ messagesToDispatch' \in Seq(GoodMessage)
          /\ currentChannel' \in (CHANNEL_LOWEST_SYNCHRONOUS - 1)..(CHANNEL_ROLLOVER - 1)
          /\ expectingMessage' \in BOOLEAN /\ collided' \in BOOLEAN
          /\ (collided => collided')
        BY <1>1, <1>2 DEF LineInv, CallInv
    <2>6. Using(c) /\ r.reply.kind = "none"
        BY <1>2, <2>2, NoReplyYet DEF Using
    <2> QED
        BY <1>2, <2>1, <2>2, <2>3, <2>4, <2>5, <2>6, QuietStep
<1> QED
    BY <1>5, <1>6

\* A bound port and its channel find each other.
LEMMA UseBindStep ==
    ASSUME MasterInv, NEW c \in Caller, UseBind(c)
    PROVE  MasterInv'
<1>1. call[c] \in CallType /\ CallOK(call[c]) /\ CacheInv
    BY DEF MasterInv, TypeInv, CallInv
<1>2. /\ call[c].at = "use" /\ call[c].kind = "bind" /\ Leave(c)
      /\ boundStreamingPorts' =
            [boundStreamingPorts EXCEPT ![call[c].bChannel] = call[c].port]
      /\ portChannel' = [portChannel EXCEPT ![call[c].port] = call[c].bChannel]
      /\ UNCHANGED <<useUnchanged, deviceCaps>>
    BY DEF UseBind, Use
<1>3. call[c].bChannel \in BindChannel /\ call[c].port \in StreamingPort
    BY <1>1, <1>2 DEF CallOK
<1>4. CacheInv'
    BY <1>1, <1>2, <1>3 DEF CacheInv
<1> QED
    BY <1>2, <1>4, LeaveStep DEF useUnchanged

\* An unbound port and its channel lose each other.
LEMMA UseUnbindStep ==
    ASSUME MasterInv, NEW c \in Caller, UseUnbind(c)
    PROVE  MasterInv'
<1>1. CacheInv
    BY DEF MasterInv, TypeInv
<1>2. /\ call[c].at = "use" /\ Leave(c) /\ Unregister(call[c].port)
      /\ UNCHANGED <<useUnchanged, deviceCaps>>
    BY DEF UseUnbind, Use
<1>3. CacheInv'
    BY <1>1, <1>2 DEF CacheInv, Unregister
<1> QED
    BY <1>2, <1>3, LeaveStep DEF useUnchanged

\* The time is up: the connection is closed.
LEMMA TimeoutStep ==
    ASSUME MasterInv, NEW c \in Caller, Timeout(c)
    PROVE  MasterInv'
<1> DEFINE r == [call[c] EXCEPT !.at = "clear"]
<1>1. /\ call[c] \in CallType /\ CallOK(call[c]) /\ CallInv /\ CacheInv /\ LineInv
      /\ DeviceInv /\ TypeInv /\ RegistryInv /\ AnswerInv
    BY DEF MasterInv, TypeInv, CallInv
<1>2. /\ CloseStreams /\ status' = "ERROR" /\ Goto(c, "clear") /\ call[c].at = "wait"
      /\ mp # "aside"
      /\ UNCHANGED <<inQueue, outQueue, hasMessagesToSend, mp, terminator, protocolVars,
                     portVars, listVersion, collided>>
    BY DEF Timeout, TimeIsUp, SetDeviceError
<1>3. /\ QueueInv' /\ toSlave' \in Seq(GoodMessage) /\ toMaster' \in Seq(GoodMessage)
      /\ streamsOpen' \in BOOLEAN /\ slaveUp' \in BOOLEAN
    BY <1>1, <1>2, CloseEffect
<1>4. LineInv' /\ DeviceInv' /\ AsideInv'
    BY <1>1, <1>2, <1>3 DEF LineInv, DeviceInv, AsideInv, protocolVars
<1>5. CacheInv' /\ RegistryInv'
    BY <1>1, <1>2, CacheFrame, RegistryFrame DEF protocolVars
<1>6. /\ r \in CallType /\ call' = [call EXCEPT ![c] = r]
      /\ r.at = "clear" /\ r.reply = call[c].reply /\ r.nr = call[c].nr
      /\ r.channel = call[c].channel /\ r.kind = call[c].kind
      /\ r.port = call[c].port /\ r.bChannel = call[c].bChannel
    <2>1. "clear" \in Point
        BY DEF Point
    <2> QED
        BY <1>1, <1>2, <2>1, GotoUpdate
<1> HIDE DEF r
<1>7. CallOK(r)
    BY <1>1, <1>2, <1>6 DEF CallOK, Before
<1>8. CallInv' /\ call'[c] = r /\ \A d \in Caller \ {c} : call'[d] = call[d]
    <2>1. /\ currentChannel' \in (CHANNEL_LOWEST_SYNCHRONOUS - 1)..(CHANNEL_ROLLOVER - 1)
          /\ expectingMessage' \in BOOLEAN /\ collided' \in BOOLEAN
        BY <1>1, <1>2 DEF CallInv, protocolVars
    <2> QED
        BY <1>1, <1>6, <1>7, <2>1, CallUpdate
<1>9. AnswerInv'
    <2>1. Using(c) /\ ~Connected' /\ collided \in BOOLEAN /\ (collided => collided')
        BY <1>1, <1>2 DEF Using, Connected, CallInv
    <2> QED
        BY <1>1, <1>6, <1>8, <2>1, CallerMoves
<1> QED
    BY <1>3, <1>4, <1>5, <1>8, <1>9 DEF MasterInv, TypeInv

\* Nothing of a caller that awaits nothing is under way.
LEMMA NotAwaiting ==
    ASSUME UnderWayInv, NEW c \in Caller, call[c].at \notin {"expect", "wait"}
    PROVE  \A q \in {outQueue, toSlave, toMaster, inQueue} : c \notin Senders(q)
<1> SUFFICES ASSUME NEW q \in {outQueue, toSlave, toMaster, inQueue}, c \in Senders(q)
             PROVE  FALSE
    OBVIOUS
<1>1. PICK m \in ToSet(q) : m.by = c /\ m.by # NoCaller
    BY DEF Senders
<1>2. Awaited(m)
    BY DEF UnderWayInv, UnderWay
<1> QED
    BY <1>1, <1>2 DEF Awaited

\* A request is sent.
LEMMA SendStep ==
    ASSUME MasterInv, NEW c \in Caller, Send(c)
    PROVE  MasterInv'
<1> DEFINE nr == call[c].nr + 1
           r == [call[c] EXCEPT !.at = "expect", !.nr = nr]
<1>1. /\ call[c] \in CallType /\ call \in [Caller -> CallType] /\ CallOK(call[c])
      /\ CallInv /\ CacheInv /\ LineInv /\ QueueInv /\ AnswerInv
    BY DEF MasterInv, TypeInv, CallInv
<1>2. /\ call[c].at = "send"
      /\ UNCHANGED <<callerUnchanged, inQueue, protocolVars, collided>>
    BY DEF Send
<1>3. /\ DeviceInv' /\ RegistryInv' /\ AsideInv'
      /\ UNCHANGED <<toSlave, toMaster, status, mp, stop, unsentAtStop>>
    BY <1>2, CallerFrame
<1>4. CacheInv'
    BY <1>1, <1>2, CacheFrame DEF protocolVars
<1>5. CASE ~Connected
    <2>1. Leave(c) /\ UNCHANGED <<outQueue, hasMessagesToSend>>
        BY <1>5 DEF Send
    <2> QED
        BY <1>2, <1>4, <2>1, LeaveStep DEF protocolVars
<1>6. CASE Connected
    <2>1. PICK m \in GoodMessage : m = RequestOf(c) /\ m.by = c /\ m.nr = nr
                                   /\ m.channel = call[c].channel
        BY <1>1, <1>2, RequestMessage
    <2>2. outQueue' = Append(outQueue, m) /\ hasMessagesToSend' = TRUE
        BY <1>6, <2>1 DEF Send, Enqueue
    <2>3. call' = [call EXCEPT ![c] = r]
        BY <1>1, <1>6 DEF Send, CallType
    <2>4. nr \in Nat /\ call[c].nr \in Nat
        BY <1>1 DEF CallType
    <2> HIDE DEF nr
    <2>5. outQueue \in Seq(GoodMessage) /\ Len(outQueue) \in Nat
        BY <1>1, QueuesOfLine, QueueElements
    <2>6. /\ outQueue' \in Seq(GoodMessage) /\ Len(outQueue') = Len(outQueue) + 1
          /\ ToSet(outQueue') = ToSet(outQueue) \cup {m}
          /\ Senders(outQueue') = Senders(outQueue) \cup ({m.by} \ {NoCaller})
          /\ Single(outQueue) /\ m.by \notin Senders(outQueue) => Single(outQueue')
        BY <2>1, <2>2, <2>5, AppendMessage
    <2>7. LineInv'
        BY <1>1, <1>2, <1>3, <2>6 DEF LineInv, protocolVars
    <2>8. QueueInv'
        BY <1>1, <1>3, <2>2, <2>5, <2>6 DEF QueueInv
    <2>9. /\ r \in CallType /\ r.at = "expect" /\ r.nr = nr /\ r.reply = call[c].reply
          /\ r.channel = call[c].channel /\ r.kind = call[c].kind
          /\ r.port = call[c].port /\ r.bChannel = call[c].bChannel
        BY <1>1, <2>4 DEF CallType, Point, Before
    <2> HIDE DEF r
    <2>10. CallOK(r) /\ r.reply = NoMessage
        BY <1>1, <1>2, <2>9 DEF CallOK, Before
    <2>11. CallInv' /\ call'[c] = r /\ \A d \in Caller \ {c} : call'[d] = call[d]
        <3>1. /\ currentChannel' \in (CHANNEL_LOWEST_SYNCHRONOUS - 1)..(CHANNEL_ROLLOVER - 1)
              /\ expectingMessage' \in BOOLEAN /\ collided' \in BOOLEAN
            BY <1>1, <1>2 DEF CallInv, protocolVars
        <3> QED
            BY <1>1, <2>3, <2>9, <2>10, <3>1, CallUpdate
    <2>12. ASSUME ~collided
           PROVE  ChannelsDiffer' /\ AnsweredAsAsked' /\ UnderWayInv'
        <3>1. ChannelsDiffer /\ AnsweredAsAsked /\ UnderWayInv /\ ~collided'
            BY <1>1, <1>2, <1>6, <2>12 DEF AnswerInv
        <3>2. Using(c) /\ r.reply.kind = "none"
            BY <1>2, <2>10, NoReplyYet DEF Using
        <3>3. ChannelsDiffer' /\ AnsweredAsAsked'
            BY <2>9, <2>11, <2>12, <3>1, <3>2, ChannelsKept
        <3>4. /\ c \notin Senders(outQueue) /\ c \notin Senders(toSlave)
              /\ c \notin Senders(toMaster) /\ c \notin Senders(inQueue)
            BY <1>2, <3>1, NotAwaiting
        <3>5. OneEach'
            <4>1. OneEach
                BY <3>1 DEF UnderWayInv
            <4>2. /\ Single(outQueue') /\ Apart(outQueue', toSlave)
                  /\ Apart(outQueue', toMaster) /\ Apart(outQueue', inQueue)
                BY <2>1, <2>6, <3>4, <4>1 DEF OneEach, Apart
            <4> QED
                BY <1>2, <1>3, <4>1, <4>2 DEF OneEach
        <3>6. UnderWay' = UnderWay \cup {m}
            BY <1>2, <1>3, <2>6 DEF UnderWay
        <3>7. \A n \in UnderWay : Awaited(n)'
            <4>1. \A n \in UnderWay : Awaited(n) /\ n.by \in Caller \cup {NoCaller}
                BY <1>1, <3>1, UnderWayIsGood DEF UnderWayInv
            <4> QED
                BY <1>2, <2>11, <4>1, AwaitedKept
        <3>8. Awaited(m)'
            BY <2>1, <2>9, <2>11 DEF Awaited
        <3> QED
            BY <3>3, <3>5, <3>6, <3>7, <3>8 DEF UnderWayInv
    <2>13. AnswerInv'
        BY <1>2, <2>12 DEF AnswerInv
    <2> QED
        BY <1>3, <1>4, <2>7, <2>8, <2>11, <2>13 DEF MasterInv, TypeInv
<1> QED
    BY <1>5, <1>6

\* The message expect finds belongs to the caller that looks for it.
LEMMA FoundIsOwn ==
    ASSUME LineInv, CallInv, ChannelsDiffer, UnderWayInv, NEW c \in Caller,
           call[c].at = "wait", NEW i \in DOMAIN inQueue,
           inQueue[i].channel = call[c].channel
    PROVE  inQueue[i].by = c /\ inQueue[i].nr = call[c].nr
<1> DEFINE m == inQueue[i]
<1>1. m \in GoodMessage /\ m \in UnderWay
    BY QueuesOfLine, QueueElements DEF UnderWay
<1>2. m.by \in Caller \cup {NoCaller} /\ WellFormed(m) /\ Awaited(m)
    BY <1>1 DEF GoodMessage, MessageSet, UnderWayInv
<1>3. call[c].channel \in RequestChannel
    BY DEF CallInv, CallOK
<1>4. m.by \in Caller /\ m.by # NoCaller
    BY <1>2, <1>3 DEF WellFormed
<1>5. /\ call[m.by].at \in {"expect", "wait"} /\ call[m.by].channel = call[c].channel
      /\ call[m.by].nr = m.nr
    BY <1>2, <1>4 DEF Awaited
<1>6. Using(m.by) /\ Using(c)
    BY <1>5 DEF Using
<1>7. m.by = c
    BY <1>4, <1>5, <1>6 DEF ChannelsDiffer
<1> QED
    BY <1>5, <1>7

\* expect takes its answer out of the queue.
LEMMA TakeStep ==
    ASSUME MasterInv, NEW c \in Caller, Take(c)
    PROVE  MasterInv'
<1> DEFINE ch == call[c].channel
           i == First(Waiting(ch))
<1>1. /\ call[c] \in CallType /\ call \in [Caller -> CallType] /\ CallOK(call[c])
      /\ CallInv /\ CacheInv /\ LineInv /\ QueueInv /\ AnswerInv
    BY DEF MasterInv, TypeInv, CallInv
<1>2. /\ call[c].at = "wait" /\ Connected /\ Waiting(ch) # {}
      /\ inQueue' = RemoveAt(inQueue, i)
      /\ UNCHANGED <<callerUnchanged, outQueue, hasMessagesToSend, protocolVars, collided>>
    BY DEF Take, Removed
<1>3. inQueue \in Seq(GoodMessage) /\ Len(inQueue) \in Nat /\ DOMAIN inQueue = 1..Len(inQueue)
    BY <1>1, QueuesOfLine, QueueElements
<1>4. i \in DOMAIN inQueue /\ inQueue[i].channel = ch
    <2>1. Waiting(ch) \in SUBSET Nat
        BY <1>3 DEF Waiting
    <2>2. i \in Waiting(ch)
        BY <1>2, <2>1, FirstIsLeast
    <2> QED
        BY <2>2 DEF Waiting
<1>5. PICK m \in GoodMessage : m = inQueue[i]
    BY <1>3, <1>4
<1> DEFINE r == [call[c] EXCEPT !.at = "clear", !.reply = m]
<1>6. call' = [call EXCEPT ![c] = r]
    BY <1>1, <1>5 DEF Take, CallType
<1> HIDE DEF i
<1>7. /\ inQueue' \in Seq(GoodMessage) /\ Len(inQueue') = Len(inQueue) - 1
      /\ \A j \in 1..Len(inQueue') : inQueue'[j] = IF j < i THEN inQueue[j] ELSE inQueue[j + 1]
    BY <1>2, <1>3, <1>4, RemoveAtProperties
<1>8. /\ ToSet(inQueue') \subseteq ToSet(inQueue) /\ Senders(inQueue') \subseteq Senders(inQueue)
      /\ m.by # NoCaller => m.by \in Senders(inQueue)
      /\ Single(inQueue) => Single(inQueue') /\ m.by \notin Senders(inQueue')
    BY <1>3, <1>4, <1>5, <1>7, RemoveMessage
<1>9. /\ DeviceInv' /\ RegistryInv' /\ AsideInv' /\ CacheInv'
      /\ UNCHANGED <<toSlave, toMaster, status, mp, stop, unsentAtStop>>
    BY <1>1, <1>2, CallerFrame, CacheFrame DEF protocolVars
<1>10. LineInv' /\ QueueInv'
    BY <1>1, <1>2, <1>7, <1>9, QueueFrame DEF LineInv, protocolVars
<1>11. /\ r \in CallType /\ r.at = "clear" /\ r.nr = call[c].nr /\ r.reply = m
       /\ r.channel = call[c].channel /\ r.kind = call[c].kind
       /\ r.port = call[c].port /\ r.bChannel = call[c].bChannel
    BY <1>1 DEF CallType, Point
<1> HIDE DEF r
<1>12. CallOK(r)
    BY <1>1, <1>2, <1>11 DEF CallOK, Before
<1>13. CallInv' /\ call'[c] = r /\ \A d \in Caller \ {c} : call'[d] = call[d]
    <2>1. /\ currentChannel' \in (CHANNEL_LOWEST_SYNCHRONOUS - 1)..(CHANNEL_ROLLOVER - 1)
          /\ expectingMessage' \in BOOLEAN /\ collided' \in BOOLEAN
        BY <1>1, <1>2 DEF CallInv, protocolVars
    <2> QED
        BY <1>1, <1>6, <1>11, <1>12, <2>1, CallUpdate
<1>14. ASSUME ~collided
       PROVE  ChannelsDiffer' /\ AnsweredAsAsked' /\ UnderWayInv'
    <2>1. ChannelsDiffer /\ AnsweredAsAsked /\ UnderWayInv /\ OneEach /\ ~collided'
        BY <1>1, <1>2, <1>14 DEF AnswerInv, UnderWayInv
    <2>2. m.by = c /\ m.nr = call[c].nr
        BY <1>1, <1>2, <1>4, <1>5, <2>1, FoundIsOwn
    <2>3. Using(c)
        BY <1>2 DEF Using
    <2>4. ChannelsDiffer' /\ AnsweredAsAsked'
        BY <1>11, <1>13, <1>14, <2>1, <2>2, <2>3, ChannelsKept
    <2>5. OneEach'
        BY <1>2, <1>8, <1>9, <2>1 DEF OneEach, Apart
    <2>6. c \in Senders(inQueue) /\ c \notin Senders(inQueue')
        BY <1>8, <2>1, <2>2, MasterAssumption DEF OneEach, MasterAssumption
    <2>7. /\ c \notin Senders(outQueue) /\ c \notin Senders(toSlave)
          /\ c \notin Senders(toMaster)
        BY <2>1, <2>6 DEF OneEach, Apart
    <2>8. ASSUME NEW n \in UnderWay'
          PROVE  n \in UnderWay /\ n.by # c
        <3>1. \/ n \in ToSet(outQueue) \/ n \in ToSet(toSlave) \/ n \in ToSet(toMaster)
              \/ n \in ToSet(inQueue')
            BY <1>2, <1>9, <2>8 DEF UnderWay
        <3>2. n \in UnderWay
            BY <1>8, <3>1 DEF UnderWay
        <3>3. c # NoCaller
            BY MasterAssumption DEF MasterAssumption
        <3> QED
            BY <2>6, <2>7, <3>1, <3>2, <3>3 DEF Senders
    <2>9. ASSUME NEW n \in UnderWay'
          PROVE  Awaited(n)'
        <3>1. Awaited(n) /\ n.by \in Caller \cup {NoCaller} /\ n.by # c
            BY <1>1, <2>1, <2>8, <2>9, UnderWayIsGood DEF UnderWayInv
        <3>2. n.by # NoCaller => call'[n.by] = call[n.by]
            BY <1>13, <3>1
        <3> QED
            BY <3>1, <3>2 DEF Awaited
    <2> QED
        BY <2>4, <2>5, <2>9 DEF UnderWayInv
<1>15. AnswerInv'
    BY <1>2, <1>14 DEF AnswerInv
<1> QED
    BY <1>9, <1>10, <1>13, <1>15 DEF MasterInv, TypeInv

\* A message put aside is dispatched, dropped, or put aside again.
LEMMA DispatchAsideStep ==
    ASSUME MasterInv, NEW c \in Caller, DispatchAside(c)
    PROVE  MasterInv'
<1> DEFINE q == messagesToDispatch
<1>1. /\ call[c] \in CallType /\ call \in [Caller -> CallType] /\ CallOK(call[c])
      /\ CallInv /\ CacheInv /\ LineInv /\ DeviceInv /\ RegistryInv /\ AnswerInv /\ TypeInv
    BY DEF MasterInv, TypeInv, CallInv
<1>2. /\ call[c].at = "poll" /\ q # <<>> /\ q \in Seq(GoodMessage)
      /\ UNCHANGED <<inQueue, outQueue, mp, hasMessagesToSend, terminator, currentChannel,
                     expectingMessage, portVars, listVersion, dataLeft, disconnectsLeft,
                     collided, delivered>>
    BY <1>1, QueuesOfLine DEF DispatchAside
<1>3. Head(q) \in GoodMessage /\ Tail(q) \in Seq(GoodMessage)
    BY <1>2, TailMessage
<1>4. PICK m \in GoodMessage : m = Head(q)
    BY <1>3
<1> DEFINE r == [call[c] EXCEPT !.at = "drain", !.seen = @ \cup {m}]
<1>5. call' = [call EXCEPT ![c] = r]
    BY <1>1, <1>4 DEF DispatchAside, CallType
<1>6. /\ r \in CallType /\ r.at = "drain" /\ r.nr = call[c].nr /\ r.reply = call[c].reply
      /\ r.channel = call[c].channel /\ r.kind = call[c].kind
      /\ r.port = call[c].port /\ r.bChannel = call[c].bChannel
    BY <1>1 DEF CallType, Point
<1> HIDE DEF r
<1>7. CallOK(r)
    BY <1>1, <1>2, <1>6 DEF CallOK, Before
<1>8. /\ currentChannel' \in (CHANNEL_LOWEST_SYNCHRONOUS - 1)..(CHANNEL_ROLLOVER - 1)
      /\ expectingMessage' \in BOOLEAN /\ collided' \in BOOLEAN /\ (collided => collided')
      /\ collided \in BOOLEAN /\ Using(c)
    BY <1>1, <1>2 DEF CallInv, Using
<1>9. CASE /\ messagesToDispatch' \in {Tail(q), Append(Tail(q), m)}
           /\ UNCHANGED <<cacheVars, connectionVars>>
    <2>1. messagesToDispatch' \in Seq(GoodMessage)
        BY <1>3, <1>9, AppendMessage
    <2>2. CacheInv' /\ UNCHANGED callerUnchanged
        BY <1>1, <1>2, <1>9, CacheFrame DEF connectionVars, callerUnchanged
    <2> QED
        BY <1>2, <1>5, <1>6, <1>7, <1>8, <2>1, <2>2, QuietStep
<1>10. CASE messagesToDispatch' = Tail(q) /\ mp # "aside" /\ Act(m, toMaster)
    <2>1. toMaster \in Seq(GoodMessage)
        BY <1>1, QueuesOfLine
    <2>2. /\ CacheInv' /\ QueueInv'
          /\ toSlave' \in Seq(GoodMessage) /\ toMaster' \in Seq(GoodMessage)
          /\ status' \in {"CONNECTED", "DISCONNECTING", "DISCONNECTED", "ERROR"}
          /\ streamsOpen' \in BOOLEAN /\ slaveUp' \in BOOLEAN
          /\ Connected' => Connected /\ toMaster' = toMaster /\ UNCHANGED toSlave
        BY <1>1, <1>2, <1>10, <2>1, ActEffect
    <2>3. LineInv' /\ DeviceInv' /\ AsideInv' /\ RegistryInv'
        BY <1>1, <1>2, <1>3, <1>10, <2>2, RegistryFrame DEF LineInv, DeviceInv, AsideInv
    <2>4. CallInv' /\ call'[c] = r /\ \A d \in Caller \ {c} : call'[d] = call[d]
        BY <1>1, <1>5, <1>6, <1>7, <1>8, CallUpdate
    <2>5. AnswerInv'
        BY <1>1, <1>2, <1>6, <1>8, <2>2, <2>4, CallerMoves
    <2> QED
        BY <2>2, <2>3, <2>4, <2>5 DEF MasterInv, TypeInv
<1> QED
    BY <1>4, <1>9, <1>10 DEF DispatchAside

-----------------------------------------------------------------------------
(* The invariant holds                                                     *)

\* Nothing has happened yet.
LEMMA InitMasterInv == Init => MasterInv
<1> SUFFICES ASSUME Init PROVE MasterInv
    OBVIOUS
<1> USE DEF Init
<1>1. LineInv /\ AsideInv
    BY EmptyQueue DEF LineInv, AsideInv
<1>2. DeviceInv
    BY DEF DeviceInv
<1>3. CacheInv
    BY MasterAssumption DEF CacheInv, MasterAssumption, NoCaps
<1>4. RegistryInv
    <2>1. TableInv
        BY InitPortInv DEF PortInv
    <2>2. ports \in Seq(Port) /\ portCount \in Nat /\ result \in Status
        BY InitPortInv DEF PortInv, ListInv
    <2> QED
        BY <2>1, <2>2, MasterAssumption DEF RegistryInv, MasterAssumption
<1>5. CallInv
    <2>1. \A c \in Caller : call[c] = Idle
        OBVIOUS
    <2>2. CallOK(Idle)
        BY DEF CallOK, Idle
    <2>3. call \in [Caller -> CallType]
        BY IdleIsCall
    <2>4. currentChannel \in (CHANNEL_LOWEST_SYNCHRONOUS - 1)..(CHANNEL_ROLLOVER - 1)
        BY MasterAssumption DEF MasterAssumption
    <2> QED
        BY <2>1, <2>2, <2>3, <2>4 DEF CallInv
<1>6. QueueInv
    <2>1. outQueue = <<>> /\ Len(outQueue) = 0 /\ unsentAtStop = 0
        BY EmptyQueue
    <2>2. mp # "ended" /\ stop \in BOOLEAN /\ hasMessagesToSend \in BOOLEAN
        OBVIOUS
    <2> HIDE DEF Init
    <2> QED
        BY <2>1, <2>2 DEF QueueInv
<1>7. AnswerInv
    <2>1. \A c \in Caller : call[c].at = "idle" /\ call[c].reply.kind = "none"
        BY NoReplyYet DEF Idle
    <2>2. ChannelsDiffer /\ AnsweredAsAsked
        BY <2>1 DEF ChannelsDiffer, Using, AnsweredAsAsked
    <2>3. UnderWay = {} /\ OneEach
        BY EmptyQueue DEF UnderWay, OneEach, Apart
    <2> QED
        BY <2>2, <2>3 DEF AnswerInv, UnderWayInv
<1> QED
    BY <1>1, <1>2, <1>3, <1>4, <1>5, <1>6, <1>7 DEF MasterInv, TypeInv

\* One step of a caller ...
LEMMA CallerSteps ==
    ASSUME MasterInv, NEW c \in Caller, BeginAny(c) \/ CallerStep(c)
    PROVE  MasterInv'
<1>1. CASE BeginAny(c)
    <2>1. ASSUME NEW kind \in {"caps", "query", "refresh"}, Begin(c, kind, NoPort)
          PROVE  MasterInv'
        BY <2>1, BeginStep DEF OperationKind
    <2>2. ASSUME NEW kind \in {"bind", "unbind"}, NEW p \in StreamingPort, Begin(c, kind, p)
          PROVE  MasterInv'
        BY <2>2, BeginStep DEF OperationKind
    <2> QED
        BY <1>1, <2>1, <2>2 DEF BeginAny
<1>2. CASE CallerStep(c)
    <2>1. CASE EnterCounter(c) \/ StoreCounter(c) \/ Send(c) \/ Expect(c)
        BY <2>1, EnterCounterStep, StoreCounterStep, SendStep, ExpectStep
    <2>2. CASE Take(c) \/ FindDisconnected(c) \/ Timeout(c) \/ ClearExpecting(c)
        BY <2>2, TakeStep, FindDisconnectedStep, TimeoutStep, ClearExpectingStep
    <2>3. CASE LookAside(c) \/ PollNothing(c) \/ DispatchAside(c)
        BY <2>3, LookAsideStep, PollNothingStep, DispatchAsideStep
    <2>4. CASE UseState(c) \/ UseCaps(c) \/ UseBind(c) \/ UseUnbind(c)
        BY <2>4, UseStateStep, UseCapsStep, UseBindStep, UseUnbindStep
    <2> QED
        BY <1>2, <2>1, <2>2, <2>3, <2>4 DEF CallerStep
<1> QED
    BY <1>1, <1>2

\* ... and of anybody.
LEMMA NextMasterInv == MasterInv /\ [Next]_masterVars => MasterInv'
<1> SUFFICES ASSUME MasterInv, [Next]_masterVars PROVE MasterInv'
    OBVIOUS
<1>1. CASE ProcessorStep
    BY <1>1, ReceiveDisconnectStep, ReceiveControlStep, ReceiveMessageStep,
       FindExpectingStep, PutAsideStep, SendOneStep, ConnectionFailsStep, EndLoopStep
       DEF ProcessorStep
<1>2. CASE \E t \in Terminator : TerminatorNext(t)
    BY <1>2, TerminatorNextStep
<1>3. CASE \E c \in Caller : BeginAny(c) \/ CallerStep(c)
    BY <1>3, CallerSteps
<1>4. CASE UserDisconnect
    BY <1>4, UserDisconnectStep
<1>5. CASE SlaveNext
    BY <1>5, ServeQueryStep, ServeBindStep, ServeUnbindStep, ServeEndStep,
       ReconfigureStep, StreamStep, SlaveEndsStep
       DEF SlaveNext
<1>6. CASE UNCHANGED masterVars
    <2> USE <1>6 DEF masterVars, deviceVars, protocolVars, slaveVars, historyVars, MasterInv,
                     TypeInv
    <2>1. LineInv' /\ DeviceInv' /\ CacheInv' /\ RegistryInv' /\ CallInv' /\ QueueInv'
        BY LineFrame, DeviceFrame, CacheFrame, RegistryFrame, CallFrame, QueueFrame
    <2>2. AsideInv' /\ AnswerInv'
        BY AnswerFrame, UnderWayFrame DEF AsideInv, Connected
    <2> QED
        BY <2>1, <2>2
<1> QED
    BY <1>1, <1>2, <1>3, <1>4, <1>5, <1>6 DEF Next

\* The inductive invariant of one connection, for any number of callers, ports, channels
\* and terminators, with and without failures.
THEOREM MasterInvariant == Spec => []MasterInv
    BY InitMasterInv, NextMasterInv, PTL DEF Spec

\* The master keeps its types: the channel counter stays in its range, and no malformed
\* message is ever under way.
THEOREM MasterTypeCorrect == Spec => []TypeOK
<1>1. ASSUME LineInv
      PROVE  /\ inQueue \in Seq(MessageSet) /\ outQueue \in Seq(MessageSet)
             /\ toSlave \in Seq(MessageSet) /\ toMaster \in Seq(MessageSet)
             /\ messagesToDispatch \in Seq(MessageSet)
    <2>1. GoodMessage \subseteq MessageSet
        BY DEF GoodMessage
    <2>2. \A q \in Seq(GoodMessage) : q \in Seq(MessageSet)
        BY <2>1, SeqMonotonic
    <2> QED
        BY <1>1, <2>2, QueuesOfLine
<1>2. MasterInv => TypeOK
    BY <1>1 DEF MasterInv, TypeInv, DeviceInv, CacheInv, RegistryInv, TableInv, CallInv,
                QueueInv, TypeOK, PortTypeOK
<1> QED
    BY <1>2, MasterInvariant, PTL

\* An operation never gets the answer to another one, of its own caller or of another, as
\* long as no channel was given out twice.
THEOREM AnswersAreRight == Spec => []AnsweredAsAsked
<1>1. MasterInv => AnsweredAsAsked
    BY DEF MasterInv, AnswerInv, AnsweredAsAsked
<1> QED
    BY <1>1, MasterInvariant, PTL

\* On the same condition no operation leaves a reply behind in the input queue.
THEOREM NothingLeftBehind == Spec => [](~collided => NoReplyLeftBehind)
<1>1. ASSUME MasterInv, ~collided, Quiescent, NEW i \in DOMAIN inQueue
      PROVE  inQueue[i].by = NoCaller
    <2>1. UnderWayInv /\ LineInv
        BY <1>1 DEF MasterInv, TypeInv, AnswerInv, Quiescent
    <2>2. inQueue[i] \in UnderWay
        BY <2>1, QueuesOfLine, QueueElements DEF UnderWay
    <2>3. inQueue[i].by \in Caller \cup {NoCaller} /\ Awaited(inQueue[i])
        BY <2>1, <2>2, UnderWayIsGood DEF UnderWayInv
    <2>4. \A c \in Caller : call[c].at = "idle"
        BY <1>1 DEF Quiescent
    <2> QED
        BY <2>3, <2>4 DEF Awaited
<1>2. MasterInv => (~collided => NoReplyLeftBehind)
    BY <1>1 DEF NoReplyLeftBehind
<1> QED
    BY <1>2, MasterInvariant, PTL

\* The message processor fails because the connection is cut, and it stays cut.
FailedInv == mp = "failed" => ~streamsOpen \/ ~slaveUp

\* The connection is cut for good, and no other step makes the message processor fail.
Cut ==
    /\ ~streamsOpen => ~streamsOpen'
    /\ ~slaveUp => ~slaveUp'
    /\ mp' = "failed" => mp = "failed" \/ ~streamsOpen' \/ ~slaveUp'

LEMMA ProcessorCuts == ProcessorStep => Cut
<1> SUFFICES ASSUME ProcessorStep PROVE Cut
    OBVIOUS
<1>1. ASSUME NEW m, ReceiveDisconnect(m) \/ ReceiveControl(m) \/ ReceiveMessage(m)
      PROVE  Cut
    BY <1>1 DEF ReceiveDisconnect, ReceiveControl, ReceiveMessage, Act, SetDeviceError,
                CloseStreams, closingVars, Cut
<1>2. CASE FindExpecting
    BY <1>2 DEF FindExpecting, slaveVars, Cut
<1>3. CASE PutAside
    BY <1>3 DEF PutAside, Cut
<1>4. CASE SendOne
    BY <1>4 DEF SendOne, Cut
<1>5. CASE ConnectionFails
    BY <1>5 DEF ConnectionFails, SetDeviceError, CloseStreams, connectionVars, closingVars,
                Cut
<1>6. CASE EndLoop
    BY <1>6 DEF EndLoop, slaveVars, Cut
<1> QED
    BY <1>1, <1>2, <1>3, <1>4, <1>5, <1>6 DEF ProcessorStep

LEMMA CallerCuts == \A c \in Caller : BeginAny(c) \/ CallerStep(c) => Cut
<1> SUFFICES ASSUME NEW c \in Caller, BeginAny(c) \/ CallerStep(c) PROVE Cut
    OBVIOUS
<1>1. CASE UNCHANGED callerUnchanged
    BY <1>1 DEF callerUnchanged, closingVars, Cut
<1>2. CASE Timeout(c)
    BY <1>2 DEF Timeout, SetDeviceError, CloseStreams, Cut
<1>3. CASE DispatchAside(c)
    BY <1>3 DEF DispatchAside, Act, SetDeviceError, CloseStreams, connectionVars,
                closingVars, Cut
<1>4. CASE BeginAny(c)
    BY <1>1, <1>4 DEF BeginAny, Begin
<1>5. CASE EnterCounter(c) \/ StoreCounter(c) \/ Send(c) \/ Expect(c) \/ Take(c)
    BY <1>1, <1>5 DEF EnterCounter, StoreCounter, Send, Expect, Take
<1>6. CASE FindDisconnected(c) \/ ClearExpecting(c) \/ LookAside(c) \/ PollNothing(c)
    BY <1>1, <1>6 DEF FindDisconnected, ClearExpecting, LookAside, PollNothing
<1>7. CASE UseState(c) \/ UseCaps(c) \/ UseBind(c) \/ UseUnbind(c)
    BY <1>1, <1>7 DEF UseState, UseCaps, UseBind, UseUnbind, useUnchanged
<1> QED
    BY <1>2, <1>3, <1>4, <1>5, <1>6, <1>7 DEF CallerStep

LEMMA SlaveCuts == SlaveNext => Cut
<1> SUFFICES ASSUME SlaveNext PROVE Cut
    OBVIOUS
<1>1. UNCHANGED <<mp, streamsOpen>>
    BY DEF SlaveNext, ServeQuery, ServeBind, ServeUnbind, Refuse, ServeDisconnect, Serve,
           Reconfigure, Stream, SlaveEnds, slaveUnchanged, deviceVars
<1>2. slaveUp
    BY DEF SlaveNext, ServeQuery, ServeBind, ServeUnbind, Refuse, ServeDisconnect, Serve,
           Reconfigure, Stream, SlaveEnds, SlaveRuns
<1> QED
    BY <1>1, <1>2 DEF Cut

LEMMA NextCuts == [Next]_masterVars => Cut
<1> SUFFICES ASSUME [Next]_masterVars PROVE Cut
    OBVIOUS
<1>1. ASSUME NEW t \in Terminator, TerminatorNext(t)
      PROVE  Cut
    BY <1>1 DEF TerminatorNext, Announce, Stop, Close, TerminatorStep, CloseStreams, Cut
<1>2. CASE UserDisconnect
    BY <1>2 DEF UserDisconnect, slaveVars, Cut
<1>3. CASE UNCHANGED masterVars
    BY <1>3 DEF masterVars, deviceVars, slaveVars, Cut
<1> QED
    BY <1>1, <1>2, <1>3, ProcessorCuts, CallerCuts, SlaveCuts DEF Next

\* However the message processor stops, by the condition of its loop or by an exception,
\* all that was queued when it was told to is sent, or the connection was cut under it.
THEOREM SentBeforeTheEnd == Spec => []SentBeforeStopping
<1>1. Init => FailedInv
    BY DEF Init, FailedInv
<1>2. FailedInv /\ [Next]_masterVars => FailedInv'
    BY NextCuts DEF FailedInv, Cut
<1>3. MasterInv /\ FailedInv => SentBeforeStopping
    BY DEF MasterInv, TypeInv, QueueInv, FailedInv, SentBeforeStopping, Stopped
<1> QED
    BY <1>1, <1>2, <1>3, MasterInvariant, PTL DEF Spec

=============================================================================
