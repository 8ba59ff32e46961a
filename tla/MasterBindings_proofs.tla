------------------------ MODULE MasterBindings_proofs ------------------------
(***************************************************************************)
(* Proofs about the two tables of bindings, the master's and the slave's,  *)
(* while any number of threads bind and unbind streaming ports: stream     *)
(* data is given to the port that sent it, unless two threads have chosen  *)
(* the same channel, and both tables are the same when nothing is under    *)
(* way, unless two operations were about the same port.                    *)
(***************************************************************************)
EXTENDS MasterProtocol_proofs

-----------------------------------------------------------------------------
(* The invariant                                                           *)

Requests == ToSet(outQueue) \cup ToSet(toSlave)
Answers == ToSet(toMaster) \cup ToSet(inQueue)

\* Only a binder has to do with bindings.
BinderInv ==
    /\ \A c \in Caller :
          /\ call[c].kind \in {"bind", "unbind"} => c \in Binder
          /\ call[c].kind # "bind" => call[c].bChannel = 0
    /\ \A m \in Requests :
          /\ m.channel \notin BindChannel
          /\ m.kind # "OK"
          /\ m.kind \in {"bSP", "uSP"} => m.by \in Binder /\ m.channel \in RequestChannel
          /\ m.kind = "uSP" => m.value = 0
    /\ \A m \in Answers :
          /\ m.kind = "OK" => m.by \in Binder /\ m.channel \in RequestChannel
          /\ m.kind \notin {"bSP", "uSP"}

\* A port is being bound to a channel that is not in use, and that no other port is being
\* bound to.
ApartInv ==
    ~channelShared =>
        /\ \A c \in Caller :
              call[c].kind = "bind" => boundStreamingPorts[call[c].bChannel] = NoPort
        /\ \A c, d \in Caller :
              /\ call[c].kind = "bind" /\ call[d].kind = "bind"
              /\ call[c].bChannel = call[d].bChannel
              => c = d

\* A request to bind or unbind and its answer say what the operation is about.
MatchInv ==
    ~collided /\ Connected =>
        \A m \in UnderWay : m.kind \in {"bSP", "uSP", "OK"} =>
            m.port = call[m.by].port /\ m.value = call[m.by].bChannel

\* The slave knows no other port on a channel, is not asked for another one, and no data
\* of another port is on its way.
Owned(ch, p) ==
    \A i \in DOMAIN sPortBinds : sPortBinds[i].channel = ch => sPortBinds[i].port = p
NoRival(ch, p) == \A m \in Requests : m.kind = "bSP" /\ m.value = ch => m.port = p
DataOf(ch, p) == \A m \in ToSet(toMaster) : m.channel = ch => m.port = p
Claim(ch, p) == Owned(ch, p) /\ NoRival(ch, p) /\ DataOf(ch, p)

\* The ports in the table of the master have a claim to their channels ...
TableClaims ==
    \A ch \in BindChannel :
        boundStreamingPorts[ch] # NoPort => Claim(ch, boundStreamingPorts[ch])

\* ... and so has the port that is going to be entered.
CallClaims ==
    \A c \in Caller : call[c].kind = "bind" /\ call[c].reply.kind = "OK" =>
        Claim(call[c].bChannel, call[c].port)

\* That the slave has bound a port is true when it says so, and only data that it has
\* sent before can be another port's.
AnswerClaims ==
    /\ \A m \in Answers : m.kind = "OK" /\ m.value \in BindChannel => Owned(m.value, m.port)
    /\ \A m \in ToSet(inQueue) : m.kind = "OK" /\ m.value \in BindChannel =>
          DataOf(m.value, m.port)
    /\ \A i, j \in DOMAIN toMaster :
          /\ i < j
          /\ toMaster[i].kind = "OK" /\ toMaster[i].value \in BindChannel
          /\ toMaster[j].channel = toMaster[i].value
          => toMaster[j].port = toMaster[i].port

ClaimInv ==
    ~collided /\ ~channelShared =>
        /\ TableClaims /\ CallClaims
        /\ Connected => AnswerClaims

BindingInv == BinderInv /\ ApartInv /\ MatchInv /\ ClaimInv /\ DeliveredToItsPort

-----------------------------------------------------------------------------
(* What a step does                                                        *)

\* What the slave says: stream data of a port that is bound, another message that
\* answers nothing, or the answer to a request.
Said(x) ==
    /\ x.kind \notin {"bSP", "uSP"}
    /\ \/ /\ x.by = NoCaller /\ x.kind # "OK"
          /\ x.channel \in BindChannel =>
                \E i \in DOMAIN sPortBinds :
                    sPortBinds[i].channel = x.channel /\ sPortBinds[i].port = x.port
       \/ \E n \in ToSet(toSlave) :
             /\ x.by = n.by /\ x.channel = n.channel
             /\ n.kind = "uSP" => x.kind = "OK"
             /\ x.kind = "OK" =>
                   /\ n.kind \in {"bSP", "uSP"} /\ x.port = n.port /\ x.value = n.value
                   /\ n.kind = "bSP" => Owned(n.value, n.port)'

RequestsStep ==
    \A m \in Requests' :
        \/ m \in Requests \/ m = Control("Dis")
        \/ \E c \in Caller : /\ Connected /\ call[c].at = "send" /\ call'[c].at = "expect"
                             /\ m = RequestOf(c)

AnswersStep ==
    \/ toMaster' \in {toMaster, <<>>}
    \/ toMaster # <<>> /\ toMaster' = Tail(toMaster)
    \/ \E x \in GoodMessage : toMaster' = Append(toMaster, x) /\ Said(x)

QueueStep ==
    \A m \in ToSet(inQueue') :
        \/ m \in ToSet(inQueue)
        \/ toMaster # <<>> /\ m = Head(toMaster) /\ toMaster' \in {Tail(toMaster), <<>>}

TableStep ==
    \A i \in DOMAIN sPortBinds' :
        \/ \E j \in DOMAIN sPortBinds : sPortBinds'[i] = sPortBinds[j]
        \/ \E m \in ToSet(toSlave) : /\ m.kind = "bSP" /\ sPortBinds'[i].channel = m.value
                                     /\ sPortBinds'[i].port = m.port

LineStep == RequestsStep /\ AnswersStep /\ QueueStep /\ TableStep

\* An operation ends, begins, or goes on, with a reply it may have got.
Ends(c) ==
    /\ call'[c].at = "idle" /\ call'[c].reply = NoMessage
    /\ call'[c].kind = "none" /\ call'[c].bChannel = 0
Begins(c) ==
    /\ call'[c].at \in {"lock", "send"} /\ call'[c].reply = NoMessage
    /\ call'[c].kind \in {"bind", "unbind"} => c \in Binder
    /\ call'[c].kind # "bind" => call'[c].bChannel = 0
    /\ call'[c].kind = "bind" =>
          /\ boundStreamingPorts[call'[c].bChannel] = NoPort
          /\ ~channelShared' => \A d \in Caller :
                call[d].kind = "bind" => call[d].bChannel # call'[c].bChannel
          /\ ~portShared' => portChannel[call'[c].port] = 0
    /\ call'[c].kind \in {"bind", "unbind"} =>
          (~portShared' => \A d \in Caller : call[d].port # call'[c].port)
    /\ \A d \in Caller \ {c} : call'[d] = call[d]
    /\ UNCHANGED <<boundStreamingPorts, portChannel>>
GoesOn(c) ==
    /\ call'[c].kind = call[c].kind /\ call'[c].port = call[c].port
    /\ call'[c].bChannel = call[c].bChannel
    /\ \/ call'[c].reply \in {call[c].reply, NoMessage}
       \/ /\ Connected /\ call[c].at = "wait" /\ call'[c].reply \in ToSet(inQueue)
          /\ ~collided => call'[c].reply.by = c
CallStep == \A c \in Caller : Ends(c) \/ Begins(c) \/ GoesOn(c)

\* A binding is forgotten, or entered by the binder that has been answered.
CacheStep ==
    \A ch \in BindChannel :
        \/ boundStreamingPorts'[ch] \in {boundStreamingPorts[ch], NoPort}
        \/ \E c \in Caller :
              /\ call[c].kind = "bind" /\ call[c].reply.kind = "OK" /\ Ends(c)
              /\ ch = call[c].bChannel /\ boundStreamingPorts'[ch] = call[c].port

DeliveryStep ==
    \/ UNCHANGED delivered
    \/ \E m \in ToSet(toMaster) :
          /\ m.channel \in BindChannel /\ boundStreamingPorts[m.channel] # NoPort
          /\ delivered' = <<boundStreamingPorts[m.channel], m.port>>

StatusStep == (collided => collided') /\ (Connected' => Connected)
SharedStep == (channelShared => channelShared') /\ (portShared => portShared')

Effect == LineStep /\ CallStep /\ CacheStep /\ DeliveryStep /\ StatusStep

-----------------------------------------------------------------------------
(* What follows from the effect of a step                                  *)

\* What is on the line to the master was there before or is said now.
LEMMA AnswersOfLine ==
    ASSUME LineInv, AnswersStep
    PROVE  \A m \in ToSet(toMaster') :
              m \in ToSet(toMaster)
              \/ (m \in GoodMessage /\ toMaster' = Append(toMaster, m) /\ Said(m))
<1>1. toMaster \in Seq(GoodMessage)
    BY DEF LineInv
<1>2. CASE toMaster' \in {toMaster, <<>>}
    BY <1>2, EmptyQueue
<1>3. CASE toMaster # <<>> /\ toMaster' = Tail(toMaster)
    BY <1>1, <1>3, TailMessage
<1>4. ASSUME NEW x \in GoodMessage, toMaster' = Append(toMaster, x), Said(x)
      PROVE  \A m \in ToSet(toMaster') : m \in ToSet(toMaster) \/ m = x
    BY <1>1, <1>4, AppendMessage
<1> QED
    BY <1>2, <1>3, <1>4 DEF AnswersStep

\* Everything that is an answer now was one before or is said now.
LEMMA AnswersKept ==
    ASSUME LineInv, AnswersStep, QueueStep
    PROVE  \A m \in Answers' :
              m \in Answers
              \/ (m \in GoodMessage /\ toMaster' = Append(toMaster, m) /\ Said(m))
<1>1. toMaster # <<>> => Head(toMaster) \in ToSet(toMaster)
    BY TailMessage DEF LineInv
<1> QED
    BY <1>1, AnswersOfLine DEF Answers, QueueStep

\* A new request belongs to a caller that is not a binder, or to the one that is.
LEMMA NewRequest ==
    ASSUME CallInv, BinderInv, NEW c \in Caller, call[c].at = "send"
    PROVE  LET m == RequestOf(c)
           IN /\ m.channel \notin BindChannel /\ m.channel \in RequestChannel /\ m.by = c
              /\ m.port = call[c].port /\ m.value = call[c].bChannel
              /\ m.kind \notin {"OK", "NOK", "caps", "info", "state", "data"}
              /\ m.kind = "bSP" => call[c].kind = "bind"
              /\ m.kind = "uSP" => call[c].kind = "unbind"
<1>1. RequestOf(c).channel \in RequestChannel /\ RequestOf(c).by = c
    BY RequestMessage DEF CallInv, CallOK
<1>2. call[c].kind \in OperationKind
    BY DEF CallInv, CallOK
<1>3. RequestOf(c).port = call[c].port /\ RequestOf(c).value = call[c].bChannel
    BY DEF RequestOf, Message
<1>4. /\ RequestOf(c).kind \notin {"OK", "NOK", "caps", "info", "state", "data"}
      /\ RequestOf(c).kind = "bSP" => call[c].kind = "bind"
      /\ RequestOf(c).kind = "uSP" => call[c].kind = "unbind"
    BY <1>2 DEF RequestOf, Message, OperationKind
<1> QED
    BY <1>1, <1>3, <1>4, ChannelFacts

\* Binders stay binders.
LEMMA BinderKept ==
    ASSUME MasterInv, BinderInv, Effect
    PROVE  BinderInv'
<1>1. LineInv /\ CallInv /\ Binder \subseteq Caller
    BY MasterAssumption DEF MasterInv, TypeInv, MasterAssumption
<1>2. ASSUME NEW c \in Caller
      PROVE  /\ call'[c].kind \in {"bind", "unbind"} => c \in Binder
             /\ call'[c].kind # "bind" => call'[c].bChannel = 0
    BY <1>2 DEF Effect, CallStep, Ends, Begins, GoesOn, BinderInv
<1>3. ASSUME NEW m \in Requests'
      PROVE  /\ m.channel \notin BindChannel /\ m.kind # "OK"
             /\ m.kind \in {"bSP", "uSP"} => m.by \in Binder /\ m.channel \in RequestChannel
             /\ m.kind = "uSP" => m.value = 0
    <2>1. CASE m \in Requests
        BY <2>1 DEF BinderInv
    <2>2. CASE m = Control("Dis")
        BY <2>2, ChannelFacts DEF Control, Message, ControlChannel
    <2>3. ASSUME NEW c \in Caller, call[c].at = "send", m = RequestOf(c)
          PROVE  /\ m.channel \notin BindChannel /\ m.kind # "OK"
                 /\ m.kind \in {"bSP", "uSP"} => m.by \in Binder /\ m.channel \in RequestChannel
                 /\ m.kind = "uSP" => m.value = 0
        BY <1>1, <2>3, NewRequest DEF BinderInv
    <2> QED
        BY <1>3, <2>1, <2>2, <2>3 DEF Effect, LineStep, RequestsStep
<1>4. ASSUME NEW m \in Answers'
      PROVE  /\ m.kind = "OK" => m.by \in Binder /\ m.channel \in RequestChannel
             /\ m.kind \notin {"bSP", "uSP"}
    <2>1. CASE m \in Answers
        BY <2>1 DEF BinderInv
    <2>2. CASE Said(m)
        BY <2>2 DEF Said, BinderInv, Requests
    <2> QED
        BY <1>1, <1>4, <2>1, <2>2, AnswersKept DEF Effect, LineStep
<1> QED
    BY <1>2, <1>3, <1>4 DEF BinderInv

\* The channels of the bindings under way stay apart.
LEMMA ApartKept ==
    ASSUME MasterInv, BinderInv, ApartInv, Effect, SharedStep
    PROVE  ApartInv'
<1> SUFFICES ASSUME ~channelShared'
             PROVE  /\ \A c \in Caller : call'[c].kind = "bind" =>
                          boundStreamingPorts'[call'[c].bChannel] = NoPort
                    /\ \A c, d \in Caller :
                          /\ call'[c].kind = "bind" /\ call'[d].kind = "bind"
                          /\ call'[c].bChannel = call'[d].bChannel
                          => c = d
    BY DEF ApartInv
<1>1. CallInv /\ ~channelShared
    BY DEF MasterInv, TypeInv, SharedStep
<1>2. ASSUME NEW c \in Caller, call'[c].kind = "bind"
      PROVE  boundStreamingPorts'[call'[c].bChannel] = NoPort
    <2>1. CASE Begins(c)
        BY <1>2, <2>1 DEF Begins
    <2>2. CASE GoesOn(c)
        <3>1. /\ call[c].kind = "bind" /\ call'[c].bChannel = call[c].bChannel
              /\ call[c].bChannel \in BindChannel
            BY <1>1, <1>2, <2>2 DEF GoesOn, CallInv, CallOK
        <3>2. boundStreamingPorts[call[c].bChannel] = NoPort
            BY <1>1, <3>1 DEF ApartInv
        <3>3. ASSUME NEW d \in Caller, call[d].kind = "bind", Ends(d),
                     call[c].bChannel = call[d].bChannel
              PROVE  FALSE
            <4>1. d = c
                BY <1>1, <3>1, <3>3 DEF ApartInv
            <4> QED
                BY <1>2, <3>3, <4>1 DEF Ends
        <3> QED
            BY <3>1, <3>2, <3>3 DEF Effect, CacheStep
    <2> QED
        BY <1>2, <2>1, <2>2 DEF Effect, CallStep, Ends
<1>3. ASSUME NEW c \in Caller, NEW d \in Caller, c # d, Begins(c),
             call'[c].kind = "bind", call'[d].kind = "bind"
      PROVE  call'[c].bChannel # call'[d].bChannel
    BY <1>3 DEF Begins
<1>4. ASSUME NEW c \in Caller, NEW d \in Caller, GoesOn(c), GoesOn(d),
             call'[c].kind = "bind", call'[d].kind = "bind",
             call'[c].bChannel = call'[d].bChannel
      PROVE  c = d
    BY <1>1, <1>4 DEF GoesOn, ApartInv
<1> QED
    BY <1>2, <1>3, <1>4 DEF Effect, CallStep, Ends

\* A request and its answer go on saying what the operation is about.
LEMMA MatchKept ==
    ASSUME MasterInv, MasterInv', BinderInv, MatchInv, Effect
    PROVE  MatchInv'
<1> SUFFICES ASSUME ~collided', Connected', NEW m \in UnderWay',
                    m.kind \in {"bSP", "uSP", "OK"}
             PROVE  m.port = call'[m.by].port /\ m.value = call'[m.by].bChannel
    BY DEF MatchInv
<1>1. LineInv /\ CallInv /\ Binder \subseteq Caller /\ ~collided /\ Connected
    BY MasterAssumption DEF MasterInv, TypeInv, MasterAssumption, Effect, StatusStep
<1>2. UnderWay = Requests \cup Answers /\ UnderWay' = Requests' \cup Answers'
    BY DEF UnderWay, Requests, Answers
<1>3. CASE \E n \in UnderWay : /\ n.kind \in {"bSP", "uSP", "OK"} /\ m.by = n.by
                               /\ m.port = n.port /\ m.value = n.value
    <2>1. PICK n \in UnderWay : /\ n.kind \in {"bSP", "uSP", "OK"} /\ m.by = n.by
                                /\ m.port = n.port /\ m.value = n.value
        BY <1>3
    <2>2. n.by \in Caller
        BY <1>1, <1>2, <2>1 DEF BinderInv
    <2>3. n.port = call[n.by].port /\ n.value = call[n.by].bChannel
        BY <1>1, <2>1 DEF MatchInv
    <2>4. call'[n.by].at \in {"expect", "wait"}
        <3>1. UnderWayInv'
            BY DEF MasterInv, AnswerInv
        <3>2. m.by # NoCaller
            BY <2>1, <2>2, MasterAssumption DEF MasterAssumption
        <3> QED
            BY <2>1, <3>1, <3>2 DEF UnderWayInv, Awaited
    <2>5. GoesOn(n.by)
        BY <2>2, <2>4 DEF Effect, CallStep, Ends, Begins
    <2> QED
        BY <2>1, <2>3, <2>5 DEF GoesOn
<1>4. ASSUME NEW c \in Caller, call[c].at = "send", call'[c].at = "expect", m = RequestOf(c)
      PROVE  m.port = call'[m.by].port /\ m.value = call'[m.by].bChannel
    <2>1. m.by = c /\ m.port = call[c].port /\ m.value = call[c].bChannel
        BY <1>1, <1>4, NewRequest
    <2>2. GoesOn(c)
        BY <1>4 DEF Effect, CallStep, Ends, Begins
    <2> QED
        BY <2>1, <2>2 DEF GoesOn
<1>5. m # Control("Dis")
    BY DEF Control, Message
<1>6. CASE m \in Requests'
    BY <1>2, <1>3, <1>4, <1>5, <1>6 DEF Effect, LineStep, RequestsStep
<1>7. CASE m \in Answers'
    <2>1. CASE m \in Answers
        BY <1>2, <1>3, <2>1
    <2>2. CASE Said(m)
        <3>1. PICK n \in ToSet(toSlave) : /\ m.by = n.by /\ m.port = n.port
                                          /\ m.value = n.value /\ n.kind \in {"bSP", "uSP"}
            BY <2>2 DEF Said
        <3>2. n \in UnderWay
            BY DEF UnderWay
        <3> QED
            BY <1>3, <3>1, <3>2
    <2> QED
        BY <1>1, <1>7, <2>1, <2>2, AnswersKept DEF Effect, LineStep
<1> QED
    BY <1>2, <1>6, <1>7

\* Nobody but the port that has a claim to a channel gets it, unless a binder asks for
\* it now.
LEMMA ClaimKept ==
    ASSUME LineInv, CallInv, BinderInv, LineStep, NEW ch \in BindChannel, NEW p,
           Claim(ch, p),
           \A c \in Caller : call[c].at = "send" /\ call[c].kind = "bind" =>
               call[c].bChannel # ch
    PROVE  Claim(ch, p)'
<1>1. Owned(ch, p)'
    <2> SUFFICES ASSUME NEW i \in DOMAIN sPortBinds', sPortBinds'[i].channel = ch
                 PROVE  sPortBinds'[i].port = p
        BY DEF Owned
    <2>1. CASE \E j \in DOMAIN sPortBinds : sPortBinds'[i] = sPortBinds[j]
        BY <2>1 DEF Claim, Owned
    <2>2. ASSUME NEW m \in ToSet(toSlave), m.kind = "bSP", m.value = ch,
                 sPortBinds'[i].port = m.port
          PROVE  sPortBinds'[i].port = p
        BY <2>2 DEF Claim, NoRival, Requests
    <2> QED
        BY <2>1, <2>2 DEF LineStep, TableStep
<1>2. NoRival(ch, p)'
    <2> SUFFICES ASSUME NEW m \in Requests', m.kind = "bSP", m.value = ch
                 PROVE  m.port = p
        BY DEF NoRival
    <2>1. CASE m \in Requests
        BY <2>1 DEF Claim, NoRival
    <2>2. m # Control("Dis")
        BY DEF Control, Message
    <2>3. ASSUME NEW c \in Caller, call[c].at = "send", m = RequestOf(c)
          PROVE  FALSE
        BY <2>3, NewRequest
    <2> QED
        BY <2>1, <2>2, <2>3 DEF LineStep, RequestsStep
<1>3. DataOf(ch, p)'
    <2> SUFFICES ASSUME NEW m \in ToSet(toMaster'), m.channel = ch
                 PROVE  m.port = p
        BY DEF DataOf
    <2>1. CASE m \in ToSet(toMaster)
        BY <2>1 DEF Claim, DataOf
    <2>2. CASE Said(m)
        <3>1. \A n \in ToSet(toSlave) : n.channel # ch
            BY DEF BinderInv, Requests
        <3> QED
            BY <2>2, <3>1 DEF Said, Claim, Owned
    <2> QED
        BY <2>1, <2>2, AnswersOfLine DEF LineStep
<1> QED
    BY <1>1, <1>2, <1>3 DEF Claim

\* A binder that has its answer, or is about to take it, does not ask for its channel, and
\* nobody else does.
LEMMA NobodyAsks ==
    ASSUME ApartInv, ~channelShared, NEW c \in Caller, call[c].kind = "bind",
           call[c].at # "send"
    PROVE  \A d \in Caller : call[d].at = "send" /\ call[d].kind = "bind" =>
              call[d].bChannel # call[c].bChannel
    BY DEF ApartInv

\* Who has a reply is not about to send.
LEMMA NotSending ==
    ASSUME CallInv, NEW c \in Caller, call[c].reply.kind = "OK"
    PROVE  call[c].at # "send"
<1>1. call[c].at \in Before => call[c].reply = NoMessage
    BY DEF CallInv, CallOK
<1> QED
    BY <1>1, NoReplyYet DEF Before

\* Who asks for the channel that a port is being bound to asks for that port.
LEMMA AskedByBinder ==
    ASSUME BinderInv, ApartInv, MatchInv, ~collided, ~channelShared, Connected,
           Binder \subseteq Caller, NEW c \in Caller, call[c].bChannel \in BindChannel,
           NEW n \in Requests, n.kind = "bSP", n.value = call[c].bChannel
    PROVE  n.by = c /\ n.port = call[c].port
<1>1. /\ n.by \in Caller /\ n.port = call[n.by].port
      /\ call[n.by].bChannel = call[c].bChannel
    BY DEF BinderInv, MatchInv, UnderWay, Requests
<1>2. call[n.by].kind = "bind" /\ call[c].kind = "bind"
    BY <1>1, ChannelFacts DEF BinderInv
<1> QED
    BY <1>1, <1>2 DEF ApartInv

\* The answer that a binder takes gives its port a claim.
LEMMA TakenIsClaim ==
    ASSUME MasterInv, BinderInv, ApartInv, MatchInv, AnswerClaims, ~collided,
           ~channelShared, Connected, NEW c \in Caller, call[c].kind = "bind",
           NEW m \in ToSet(inQueue), m.kind = "OK", m.by = c
    PROVE  Claim(call[c].bChannel, call[c].port)
<1>1. call[c].bChannel \in BindChannel /\ Binder \subseteq Caller
    BY MasterAssumption DEF MasterInv, TypeInv, CallInv, CallOK, MasterAssumption
<1>2. m.port = call[c].port /\ m.value = call[c].bChannel
    BY DEF MatchInv, UnderWay
<1>3. Owned(m.value, m.port) /\ DataOf(m.value, m.port)
    BY <1>1, <1>2 DEF AnswerClaims, Answers
<1>4. ASSUME NEW n \in Requests, n.kind = "bSP", n.value = call[c].bChannel
      PROVE  n.port = call[c].port
    BY <1>1, <1>4, AskedByBinder
<1> QED
    BY <1>2, <1>3, <1>4 DEF Claim, NoRival

\* The claims of the table ...
LEMMA TableClaimsKept ==
    ASSUME MasterInv, BinderInv, ApartInv, ClaimInv, Effect, SharedStep, ~collided',
           ~channelShared'
    PROVE  TableClaims'
<1>1. /\ LineInv /\ CallInv /\ LineStep /\ ~collided /\ ~channelShared
      /\ TableClaims /\ CallClaims
    BY DEF MasterInv, TypeInv, Effect, StatusStep, SharedStep, ClaimInv
<1>2. ASSUME NEW ch \in BindChannel, NEW p, p = boundStreamingPorts'[ch], p # NoPort
      PROVE  Claim(ch, p)'
    <2>1. CASE p = boundStreamingPorts[ch]
        <3>1. \A c \in Caller : call[c].kind = "bind" => call[c].bChannel # ch
            BY <1>1, <1>2, <2>1 DEF ApartInv
        <3>2. Claim(ch, p)
            BY <1>1, <1>2, <2>1 DEF TableClaims
        <3> QED
            BY <1>1, <3>1, <3>2, ClaimKept
    <2>2. ASSUME NEW c \in Caller, call[c].kind = "bind", call[c].reply.kind = "OK",
                 ch = call[c].bChannel, p = call[c].port
          PROVE  Claim(ch, p)'
        <3>1. \A d \in Caller : call[d].at = "send" /\ call[d].kind = "bind" =>
                  call[d].bChannel # ch
            BY <1>1, <2>2, NotSending, NobodyAsks
        <3>2. Claim(ch, p)
            BY <1>1, <2>2 DEF CallClaims
        <3> QED
            BY <1>1, <3>1, <3>2, ClaimKept
    <2> QED
        BY <1>2, <2>1, <2>2 DEF Effect, CacheStep
<1> QED
    BY <1>2 DEF TableClaims, Claim, Owned, NoRival, DataOf, Requests

\* ... and those of the callers are kept.
LEMMA CallClaimsKept ==
    ASSUME MasterInv, BinderInv, ApartInv, MatchInv, ClaimInv, Effect, SharedStep,
           ~collided', ~channelShared'
    PROVE  CallClaims'
<1>1. /\ LineInv /\ CallInv /\ LineStep /\ ~collided /\ ~channelShared /\ CallClaims
      /\ Connected => AnswerClaims
    BY DEF MasterInv, TypeInv, Effect, StatusStep, SharedStep, ClaimInv
<1>2. ASSUME NEW c \in Caller, NEW ch, NEW p, ch = call'[c].bChannel, p = call'[c].port,
             call'[c].kind = "bind", call'[c].reply.kind = "OK"
      PROVE  Claim(ch, p)'
    <2>1. GoesOn(c)
        BY <1>2, NoReplyYet DEF Effect, CallStep, Ends, Begins
    <2>2. call[c].kind = "bind" /\ ch = call[c].bChannel /\ p = call[c].port
        BY <1>2, <2>1 DEF GoesOn
    <2>3. ch \in BindChannel
        BY <1>1, <2>2 DEF CallInv, CallOK
    <2>4. CASE call[c].reply.kind = "OK"
        <3>1. \A d \in Caller : call[d].at = "send" /\ call[d].kind = "bind" =>
                  call[d].bChannel # ch
            BY <1>1, <2>2, <2>4, NotSending, NobodyAsks
        <3>2. Claim(ch, p)
            BY <1>1, <2>2, <2>4 DEF CallClaims
        <3> QED
            BY <1>1, <2>3, <3>1, <3>2, ClaimKept
    <2>5. CASE call[c].reply.kind # "OK"
        <3>1. /\ Connected /\ call[c].at = "wait" /\ call'[c].reply \in ToSet(inQueue)
              /\ call'[c].reply.by = c
            BY <1>1, <1>2, <2>1, <2>5, NoReplyYet DEF GoesOn
        <3>2. Claim(ch, p)
            BY <1>1, <1>2, <2>2, <3>1, TakenIsClaim
        <3>3. \A d \in Caller : call[d].at = "send" /\ call[d].kind = "bind" =>
                  call[d].bChannel # ch
            BY <1>1, <2>2, <3>1, NobodyAsks
        <3> QED
            BY <1>1, <2>3, <3>2, <3>3, ClaimKept
    <2> QED
        BY <2>4, <2>5
<1> QED
    BY <1>2 DEF CallClaims, Claim, Owned, NoRival, DataOf, Requests

\* What the slave says of itself is true, and what it says on a channel after it has
\* bound a port is that port's.
LEMMA AnswerClaimsKept ==
    ASSUME MasterInv, BinderInv, ApartInv, MatchInv, ClaimInv, Effect, SharedStep,
           ~collided', ~channelShared', Connected'
    PROVE  AnswerClaims'
<1>1. /\ LineInv /\ CallInv /\ LineStep /\ ~collided /\ ~channelShared /\ Connected
      /\ AnswerClaims /\ toMaster \in Seq(GoodMessage) /\ Binder \subseteq Caller
    BY MasterAssumption
       DEF MasterInv, TypeInv, Effect, StatusStep, SharedStep, ClaimInv, LineInv,
           MasterAssumption
<1>2. ASSUME NEW m \in Answers, m.kind = "OK", m.value \in BindChannel
      PROVE  Owned(m.value, m.port)'
    <2> SUFFICES ASSUME NEW i \in DOMAIN sPortBinds', sPortBinds'[i].channel = m.value
                 PROVE  sPortBinds'[i].port = m.port
        BY DEF Owned
    <2>1. Owned(m.value, m.port)
        BY <1>1, <1>2 DEF AnswerClaims
    <2>2. ASSUME NEW n \in ToSet(toSlave), n.kind = "bSP", n.value = m.value
          PROVE  n.port = m.port
        <3>1. /\ m.by \in Caller /\ m.port = call[m.by].port
              /\ m.value = call[m.by].bChannel
            BY <1>1, <1>2 DEF BinderInv, MatchInv, UnderWay, Answers
        <3>2. n \in Requests
            BY DEF Requests
        <3> QED
            BY <1>1, <1>2, <2>2, <3>1, <3>2, AskedByBinder
    <2> QED
        BY <1>1, <2>1, <2>2 DEF Owned, LineStep, TableStep
<1>3. ASSUME NEW x, Said(x), x.kind = "OK", x.value \in BindChannel
      PROVE  Owned(x.value, x.port)'
    <2>1. PICK n \in ToSet(toSlave) : /\ n.kind \in {"bSP", "uSP"} /\ x.port = n.port
                                      /\ x.value = n.value
                                      /\ n.kind = "bSP" => Owned(n.value, n.port)'
        BY <1>3 DEF Said
    <2>2. n.kind # "uSP"
        <3>1. n.kind = "uSP" => n.value = 0
            BY DEF BinderInv, Requests
        <3> QED
            BY <1>3, <2>1, <3>1, ChannelFacts
    <2>3. Owned(n.value, n.port)'
        BY <2>1, <2>2
    <2> QED
        BY <2>1, <2>3 DEF Owned
<1>4. \A m \in Answers' : m.kind = "OK" /\ m.value \in BindChannel =>
          Owned(m.value, m.port)'
    BY <1>1, <1>2, <1>3, AnswersKept DEF LineStep
\* What is said on a channel that a port owns is said by the port.
<1>5. ASSUME NEW ch \in BindChannel, NEW p, Owned(ch, p), NEW x, Said(x), x.channel = ch
      PROVE  x.port = p
    <2>1. \A n \in ToSet(toSlave) : n.channel # ch
        BY DEF BinderInv, Requests
    <2> QED
        BY <1>5, <2>1 DEF Said, Owned
<1>6. ASSUME NEW m \in ToSet(inQueue'), m.kind = "OK", m.value \in BindChannel
      PROVE  DataOf(m.value, m.port)'
    <2>1. CASE m \in ToSet(inQueue)
        <3>1. DataOf(m.value, m.port) /\ Owned(m.value, m.port)
            BY <1>1, <1>6, <2>1 DEF AnswerClaims, Answers
        <3> QED
            BY <1>1, <1>5, <1>6, <3>1, AnswersOfLine DEF DataOf, LineStep
    <2>2. CASE toMaster # <<>> /\ m = Head(toMaster) /\ toMaster' = Tail(toMaster)
        <3> SUFFICES ASSUME NEW n \in ToSet(toMaster'), n.channel = m.value
                     PROVE  n.port = m.port
            BY DEF DataOf
        <3>1. /\ Len(toMaster) \in Nat /\ DOMAIN toMaster = 1..Len(toMaster)
              /\ toMaster' \in Seq(GoodMessage) /\ Len(toMaster') = Len(toMaster) - 1
              /\ DOMAIN toMaster' = 1..Len(toMaster')
              /\ Len(toMaster) # 0 /\ m = toMaster[1]
              /\ \A i \in 1..Len(toMaster') : toMaster'[i] = toMaster[i + 1]
            BY <1>1, <2>2, TailMessage, QueueElements
        <3>2. PICK i \in DOMAIN toMaster' : n = toMaster'[i]
            BY <3>1, QueueElements
        <3>3. i + 1 \in DOMAIN toMaster /\ n = toMaster[i + 1] /\ 1 < i + 1
              /\ 1 \in DOMAIN toMaster
            BY <3>1, <3>2
        <3> QED
            BY <1>1, <1>6, <3>1, <3>3 DEF AnswerClaims
    <2>3. CASE toMaster' = <<>>
        BY <2>3, EmptyQueue DEF DataOf
    <2> QED
        BY <1>1, <1>6, <2>1, <2>2, <2>3 DEF LineStep, QueueStep
<1>7. ASSUME NEW i \in DOMAIN toMaster', NEW j \in DOMAIN toMaster', i < j,
             toMaster'[i].kind = "OK", toMaster'[i].value \in BindChannel,
             toMaster'[j].channel = toMaster'[i].value
      PROVE  toMaster'[j].port = toMaster'[i].port
    <2>0. Len(toMaster) \in Nat /\ DOMAIN toMaster = 1..Len(toMaster)
        BY <1>1, QueueElements
    <2>1. CASE toMaster' = toMaster
        BY <1>1, <1>7, <2>1 DEF AnswerClaims
    <2>2. CASE toMaster' = <<>>
        BY <1>7, <2>2
    <2>3. CASE toMaster # <<>> /\ toMaster' = Tail(toMaster)
        <3>1. /\ i + 1 \in DOMAIN toMaster /\ j + 1 \in DOMAIN toMaster /\ i + 1 < j + 1
              /\ toMaster'[i] = toMaster[i + 1] /\ toMaster'[j] = toMaster[j + 1]
            BY <1>1, <1>7, <2>0, <2>3
        <3> QED
            BY <1>1, <1>7, <3>1 DEF AnswerClaims
    <2>4. ASSUME NEW x \in GoodMessage, toMaster' = Append(toMaster, x), Said(x)
          PROVE  toMaster'[j].port = toMaster'[i].port
        <3>1. /\ i \in DOMAIN toMaster /\ toMaster'[i] = toMaster[i]
              /\ (j \in DOMAIN toMaster /\ toMaster'[j] = toMaster[j]) \/ toMaster'[j] = x
            BY <1>1, <1>7, <2>0, <2>4
        <3>2. toMaster[i] \in Answers
            BY <1>1, <3>1, QueueElements DEF Answers
        <3>3. CASE toMaster'[j] = x
            <4>1. Owned(toMaster[i].value, toMaster[i].port)
                BY <1>1, <1>7, <3>1, <3>2 DEF AnswerClaims
            <4> QED
                BY <1>5, <1>7, <2>4, <3>1, <3>3, <4>1
        <3>4. CASE j \in DOMAIN toMaster /\ toMaster'[j] = toMaster[j]
            BY <1>1, <1>7, <3>1, <3>4 DEF AnswerClaims
        <3> QED
            BY <3>1, <3>3, <3>4
    <2> QED
        BY <1>1, <2>1, <2>2, <2>3, <2>4 DEF LineStep, AnswersStep
<1> QED
    BY <1>4, <1>6, <1>7 DEF AnswerClaims, Owned, DataOf

\* Data goes to the port that has a claim to its channel.
LEMMA DeliveryKept ==
    ASSUME ClaimInv, DeliveredToItsPort, Effect, SharedStep
    PROVE  DeliveredToItsPort'
<1>1. ASSUME ~collided, ~channelShared, NEW m \in ToSet(toMaster), m.channel \in BindChannel,
             boundStreamingPorts[m.channel] # NoPort
      PROVE  boundStreamingPorts[m.channel] = m.port
    BY <1>1 DEF ClaimInv, TableClaims, Claim, DataOf
<1>2. CASE UNCHANGED delivered
    BY <1>2 DEF DeliveredToItsPort, Effect, StatusStep, SharedStep
<1>3. CASE ~UNCHANGED delivered /\ ~collided' /\ ~channelShared'
    <2>1. ~collided /\ ~channelShared
        BY <1>3 DEF Effect, StatusStep, SharedStep
    <2>2. PICK m \in ToSet(toMaster) :
             /\ m.channel \in BindChannel /\ boundStreamingPorts[m.channel] # NoPort
             /\ delivered' = <<boundStreamingPorts[m.channel], m.port>>
        BY <1>3 DEF Effect, DeliveryStep
    <2>3. delivered'[1] = boundStreamingPorts[m.channel] /\ delivered'[2] = m.port
        BY <2>2
    <2> QED
        BY <1>1, <2>1, <2>2, <2>3 DEF DeliveredToItsPort
<1> QED
    BY <1>2, <1>3 DEF DeliveredToItsPort

\* A step with these effects keeps the invariant.
LEMMA BindingKept ==
    ASSUME MasterInv, MasterInv', BindingInv, Effect, SharedStep
    PROVE  BindingInv'
<1>1. BinderInv' /\ ApartInv' /\ MatchInv' /\ DeliveredToItsPort'
    BY BinderKept, ApartKept, MatchKept, DeliveryKept DEF BindingInv
<1>2. ClaimInv'
    BY TableClaimsKept, CallClaimsKept, AnswerClaimsKept DEF BindingInv, ClaimInv
<1> QED
    BY <1>1, <1>2 DEF BindingInv

\* At first nothing is bound.
LEMMA InitBindingInv == Init => BindingInv
<1> SUFFICES ASSUME Init PROVE BindingInv
    OBVIOUS
<1>1. /\ ToSet(outQueue) = {} /\ ToSet(toSlave) = {} /\ ToSet(toMaster) = {}
      /\ ToSet(inQueue) = {}
    BY EmptyQueue DEF Init
<1>2. Requests = {} /\ Answers = {} /\ UnderWay = {}
    BY <1>1 DEF Requests, Answers, UnderWay
<1>3. \A c \in Caller : call[c].kind = "none" /\ call[c].bChannel = 0
    BY DEF Init, Idle
<1>4. boundStreamingPorts = [ch \in BindChannel |-> NoPort] /\ toMaster = <<>>
    BY DEF Init
<1>5. BinderInv /\ ApartInv
    BY <1>2, <1>3 DEF BinderInv, ApartInv
<1>6. MatchInv
    BY <1>2 DEF MatchInv
<1>7. TableClaims
    BY <1>4 DEF TableClaims
<1>8. CallClaims
    BY <1>3 DEF CallClaims
<1>9. AnswerClaims
    BY <1>1, <1>2, <1>4 DEF AnswerClaims
<1>10. DeliveredToItsPort
    BY DEF Init, DeliveredToItsPort
<1> QED
    BY <1>5, <1>6, <1>7, <1>8, <1>9, <1>10 DEF BindingInv, ClaimInv

-----------------------------------------------------------------------------
(* The steps have these effects                                            *)

lineUnchanged == <<inQueue, outQueue, toSlave, toMaster, sPortBinds>>

\* The line does not change ...
LEMMA QuietLine ==
    ASSUME UNCHANGED lineUnchanged
    PROVE  LineStep
<1>1. UNCHANGED <<inQueue, outQueue, toSlave, toMaster, sPortBinds>>
    BY DEF lineUnchanged
<1> QED
    BY <1>1 DEF LineStep, RequestsStep, AnswersStep, QueueStep, TableStep, Requests

\* ... or is cut.
LEMMA CutLine ==
    ASSUME toSlave' = <<>>, toMaster' = <<>>, UNCHANGED <<inQueue, outQueue, sPortBinds>>
    PROVE  LineStep
    BY EmptyQueue DEF LineStep, RequestsStep, AnswersStep, QueueStep, TableStep, Requests

\* The callers stay as they are ...
LEMMA CallersStay ==
    ASSUME UNCHANGED call
    PROVE  CallStep
    BY DEF CallStep, GoesOn

\* ... the table of the master does ...
LEMMA TableStays ==
    ASSUME UNCHANGED boundStreamingPorts
    PROVE  CacheStep
    BY DEF CacheStep

\* ... or a Reconfigure clears it.
LEMMA TableIsCleared ==
    ASSUME CacheInv, Reconfigured
    PROVE  CacheStep
    BY DEF CacheStep, Reconfigured

\* A Disconnect message may be queued.
LEMMA DisconnectRequests ==
    ASSUME LineInv, Disconnect, UNCHANGED toSlave
    PROVE  RequestsStep
<1>1. CASE UNCHANGED outQueue
    BY <1>1 DEF RequestsStep, Requests
<1>2. CASE outQueue' = Append(outQueue, Control("Dis"))
    BY <1>2, AppendMessage, ControlMessage DEF RequestsStep, Requests, LineInv
<1> QED
    BY <1>1, <1>2 DEF Disconnect, Enqueue

\* The message at the head of the line is received: it goes to inQueue, or elsewhere.
LEMMA ReceivedLine ==
    ASSUME LineInv, toMaster # <<>>, toMaster' = Tail(toMaster),
           inQueue' \in {inQueue, Append(inQueue, Head(toMaster))},
           UNCHANGED sPortBinds
    PROVE  AnswersStep /\ QueueStep /\ TableStep
<1>1. Head(toMaster) \in GoodMessage
    BY TailMessage DEF LineInv
<1>2. QueueStep
    <2>1. ToSet(inQueue') \subseteq ToSet(inQueue) \cup {Head(toMaster)}
        <3>1. CASE inQueue' = inQueue
            BY <3>1
        <3>2. CASE inQueue' = Append(inQueue, Head(toMaster))
            BY <1>1, <3>2, AppendMessage DEF LineInv
        <3> QED
            BY <3>1, <3>2
    <2> QED
        BY <2>1 DEF QueueStep
<1>3. AnswersStep
    BY DEF AnswersStep
<1>4. TableStep
    BY DEF TableStep
<1> QED
    BY <1>2, <1>3, <1>4

\* The message processor.
LEMMA ProcessorEffect ==
    ASSUME MasterInv, ProcessorStep
    PROVE  Effect
<1> USE DEF MasterInv, TypeInv
<1>1. ASSUME NEW m, ReceiveDisconnect(m)
      PROVE  Effect
    <2>1. /\ toMaster # <<>> /\ m = Head(toMaster) /\ UNCHANGED processorUnchanged
          /\ toMaster' = Tail(toMaster) /\ Disconnect /\ inQueue' = Append(inQueue, m)
          /\ UNCHANGED <<closingVars, messagesToDispatch, cacheVars, delivered>>
        BY <1>1 DEF ReceiveDisconnect, Receive
    <2>2. UNCHANGED <<toSlave, sPortBinds, call, boundStreamingPorts, collided, status>>
        BY <2>1 DEF closingVars, processorUnchanged, portVars, cacheVars
    <2>3. RequestsStep
        BY <2>1, <2>2, DisconnectRequests
    <2>4. AnswersStep /\ QueueStep /\ TableStep
        BY <2>1, <2>2, ReceivedLine
    <2> QED
        BY <2>1, <2>2, <2>3, <2>4, CallersStay, TableStays
           DEF Effect, LineStep, DeliveryStep, StatusStep, Connected
<1>2. ASSUME NEW m, ReceiveControl(m)
      PROVE  Effect
    <2>1. /\ toMaster # <<>> /\ m = Head(toMaster) /\ UNCHANGED processorUnchanged
          /\ Act(m, Tail(toMaster)) /\ inQueue' = Append(inQueue, m)
          /\ UNCHANGED <<outQueue, delivered>>
        BY <1>2 DEF ReceiveControl, Receive
    <2>2. UNCHANGED <<sPortBinds, call, collided>>
        BY <2>1 DEF processorUnchanged, portVars
    <2>3. CASE Reconfigured /\ toMaster' = Tail(toMaster) /\ UNCHANGED closingVars
        <3>1. UNCHANGED <<toSlave, status>>
            BY <2>3 DEF closingVars
        <3>2. RequestsStep
            BY <2>1, <3>1 DEF RequestsStep, Requests
        <3>3. AnswersStep /\ QueueStep /\ TableStep
            BY <2>1, <2>2, <2>3, ReceivedLine
        <3> QED
            BY <2>1, <2>2, <2>3, <3>1, <3>2, <3>3, CallersStay, TableIsCleared
               DEF Effect, LineStep, DeliveryStep, StatusStep, Connected
    <2>4. CASE SetDeviceError /\ UNCHANGED cacheVars
        <3>1. /\ toSlave' = <<>> /\ toMaster' = <<>> /\ status' = "ERROR"
              /\ UNCHANGED boundStreamingPorts
            BY <2>4 DEF SetDeviceError, CloseStreams, cacheVars
        <3>2. Head(toMaster) \in GoodMessage
            BY <2>1, TailMessage DEF LineInv
        <3>3. QueueStep
            BY <2>1, <3>1, <3>2, AppendMessage DEF QueueStep, LineInv
        <3>4. RequestsStep /\ AnswersStep /\ TableStep
            BY <2>1, <2>2, <3>1, EmptyQueue DEF RequestsStep, Requests, AnswersStep, TableStep
        <3> QED
            BY <2>1, <2>2, <3>1, <3>3, <3>4, CallersStay, TableStays
               DEF Effect, LineStep, DeliveryStep, StatusStep, Connected
    <2> QED
        BY <2>1, <2>3, <2>4 DEF Act
<1>3. ASSUME NEW m, ReceiveMessage(m)
      PROVE  Effect
    <2>1. /\ toMaster # <<>> /\ m = Head(toMaster) /\ UNCHANGED processorUnchanged
          /\ toMaster' = Tail(toMaster)
          /\ UNCHANGED <<closingVars, outQueue, cacheVars>>
        BY <1>3 DEF ReceiveMessage, Receive
    <2>2. UNCHANGED <<toSlave, sPortBinds, call, boundStreamingPorts, collided, status>>
        BY <2>1 DEF closingVars, processorUnchanged, portVars, cacheVars
    <2>3. inQueue' \in {inQueue, Append(inQueue, Head(toMaster))} /\ DeliveryStep
        <3>1. m \in ToSet(toMaster)
            BY <2>1, TailMessage DEF LineInv
        <3> DEFINE to == IF m.channel \in BindChannel THEN FirstPort(m.channel) ELSE {}
        <3>2. IF to = {} THEN inQueue' = Append(inQueue, m) /\ UNCHANGED delivered
              ELSE delivered' = <<CHOOSE p \in to : TRUE, m.port>> /\ UNCHANGED inQueue
            BY <1>3 DEF ReceiveMessage
        <3>3. to # {} => /\ m.channel \in BindChannel
                         /\ boundStreamingPorts[m.channel] # NoPort
                         /\ to = {boundStreamingPorts[m.channel]}
            BY DEF FirstPort
        <3> HIDE DEF to
        <3>4. \A x : (CHOOSE p \in {x} : TRUE) = x
            OBVIOUS
        <3>5. to # {} => delivered' = <<boundStreamingPorts[m.channel], m.port>>
            BY <3>2, <3>3, <3>4
        <3> QED
            BY <2>1, <3>1, <3>2, <3>3, <3>5 DEF DeliveryStep
    <2>4. RequestsStep
        BY <2>1, <2>2 DEF RequestsStep, Requests
    <2>5. AnswersStep /\ QueueStep /\ TableStep
        BY <2>1, <2>2, <2>3, ReceivedLine
    <2> QED
        BY <2>2, <2>3, <2>4, <2>5, CallersStay, TableStays
           DEF Effect, LineStep, StatusStep, Connected
<1>4. CASE FindExpecting \/ EndLoop
    <2>1. /\ UNCHANGED <<inQueue, outQueue, status, protocolVars, call, slaveVars,
                         historyVars>>
        BY <1>4 DEF FindExpecting, EndLoop
    <2>2. UNCHANGED lineUnchanged /\ UNCHANGED <<boundStreamingPorts, collided, delivered>>
        BY <2>1 DEF lineUnchanged, protocolVars, cacheVars, slaveVars, portVars, historyVars
    <2> QED
        BY <2>1, <2>2, QuietLine, CallersStay, TableStays
           DEF Effect, DeliveryStep, StatusStep, Connected
<1>5. CASE PutAside
    <2>1. /\ toMaster # <<>> /\ toMaster' = Tail(toMaster)
          /\ UNCHANGED <<status, inQueue, outQueue, cacheVars, call, portVars, toSlave,
                         historyVars>>
        BY <1>5 DEF PutAside, AsideInv
    <2>2. UNCHANGED <<sPortBinds, boundStreamingPorts, collided, delivered>>
        BY <2>1 DEF cacheVars, portVars, historyVars
    <2>3. RequestsStep
        BY <2>1 DEF RequestsStep, Requests
    <2>4. AnswersStep /\ QueueStep /\ TableStep
        BY <2>1, <2>2, ReceivedLine
    <2> QED
        BY <2>1, <2>2, <2>3, <2>4, CallersStay, TableStays
           DEF Effect, LineStep, DeliveryStep, StatusStep, Connected
<1>6. CASE SendOne
    <2>1. UNCHANGED <<status, inQueue, protocolVars, call, portVars, toMaster, collided,
                      delivered>>
        BY <1>6 DEF SendOne
    <2>2. UNCHANGED <<sPortBinds, boundStreamingPorts>>
        BY <2>1 DEF portVars, protocolVars, cacheVars
    <2>3. RequestsStep
        <3>1. CASE outQueue = <<>>
            BY <1>6, <3>1 DEF SendOne, RequestsStep, Requests
        <3>2. CASE outQueue # <<>>
            <4>1. /\ toSlave' \in {toSlave, Append(toSlave, Head(outQueue))}
                  /\ outQueue' = Tail(outQueue)
                BY <1>6, <3>2 DEF SendOne
            <4>2. /\ Head(outQueue) \in GoodMessage /\ Head(outQueue) \in ToSet(outQueue)
                  /\ ToSet(outQueue') \subseteq ToSet(outQueue)
                BY <3>2, <4>1, TailMessage DEF LineInv
            <4>3. ToSet(toSlave') \subseteq ToSet(toSlave) \cup {Head(outQueue)}
                BY <4>1, <4>2, AppendMessage DEF LineInv
            <4> QED
                BY <4>2, <4>3 DEF RequestsStep, Requests
        <3> QED
            BY <3>1, <3>2
    <2>4. AnswersStep /\ QueueStep /\ TableStep
        BY <2>1, <2>2 DEF AnswersStep, QueueStep, TableStep
    <2> QED
        BY <2>1, <2>2, <2>3, <2>4, CallersStay, TableStays
           DEF Effect, LineStep, DeliveryStep, StatusStep, Connected
<1>7. CASE ConnectionFails
    <2>1. UNCHANGED <<inQueue, outQueue, protocolVars, call, portVars, collided, delivered>>
        BY <1>7 DEF ConnectionFails
    <2>2. UNCHANGED <<sPortBinds, boundStreamingPorts>>
        BY <2>1 DEF portVars, protocolVars, cacheVars
    <2>3. CASE UNCHANGED connectionVars
        <3>1. UNCHANGED <<toSlave, toMaster, status>>
            BY <2>3 DEF connectionVars, closingVars
        <3> QED
            BY <2>1, <2>2, <3>1, QuietLine, CallersStay, TableStays
               DEF lineUnchanged, Effect, DeliveryStep, StatusStep, Connected
    <2>4. CASE SetDeviceError
        <3>1. toSlave' = <<>> /\ toMaster' = <<>> /\ status' = "ERROR"
            BY <2>4 DEF SetDeviceError, CloseStreams
        <3> QED
            BY <2>1, <2>2, <3>1, CutLine, CallersStay, TableStays
               DEF Effect, DeliveryStep, StatusStep, Connected
    <2> QED
        BY <1>7, <2>3, <2>4 DEF ConnectionFails
<1> QED
    BY <1>1, <1>2, <1>3, <1>4, <1>5, <1>6, <1>7 DEF ProcessorStep

\* The terminator threads and the user.
LEMMA ClosingEffect ==
    ASSUME MasterInv, UserDisconnect \/ \E t \in Terminator : TerminatorNext(t)
    PROVE  Effect
<1> USE DEF MasterInv, TypeInv
<1>1. CASE UserDisconnect
    <2>1. /\ Disconnect
          /\ UNCHANGED <<status, inQueue, protocolVars, call, slaveVars, historyVars>>
        BY <1>1 DEF UserDisconnect
    <2>2. UNCHANGED <<toSlave, toMaster, sPortBinds, boundStreamingPorts, collided, delivered>>
        BY <2>1 DEF protocolVars, cacheVars, slaveVars, portVars, historyVars
    <2>3. RequestsStep
        BY <2>1, <2>2, DisconnectRequests
    <2>4. AnswersStep /\ QueueStep /\ TableStep
        BY <2>1, <2>2 DEF AnswersStep, QueueStep, TableStep
    <2> QED
        BY <2>1, <2>2, <2>3, <2>4, CallersStay, TableStays
           DEF Effect, LineStep, DeliveryStep, StatusStep, Connected
<1>2. ASSUME NEW t \in Terminator, TerminatorNext(t)
      PROVE  Effect
    <2>1. /\ UNCHANGED <<inQueue, outQueue, protocolVars, call, portVars, collided, delivered>>
          /\ \/ status' \in {status, "DISCONNECTING"} /\ UNCHANGED <<toSlave, toMaster>>
             \/ CloseStreams /\ status' = "DISCONNECTED"
        <3>1. CASE Announce(t)
            BY <3>1 DEF Announce, TerminatorStep
        <3>2. CASE Stop(t)
            BY <3>2 DEF Stop, TerminatorStep
        <3>3. CASE Close(t)
            BY <3>3 DEF Close, TerminatorStep
        <3> QED
            BY <1>2, <3>1, <3>2, <3>3 DEF TerminatorNext
    <2>2. UNCHANGED <<sPortBinds, boundStreamingPorts>>
        BY <2>1 DEF portVars, protocolVars, cacheVars
    <2>3. StatusStep /\ DeliveryStep
        BY <2>1 DEF StatusStep, DeliveryStep, Connected
    <2>4. LineStep
        BY <2>1, <2>2, QuietLine, CutLine DEF lineUnchanged, CloseStreams
    <2> QED
        BY <2>1, <2>2, <2>3, <2>4, CallersStay, TableStays DEF Effect
<1> QED
    BY <1>1, <1>2

\* What the slave does not touch.
LEMMA SlaveLeavesAlone ==
    ASSUME UNCHANGED slaveUnchanged, LineStep
    PROVE  Effect
<1>1. UNCHANGED <<status, call, boundStreamingPorts, collided, delivered>>
    BY DEF slaveUnchanged, deviceVars, protocolVars, cacheVars, historyVars
<1> QED
    BY <1>1, CallersStay, TableStays DEF Effect, DeliveryStep, StatusStep, Connected

\* It takes the request at the head of the line, or what is on the line is lost, and
\* says one thing.
LEMMA SlaveLine ==
    ASSUME LineInv, UNCHANGED slaveUnchanged,
           toSlave' \in {toSlave, <<>>} \/ (toSlave # <<>> /\ toSlave' = Tail(toSlave)),
           NEW x \in GoodMessage, Said(x), toMaster' \in {toMaster, Append(toMaster, x)},
           TableStep
    PROVE  Effect
<1>1. UNCHANGED <<inQueue, outQueue>>
    BY DEF slaveUnchanged, deviceVars
<1>2. ToSet(toSlave') \subseteq ToSet(toSlave)
    BY EmptyQueue, TailMessage DEF LineInv
<1>3. RequestsStep
    BY <1>1, <1>2 DEF RequestsStep, Requests
<1>4. AnswersStep
    BY DEF AnswersStep
<1>5. QueueStep
    BY <1>1 DEF QueueStep
<1> QED
    BY <1>3, <1>4, <1>5, SlaveLeavesAlone DEF LineStep

\* What it says of its own accord.
LEMMA SaysControl ==
    ASSUME NEW kind \in {"none", "Dis", "Err", "Reconf"}
    PROVE  Control(kind) \in GoodMessage /\ Said(Control(kind))
<1>1. Control(kind).channel = 0 /\ Control(kind).kind = kind /\ Control(kind).by = NoCaller
    BY DEF Control, Message, ControlChannel
<1> QED
    BY <1>1, ControlMessage, ChannelFacts DEF Said

\* After a request to bind has been granted, the channel is the port's.
LEMMA BoundIsOwned ==
    ASSUME TableInv, NEW p \in StreamingPort, NEW ch \in BindChannel, BindEffect(p, ch),
           BindStatus(p, ch) = "OK"
    PROVE  Owned(ch, p)'
<1>1. Len(sPortBinds) \in Nat /\ DOMAIN sPortBinds = 1..Len(sPortBinds)
    BY DEF TableInv
<1>2. CASE BoundAt(ch) = {}
    <2>1. sPortBinds' = Append(sPortBinds, [channel |-> ch, port |-> p])
        BY <1>2 DEF BindEffect
    <2>2. \A i \in DOMAIN sPortBinds : sPortBinds[i].channel # ch
        BY <1>2 DEF BoundAt
    <2> QED
        BY <1>1, <2>1, <2>2 DEF Owned
<1>3. CASE BoundAt(ch) # {}
    <2>1. sPortBinds[First(BoundAt(ch))].port = p
        BY <1>3 DEF BindStatus
    <2>2. First(BoundAt(ch)) \in BoundAt(ch)
        <3>1. BoundAt(ch) \in SUBSET Nat
            BY <1>1 DEF BoundAt
        <3> QED
            BY <1>3, <3>1, FirstIsLeast
    <2>3. \A i \in BoundAt(ch) : i = First(BoundAt(ch))
        BY <2>2 DEF BoundAt, TableInv, TableWellFormed
    <2>4. UNCHANGED sPortBinds
        BY <1>3 DEF BindEffect, bindVars
    <2> QED
        BY <2>1, <2>3, <2>4 DEF Owned, BoundAt
<1> QED
    BY <1>2, <1>3

\* The slave.
LEMMA SlaveEffect ==
    ASSUME MasterInv, BinderInv, SlaveNext
    PROVE  Effect
<1> USE DEF MasterInv, TypeInv
<1>1. ASSUME NEW m, ServeQuery(m)
      PROVE  Effect
    <2>1. /\ toSlave # <<>> /\ m = Head(toSlave) /\ m \in GoodMessage
          /\ UNCHANGED slaveUnchanged
        BY <1>1, ServeFrame DEF ServeQuery
    <2>2. /\ toSlave' = Tail(toSlave) /\ UNCHANGED bindVars /\ m \in ToSet(toSlave)
          /\ m.kind \in {"gDC", "gPI", "get"}
        BY <1>1, <2>1, TailMessage DEF ServeQuery, Served, LineInv
    <2>3. \E x \in GoodMessage : toMaster' = Append(toMaster, x) /\ Said(x)
        <3>1. ASSUME NEW kind \in {"info", "state", "NOK"}
              PROVE  Reply(m, kind) \in GoodMessage /\ Said(Reply(m, kind))
            <4>1. Reply(m, kind).kind = kind
                BY <2>1 DEF Reply, GoodMessage, MessageSet
            <4>2. /\ Reply(m, kind) \in GoodMessage /\ Reply(m, kind).by = m.by
                  /\ Reply(m, kind).channel = m.channel
                BY <2>1, ReplyMessage
            <4> QED
                BY <2>2, <4>1, <4>2 DEF Said
        <3>2. LET x == [Reply(m, "caps") EXCEPT !.value = listVersion]
              IN x \in GoodMessage /\ Said(x)
            <4> DEFINE x == [Reply(m, "caps") EXCEPT !.value = listVersion]
            <4>1. x.kind = "caps"
                BY <2>1 DEF Reply, GoodMessage, MessageSet
            <4>2. x \in GoodMessage /\ x.by = m.by /\ x.channel = m.channel
                BY <2>1, CapsMessage DEF RegistryInv
            <4> HIDE DEF x
            <4>3. Said(x)
                BY <2>2, <4>1, <4>2 DEF Said
            <4> QED
                BY <4>2, <4>3 DEF x
        <3> QED
            BY <1>1, <3>1, <3>2 DEF ServeQuery, Transmit
    <2>4. TableStep
        BY <2>2 DEF TableStep, bindVars
    <2> QED
        BY <2>1, <2>2, <2>3, <2>4, SlaveLine
<1>2. ASSUME NEW m, ServeBind(m) \/ ServeUnbind(m)
      PROVE  Effect
    <2>1. /\ toSlave # <<>> /\ m = Head(toSlave) /\ m \in GoodMessage
          /\ UNCHANGED slaveUnchanged
        BY <1>2, ServeFrame DEF ServeBind, ServeUnbind
    <2>2. toSlave' = Tail(toSlave) /\ m \in ToSet(toSlave)
        BY <1>2, <2>1, TailMessage DEF ServeBind, ServeUnbind, Served, LineInv
    <2>3. /\ m.kind \in {"bSP", "uSP"} /\ m.port \in StreamingPort
          /\ m.kind = "bSP" => m.value \in BindChannel
        BY <1>2, <2>1 DEF ServeBind, ServeUnbind, GoodMessage, WellFormed
    <2>4. ASSUME NEW kind \in {"OK", "NOK"}, m.kind = "uSP" => kind = "OK",
                 kind = "OK" /\ m.kind = "bSP" => Owned(m.value, m.port)'
          PROVE  Reply(m, kind) \in GoodMessage /\ Said(Reply(m, kind))
        <3>1. /\ Reply(m, kind).kind = kind /\ Reply(m, kind).port = m.port
              /\ Reply(m, kind).value = m.value
            BY <2>1 DEF Reply, GoodMessage, MessageSet
        <3>2. /\ Reply(m, kind) \in GoodMessage /\ Reply(m, kind).by = m.by
              /\ Reply(m, kind).channel = m.channel
            BY <2>1, ReplyMessage
        <3> QED
            BY <2>2, <2>3, <2>4, <3>1, <3>2 DEF Said
    <2>5. CASE ServeBind(m)
        <3>1. /\ BindEffect(m.port, m.value) /\ m.kind = "bSP"
              /\ toMaster' = Append(toMaster,
                                Reply(m, IF BindStatus(m.port, m.value) = "OK" THEN "OK"
                                         ELSE "NOK"))
            BY <2>5 DEF ServeBind, Transmit
        <3>2. TableStep
            <4>1. CASE UNCHANGED sPortBinds
                BY <4>1 DEF TableStep
            <4>2. CASE sPortBinds' = Append(sPortBinds, [channel |-> m.value, port |-> m.port])
                <5>1. sPortBinds \in Seq(Binding)
                    BY DEF RegistryInv, TableInv
                <5> QED
                    BY <2>2, <3>1, <4>2, <5>1 DEF TableStep
            <4> QED
                BY <3>1, <4>1, <4>2 DEF BindEffect, bindVars
        <3>3. BindStatus(m.port, m.value) = "OK" => Owned(m.value, m.port)'
            BY <2>3, <3>1, BoundIsOwned DEF RegistryInv
        <3> QED
            BY <2>1, <2>2, <2>4, <3>1, <3>2, <3>3, SlaveLine
    <2>6. CASE ServeUnbind(m)
        <3>1. UnbindEffect(m.port) /\ m.kind = "uSP"
              /\ toMaster' = Append(toMaster, Reply(m, "OK"))
            BY <2>6 DEF ServeUnbind, Transmit
        <3>2. TableStep
            <4>1. sPortBinds \in Seq(Binding) /\ DOMAIN sPortBinds = 1..Len(sPortBinds)
                  /\ Len(sPortBinds) \in Nat
                BY DEF RegistryInv, TableInv
            <4>2. CASE UNCHANGED sPortBinds
                BY <4>2 DEF TableStep
            <4>3. CASE /\ SlotsOf(m.port) # {}
                       /\ sPortBinds' = RemoveAt(sPortBinds, First(SlotsOf(m.port)))
                <5> DEFINE k == First(SlotsOf(m.port))
                <5>1. k \in DOMAIN sPortBinds
                    <6>1. SlotsOf(m.port) \in SUBSET Nat
                        BY <4>1 DEF SlotsOf
                    <6>2. k \in SlotsOf(m.port)
                        BY <4>3, <6>1, FirstIsLeast
                    <6> QED
                        BY <6>2 DEF SlotsOf
                <5> HIDE DEF k
                <5>2. /\ sPortBinds' \in Seq(Binding) /\ Len(sPortBinds') = Len(sPortBinds) - 1
                      /\ \A j \in 1..Len(sPortBinds') :
                            sPortBinds'[j] = IF j < k THEN sPortBinds[j] ELSE sPortBinds[j + 1]
                    BY <4>1, <4>3, <5>1, RemoveAtProperties DEF k
                <5>3. \A j \in DOMAIN sPortBinds' :
                         j \in DOMAIN sPortBinds /\ j + 1 \in DOMAIN sPortBinds
                         /\ j \in 1..Len(sPortBinds')
                    BY <4>1, <5>2
                <5> QED
                    BY <5>2, <5>3 DEF TableStep
            <4> QED
                BY <2>3, <3>1, <4>2, <4>3 DEF UnbindEffect, bindVars
        <3> QED
            BY <2>1, <2>2, <2>3, <2>4, <3>1, <3>2, SlaveLine
    <2> QED
        BY <1>2, <2>5, <2>6
<1>3. CASE (\E m : Refuse(m) \/ ServeDisconnect(m)) \/ SlaveEnds
    <2>1. /\ UNCHANGED slaveUnchanged /\ UNCHANGED bindVars /\ toSlave' = <<>>
          /\ \E kind \in {"Err", "Dis"} :
                toMaster' \in {toMaster, Append(toMaster, Control(kind))}
        BY <1>3 DEF Refuse, ServeDisconnect, SlaveEnds, Serve, SlaveLeaves, Transmit
    <2>2. TableStep
        BY <2>1 DEF TableStep, bindVars
    <2> QED
        BY <2>1, <2>2, SaysControl, SlaveLine
<1>4. CASE Reconfigure
    <2>1. /\ UNCHANGED slaveUnchanged /\ UNCHANGED toSlave /\ sPortBinds' = <<>>
          /\ toMaster' = Append(toMaster, Control("Reconf"))
        BY <1>4 DEF Reconfigure, ClearBindings, Transmit
    <2>2. TableStep
        BY <2>1 DEF TableStep
    <2> QED
        BY <2>1, <2>2, SaysControl, SlaveLine
<1>5. ASSUME NEW p \in StreamingPort, Stream(p)
      PROVE  Effect
    <2> DEFINE m == Message(spChannel[p], "data", NoCaller, 0, p, 0)
    <2>1. /\ UNCHANGED slaveUnchanged /\ UNCHANGED bindVars /\ UNCHANGED toSlave
          /\ spChannel[p] # Unbound /\ toMaster' = Append(toMaster, m)
        BY <1>5 DEF Stream, Transmit
    <2>2. spChannel[p] \in BindChannel
        BY <2>1 DEF RegistryInv, TableInv
    <2>3. m \in GoodMessage
        BY <2>2, DataMessage
    <2>4. m.by = NoCaller /\ m.kind = "data" /\ m.channel = spChannel[p] /\ m.port = p
        BY DEF Message
    <2>5. PICK i \in DOMAIN sPortBinds :
             sPortBinds[i] = [channel |-> spChannel[p], port |-> p]
        BY <2>1 DEF RegistryInv, TableInv, ChannelIsBinding
    <2> HIDE DEF m
    <2>6. Said(m)
        BY <2>4, <2>5 DEF Said
    <2>7. TableStep
        BY <2>1 DEF TableStep, bindVars
    <2> QED
        BY <2>1, <2>3, <2>6, <2>7, SlaveLine
<1> QED
    BY <1>1, <1>2, <1>3, <1>4, <1>5 DEF SlaveNext

\* What the callers do not touch; of the line they only touch inQueue and outQueue.
LEMMA CallersLeaveAlone ==
    ASSUME UNCHANGED callerUnchanged, collided => collided'
    PROVE  /\ UNCHANGED <<toSlave, toMaster, sPortBinds, status, delivered>>
           /\ AnswersStep /\ TableStep /\ DeliveryStep /\ StatusStep
<1>1. UNCHANGED <<toSlave, toMaster, sPortBinds, status, delivered>>
    BY DEF callerUnchanged, closingVars, portVars
<1> QED
    BY <1>1 DEF AnswersStep, TableStep, DeliveryStep, StatusStep, Connected

\* A caller goes on without a word.
LEMMA QuietCaller ==
    ASSUME UNCHANGED callerUnchanged, UNCHANGED <<inQueue, outQueue>>,
           collided => collided', CallStep, CacheStep
    PROVE  Effect
<1>1. RequestsStep /\ QueueStep
    BY CallersLeaveAlone DEF RequestsStep, Requests, QueueStep
<1> QED
    BY <1>1, CallersLeaveAlone DEF Effect, LineStep

\* One caller moves.
LEMMA OneMoves ==
    ASSUME CallInv, NEW c \in Caller, NEW r, call' = [call EXCEPT ![c] = r],
           Ends(c) \/ Begins(c) \/ GoesOn(c)
    PROVE  CallStep
<1>1. \A d \in Caller \ {c} : call'[d] = call[d]
    BY DEF CallInv
<1> QED
    BY <1>1 DEF CallStep, GoesOn

\* It leaves ...
LEMMA LeaveEnds ==
    ASSUME CallInv, NEW c \in Caller, Leave(c)
    PROVE  CallStep /\ Ends(c)
<1> DEFINE r == [Idle EXCEPT !.done = call[c].done + 1, !.nr = call[c].nr]
<1>1. call' = [call EXCEPT ![c] = r]
    BY DEF Leave
<1>2. r.at = "idle" /\ r.reply = NoMessage /\ r.kind = "none" /\ r.bChannel = 0
    BY DEF Idle
<1> HIDE DEF r
<1>3. call'[c] = r
    BY <1>1 DEF CallInv
<1>4. Ends(c)
    BY <1>2, <1>3 DEF Ends
<1> QED
    BY <1>1, <1>4, OneMoves

\* ... or goes on.
LEMMA GotoGoesOn ==
    ASSUME CallInv, NEW c \in Caller, NEW at \in Point, Goto(c, at)
    PROVE  CallStep
<1> DEFINE r == [call[c] EXCEPT !.at = at]
<1>1. /\ call' = [call EXCEPT ![c] = r] /\ r.reply = call[c].reply /\ r.kind = call[c].kind
      /\ r.port = call[c].port /\ r.bChannel = call[c].bChannel
    BY GotoUpdate
<1> HIDE DEF r
<1>2. call'[c] = r
    BY <1>1 DEF CallInv
<1>3. GoesOn(c)
    BY <1>1, <1>2 DEF GoesOn
<1> QED
    BY <1>1, <1>3, OneMoves

\* An operation begins.
LEMMA BeginEffect ==
    ASSUME MasterInv, NEW c \in Caller, BeginAny(c)
    PROVE  Effect
<1>1. PICK kind \in OperationKind, p \in StreamingPort \cup {NoPort} :
         Begin(c, kind, p) /\ (kind \in {"bind", "unbind"} => c \in Binder)
    BY DEF BeginAny, OperationKind
<1> DEFINE b == IF kind = "bind" THEN FreeChannel ELSE 0
           at == IF kind = "refresh" THEN "send" ELSE "lock"
           lock == IF kind = "refresh" THEN 0 ELSE currentChannel
           ch == IF kind = "refresh" THEN CHANNEL_REFRESH ELSE 0
           r == [call[c] EXCEPT !.kind = kind, !.port = p, !.bChannel = b, !.at = at,
                                !.lock = lock, !.channel = ch]
<1>2. /\ call[c] \in CallType /\ call \in [Caller -> CallType] /\ CallOK(call[c]) /\ CallInv
    BY DEF MasterInv, TypeInv, CallInv
<1>3. /\ call[c].at = "idle" /\ MayStart(kind, p) /\ (collided => collided')
      /\ UNCHANGED callerUnchanged /\ UNCHANGED <<inQueue, outQueue, protocolVars>>
    BY <1>1 DEF Begin
<1>4. kind = "bind" => b = FreeChannel /\ boundStreamingPorts[b] = NoPort
    <2> DEFINE S == {x \in BindChannel : boundStreamingPorts[x] = NoPort}
    <2>1. S \in SUBSET Nat /\ (kind = "bind" => S # {})
        BY <1>3, ChannelFacts DEF MayStart
    <2>2. kind = "bind" => First(S) \in S
        BY <2>1, FirstIsLeast
    <2> QED
        BY <2>2 DEF FreeChannel
<1>5. at \in {"lock", "send"} /\ (kind # "bind" => b = 0)
    OBVIOUS
<1>6. call[c].reply = NoMessage
    BY <1>2, <1>3 DEF CallOK, Before
<1>7. call' = [call EXCEPT ![c] = r]
    BY <1>1, <1>2 DEF Begin, CallType
<1> HIDE DEF b, at, lock, ch
<1>8. r.at = at /\ r.kind = kind /\ r.port = p /\ r.bChannel = b /\ r.reply = NoMessage
    BY <1>2, <1>6 DEF CallType
<1> HIDE DEF r
<1>9. call'[c] = r /\ UNCHANGED <<boundStreamingPorts, portChannel>>
    BY <1>2, <1>3, <1>7 DEF protocolVars, cacheVars
<1>10. \A d \in Caller \ {c} : call'[d] = call[d]
    BY <1>2, <1>7
<1>11. /\ ~channelShared' => ~(kind = "bind" /\ Chosen(FreeChannel))
       /\ ~portShared' => /\ ~(kind \in {"bind", "unbind"} /\ Busy(p))
                          /\ ~(kind = "bind" /\ portChannel[p] # 0)
    BY <1>1 DEF Begin
<1>12. Begins(c)
    BY <1>1, <1>4, <1>5, <1>8, <1>9, <1>10, <1>11 DEF Begins, Chosen, Busy
<1> QED
    BY <1>2, <1>3, <1>7, <1>9, <1>12, OneMoves, QuietCaller, TableStays

\* A request is sent.
LEMMA SendEffect ==
    ASSUME MasterInv, NEW c \in Caller, Send(c)
    PROVE  Effect
<1>1. /\ call[c] \in CallType /\ call \in [Caller -> CallType] /\ CallInv /\ LineInv
    BY DEF MasterInv, TypeInv, CallInv
<1>2. /\ call[c].at = "send" /\ UNCHANGED callerUnchanged
      /\ UNCHANGED <<inQueue, protocolVars, collided>>
    BY DEF Send
<1>3. CacheStep
    BY <1>2, TableStays DEF protocolVars, cacheVars
<1>4. CASE Connected
    <2> DEFINE r == [call[c] EXCEPT !.at = "expect", !.nr = call[c].nr + 1]
    <2>1. call' = [call EXCEPT ![c] = r] /\ outQueue' = Append(outQueue, RequestOf(c))
        BY <1>1, <1>4 DEF Send, Enqueue, CallType
    <2>2. /\ r.at = "expect" /\ r.reply = call[c].reply /\ r.kind = call[c].kind
          /\ r.port = call[c].port /\ r.bChannel = call[c].bChannel
        BY <1>1 DEF CallType
    <2> HIDE DEF r
    <2>3. call'[c] = r
        BY <1>1, <2>1
    <2>4. GoesOn(c)
        BY <2>2, <2>3 DEF GoesOn
    <2>5. CallStep
        BY <1>1, <2>1, <2>4, OneMoves
    <2>6. RequestsStep
        <3>1. ToSet(outQueue') = ToSet(outQueue) \cup {RequestOf(c)}
            BY <1>1, <1>2, <2>1, RequestMessage, AppendMessage DEF LineInv
        <3> QED
            BY <1>2, <1>4, <2>2, <2>3, <3>1, CallersLeaveAlone DEF RequestsStep, Requests
    <2>7. QueueStep
        BY <1>2 DEF QueueStep
    <2> QED
        BY <1>2, <1>3, <2>5, <2>6, <2>7, CallersLeaveAlone DEF Effect, LineStep
<1>5. CASE ~Connected
    BY <1>1, <1>2, <1>3, <1>5, LeaveEnds, QuietCaller DEF Send
<1> QED
    BY <1>4, <1>5

\* An answer is taken.
LEMMA TakeEffect ==
    ASSUME MasterInv, NEW c \in Caller, Take(c)
    PROVE  Effect
<1> DEFINE ch == call[c].channel
           i == First(Waiting(ch))
<1>1. /\ call[c] \in CallType /\ call \in [Caller -> CallType] /\ CallInv /\ LineInv
      /\ AnswerInv
    BY DEF MasterInv, TypeInv, CallInv
<1>2. /\ call[c].at = "wait" /\ Connected /\ Waiting(ch) # {}
      /\ inQueue' = RemoveAt(inQueue, i)
      /\ UNCHANGED <<callerUnchanged, outQueue, protocolVars, collided>>
    BY DEF Take, Removed
<1>3. inQueue \in Seq(GoodMessage) /\ Len(inQueue) \in Nat /\ DOMAIN inQueue = 1..Len(inQueue)
    BY <1>1, QueuesOfLine, QueueElements
<1>4. i \in DOMAIN inQueue /\ inQueue[i].channel = ch
    <2>1. Waiting(ch) \in SUBSET Nat
        BY <1>3 DEF Waiting
    <2>2. i \in Waiting(ch)
        BY <1>2, <2>1, FirstIsLeast
    <2> QED
        BY <2>2 DEF Waiting
<1>5. PICK m \in GoodMessage : m = inQueue[i]
    BY <1>3, <1>4
<1> DEFINE r == [call[c] EXCEPT !.at = "clear", !.reply = m]
<1>6. call' = [call EXCEPT ![c] = r]
    BY <1>1, <1>5 DEF Take, CallType
<1> HIDE DEF i
<1>7. ToSet(inQueue') \subseteq ToSet(inQueue) /\ m \in ToSet(inQueue)
    <2>1. /\ inQueue' \in Seq(GoodMessage) /\ Len(inQueue') = Len(inQueue) - 1
          /\ \A j \in 1..Len(inQueue') :
                inQueue'[j] = IF j < i THEN inQueue[j] ELSE inQueue[j + 1]
        BY <1>2, <1>3, <1>4, RemoveAtProperties
    <2> QED
        BY <1>3, <1>4, <1>5, <2>1, RemoveMessage, QueueElements
<1>8. ~collided => m.by = c
    BY <1>1, <1>2, <1>4, <1>5, FoundIsOwn DEF AnswerInv
<1>9. /\ r.reply = m /\ r.kind = call[c].kind
      /\ r.port = call[c].port /\ r.bChannel = call[c].bChannel
    BY <1>1 DEF CallType
<1> HIDE DEF r
<1>10. call'[c] = r
    BY <1>1, <1>6
<1>11. GoesOn(c)
    BY <1>2, <1>7, <1>8, <1>9, <1>10 DEF GoesOn
<1>12. CallStep /\ CacheStep
    BY <1>1, <1>2, <1>6, <1>11, OneMoves, TableStays DEF protocolVars, cacheVars
<1>13. RequestsStep /\ QueueStep
    BY <1>2, <1>7, CallersLeaveAlone DEF RequestsStep, Requests, QueueStep
<1> QED
    BY <1>2, <1>12, <1>13, CallersLeaveAlone DEF Effect, LineStep

\* What else a caller does.
LEMMA OtherCallerEffect ==
    ASSUME MasterInv, NEW c \in Caller, CallerStep(c), ~Send(c), ~Take(c)
    PROVE  Effect
<1>1. /\ call[c] \in CallType /\ call \in [Caller -> CallType] /\ CallInv /\ LineInv
      /\ CacheInv
    BY DEF MasterInv, TypeInv, CallInv
<1>2. CASE EnterCounter(c) \/ StoreCounter(c)
    <2>1. /\ UNCHANGED <<callerUnchanged, inQueue, outQueue, cacheVars>>
          /\ collided => collided'
        <3>1. CASE EnterCounter(c)
            BY <3>1 DEF EnterCounter, protocolVars
        <3>2. CASE StoreCounter(c)
            <4>1. /\ UNCHANGED <<callerUnchanged, inQueue, outQueue, cacheVars>>
                  /\ collided' = (collided \/ OthersInFlight(c, call[c].channel))
                BY <3>2 DEF StoreCounter
            <4> QED
                BY <4>1
        <3> QED
            BY <1>2, <3>1, <3>2
    <2>2. PICK r : /\ call' = [call EXCEPT ![c] = r] /\ r.reply = call[c].reply
                   /\ r.kind = call[c].kind /\ r.port = call[c].port
                   /\ r.bChannel = call[c].bChannel
        <3>1. CASE EnterCounter(c)
            <4> DEFINE r == [call[c] EXCEPT !.at = "count", !.channel = NextChannel(currentChannel)]
            <4>1. call' = [call EXCEPT ![c] = r]
                BY <1>1, <3>1 DEF EnterCounter, CallType
            <4>2. /\ r.reply = call[c].reply /\ r.kind = call[c].kind
                  /\ r.port = call[c].port /\ r.bChannel = call[c].bChannel
                BY <1>1 DEF CallType
            <4> QED
                BY <4>1, <4>2
        <3>2. CASE StoreCounter(c)
            <4> DEFINE r == [call[c] EXCEPT !.at = "send", !.lock = 0]
            <4>1. call' = [call EXCEPT ![c] = r]
                BY <1>1, <3>2 DEF StoreCounter, CallType
            <4>2. /\ r.reply = call[c].reply /\ r.kind = call[c].kind
                  /\ r.port = call[c].port /\ r.bChannel = call[c].bChannel
                BY <1>1 DEF CallType
            <4> QED
                BY <4>1, <4>2
        <3> QED
            BY <1>2, <3>1, <3>2
    <2>3. call'[c] = r
        BY <1>1, <2>2
    <2>4. GoesOn(c)
        BY <2>2, <2>3 DEF GoesOn
    <2>5. CallStep /\ CacheStep
        BY <1>1, <2>1, <2>2, <2>4, OneMoves, TableStays DEF cacheVars
    <2> QED
        BY <2>1, <2>5, QuietCaller
<1>3. CASE Expect(c) \/ FindDisconnected(c) \/ ClearExpecting(c)
    <2>1. UNCHANGED <<callerUnchanged, inQueue, outQueue, cacheVars, collided>>
        BY <1>3 DEF Expect, FindDisconnected, ClearExpecting, protocolVars
    <2>2. \E at \in Point : Goto(c, at)
        BY <1>3 DEF Expect, FindDisconnected, ClearExpecting, Point, Before
    <2>3. CallStep /\ CacheStep
        BY <1>1, <2>1, <2>2, GotoGoesOn, TableStays DEF cacheVars
    <2> QED
        BY <2>1, <2>3, QuietCaller
<1>4. CASE Timeout(c)
    <2>1. /\ UNCHANGED <<inQueue, outQueue, protocolVars, portVars, collided, delivered>>
          /\ toSlave' = <<>> /\ toMaster' = <<>> /\ status' = "ERROR"
          /\ Goto(c, "clear")
        BY <1>4 DEF Timeout, SetDeviceError, CloseStreams
    <2>2. UNCHANGED <<sPortBinds, boundStreamingPorts>>
        BY <2>1 DEF portVars, protocolVars, cacheVars
    <2>3. CallStep /\ CacheStep
        BY <1>1, <2>1, <2>2, GotoGoesOn, TableStays DEF Point
    <2> QED
        BY <2>1, <2>2, <2>3, CutLine DEF Effect, DeliveryStep, StatusStep, Connected
<1>5. CASE LookAside(c)
    <2>1. UNCHANGED <<callerUnchanged, inQueue, outQueue, cacheVars, collided>>
        BY <1>5 DEF LookAside, protocolVars
    <2>2. CallStep
        <3>1. CASE Goto(c, "poll")
            BY <1>1, <3>1, GotoGoesOn DEF Point
        <3>2. CASE call' = [call EXCEPT ![c].at = "use", ![c].seen = {}]
            <4> DEFINE r == [call[c] EXCEPT !.at = "use", !.seen = {}]
            <4>1. call' = [call EXCEPT ![c] = r]
                BY <1>1, <3>2 DEF CallType
            <4>2. /\ r.reply = call[c].reply /\ r.kind = call[c].kind
                  /\ r.port = call[c].port /\ r.bChannel = call[c].bChannel
                BY <1>1 DEF CallType
            <4> HIDE DEF r
            <4>3. call'[c] = r
                BY <1>1, <4>1
            <4> QED
                BY <1>1, <4>1, <4>2, <4>3, OneMoves DEF GoesOn
        <3> QED
            BY <1>5, <3>1, <3>2 DEF LookAside
    <2> QED
        BY <2>1, <2>2, QuietCaller, TableStays DEF cacheVars
<1>6. CASE PollNothing(c) \/ UseState(c)
    <2>1. UNCHANGED <<callerUnchanged, inQueue, outQueue, cacheVars, collided>> /\ Leave(c)
        BY <1>6 DEF PollNothing, UseState, useUnchanged, protocolVars
    <2> QED
        BY <1>1, <2>1, LeaveEnds, QuietCaller, TableStays DEF cacheVars
<1>7. CASE DispatchAside(c)
    <2> DEFINE m == Head(messagesToDispatch)
               r == [call[c] EXCEPT !.at = "drain", !.seen = call[c].seen \cup {m}]
    <2>1. /\ UNCHANGED <<inQueue, outQueue, portVars, collided, delivered>>
          /\ (UNCHANGED <<cacheVars, connectionVars>>) \/ Act(m, toMaster)
        BY <1>7 DEF DispatchAside
    <2>2. call' = [call EXCEPT ![c] = r]
        BY <1>1, <1>7 DEF DispatchAside, CallType
    <2>3. /\ r.reply = call[c].reply /\ r.kind = call[c].kind
          /\ r.port = call[c].port /\ r.bChannel = call[c].bChannel
        BY <1>1 DEF CallType
    <2> HIDE DEF r, m
    <2>4. call'[c] = r
        BY <1>1, <2>2
    <2>5. CallStep
        BY <1>1, <2>2, <2>3, <2>4, OneMoves DEF GoesOn
    <2>6. UNCHANGED sPortBinds
        BY <2>1 DEF portVars
    <2>7. CASE UNCHANGED <<cacheVars, connectionVars>>
        <3>1. UNCHANGED <<toSlave, toMaster, status, boundStreamingPorts>>
            BY <2>7 DEF cacheVars, connectionVars, closingVars
        <3> QED
            BY <2>1, <2>5, <2>6, <3>1, QuietLine, TableStays
               DEF lineUnchanged, Effect, DeliveryStep, StatusStep, Connected
    <2>8. CASE Reconfigured /\ toMaster' = toMaster /\ UNCHANGED closingVars
        <3>1. UNCHANGED <<toSlave, status>>
            BY <2>8 DEF closingVars
        <3> QED
            BY <1>1, <2>1, <2>5, <2>6, <2>8, <3>1, QuietLine, TableIsCleared
               DEF lineUnchanged, Effect, DeliveryStep, StatusStep, Connected
    <2>9. CASE SetDeviceError /\ UNCHANGED cacheVars
        <3>1. /\ toSlave' = <<>> /\ toMaster' = <<>> /\ status' = "ERROR"
              /\ UNCHANGED boundStreamingPorts
            BY <2>9 DEF SetDeviceError, CloseStreams, cacheVars
        <3> QED
            BY <2>1, <2>5, <2>6, <3>1, CutLine, TableStays
               DEF Effect, DeliveryStep, StatusStep, Connected
    <2> QED
        BY <2>1, <2>7, <2>8, <2>9 DEF Act
<1>8. CASE UseCaps(c)
    <2>1. /\ UNCHANGED <<callerUnchanged, inQueue, outQueue, collided>>
          /\ UNCHANGED boundStreamingPorts
        BY <1>8 DEF UseCaps, useUnchanged
    <2>2. CallStep
        <3> DEFINE caps == IF call[c].caps = NoCaps THEN call[c].reply.value ELSE call[c].caps
                   infos == IF call[c].caps = NoCaps THEN PortInfos ELSE call[c].infos - 1
                   r == [call[c] EXCEPT !.at = "send", !.reply = NoMessage, !.caps = caps,
                                        !.infos = infos]
        <3>1. CASE Leave(c)
            BY <1>1, <3>1, LeaveEnds
        <3>2. CASE ~Leave(c)
            <4>1. call' = [call EXCEPT ![c] = r]
                BY <1>1, <1>8, <3>2 DEF UseCaps, CallType
            <4>2. /\ r.reply = NoMessage /\ r.kind = call[c].kind
                  /\ r.port = call[c].port /\ r.bChannel = call[c].bChannel
                BY <1>1 DEF CallType
            <4> HIDE DEF r
            <4>3. call'[c] = r
                BY <1>1, <4>1
            <4> QED
                BY <1>1, <4>1, <4>2, <4>3, OneMoves DEF GoesOn
        <3> QED
            BY <3>1, <3>2
    <2> QED
        BY <2>1, <2>2, QuietCaller, TableStays
<1>9. CASE UseBind(c)
    <2>1. /\ UNCHANGED <<callerUnchanged, inQueue, outQueue, collided>> /\ Leave(c)
          /\ call[c].kind = "bind" /\ call[c].reply.kind = "OK"
          /\ boundStreamingPorts' =
                [boundStreamingPorts EXCEPT ![call[c].bChannel] = call[c].port]
        BY <1>9 DEF UseBind, useUnchanged, Answered
    <2>2. CallStep /\ Ends(c)
        BY <1>1, <2>1, LeaveEnds
    <2>3. CacheStep
        BY <1>1, <2>1, <2>2 DEF CacheStep, CacheInv
    <2> QED
        BY <2>1, <2>2, <2>3, QuietCaller
<1>10. CASE UseUnbind(c)
    <2>1. /\ UNCHANGED <<callerUnchanged, inQueue, outQueue, collided>> /\ Leave(c)
          /\ Unregister(call[c].port)
        BY <1>10 DEF UseUnbind, useUnchanged
    <2>2. CacheStep
        BY <2>1 DEF CacheStep, Unregister
    <2> QED
        BY <1>1, <2>1, <2>2, LeaveEnds, QuietCaller
<1> QED
    BY <1>2, <1>3, <1>4, <1>5, <1>6, <1>7, <1>8, <1>9, <1>10 DEF CallerStep

\* Nothing happens.
LEMMA StutterEffect ==
    ASSUME UNCHANGED masterVars
    PROVE  Effect
<1>1. /\ UNCHANGED <<inQueue, outQueue, toSlave, toMaster, sPortBinds>>
      /\ UNCHANGED <<call, boundStreamingPorts, delivered, collided, status>>
    BY DEF masterVars, deviceVars, protocolVars, cacheVars, slaveVars, portVars, historyVars
<1> QED
    BY <1>1, QuietLine, CallersStay, TableStays
       DEF lineUnchanged, Effect, DeliveryStep, StatusStep, Connected

\* Every step.
LEMMA NextEffect ==
    ASSUME MasterInv, BinderInv, [Next]_masterVars
    PROVE  Effect
<1>1. CASE \E c \in Caller : BeginAny(c) \/ CallerStep(c)
    BY <1>1, BeginEffect, SendEffect, TakeEffect, OtherCallerEffect
<1> QED
    BY <1>1, ProcessorEffect, ClosingEffect, SlaveEffect, StutterEffect DEF Next

\* That a channel of a binding or a port was shared is not forgotten.
LEMMA NextShared ==
    ASSUME [Next]_masterVars
    PROVE  SharedStep
<1>1. CASE UNCHANGED masterVars
    BY <1>1 DEF masterVars, historyVars, sharedVars, SharedStep
<1>2. CASE ProcessorStep
    BY <1>2 DEF ProcessorStep, ReceiveDisconnect, ReceiveControl, ReceiveMessage, Receive,
                FindExpecting, PutAside, SendOne, ConnectionFails, EndLoop,
                processorUnchanged, historyVars, sharedVars, SharedStep
<1>3. CASE UserDisconnect \/ \E t \in Terminator : TerminatorNext(t)
    BY <1>3 DEF UserDisconnect, TerminatorNext, Announce, Stop, Close, TerminatorStep,
                historyVars, sharedVars, SharedStep
<1>4. ASSUME NEW c \in Caller, CallerStep(c)
      PROVE  SharedStep
    <2>1. UNCHANGED sharedVars
        BY <1>4 DEF CallerStep, EnterCounter, StoreCounter, Send, Expect, Take,
                    FindDisconnected, Timeout, ClearExpecting, LookAside, PollNothing,
                    DispatchAside, UseState, UseCaps, UseBind, UseUnbind, useUnchanged
    <2> QED
        BY <2>1 DEF sharedVars, SharedStep
<1>5. ASSUME NEW c \in Caller, BeginAny(c)
      PROVE  SharedStep
    BY <1>5 DEF BeginAny, Begin, SharedStep
<1>6. CASE SlaveNext
    <2>1. UNCHANGED slaveUnchanged
        BY <1>6 DEF SlaveNext, ServeQuery, ServeBind, ServeUnbind, Refuse, ServeDisconnect,
                    Serve, Reconfigure, Stream, SlaveEnds
    <2> QED
        BY <2>1 DEF slaveUnchanged, historyVars, sharedVars, SharedStep
<1> QED
    BY <1>1, <1>2, <1>3, <1>4, <1>5, <1>6 DEF Next

\* The inductive invariant about the bindings, for any number of callers, ports and
\* channels, with and without failures, whichever of the callers bind and unbind.
THEOREM BindingInvariant == Spec => [](MasterInv /\ BindingInv)
<1>1. Init => MasterInv /\ BindingInv
    BY InitMasterInv, InitBindingInv
<1>2. MasterInv /\ BindingInv /\ [Next]_masterVars => (MasterInv /\ BindingInv)'
    <2> SUFFICES ASSUME MasterInv, BindingInv, [Next]_masterVars
                 PROVE  MasterInv' /\ BindingInv'
        OBVIOUS
    <2>1. MasterInv'
        BY NextMasterInv
    <2>2. Effect /\ SharedStep
        BY NextEffect, NextShared DEF BindingInv
    <2> QED
        BY <2>1, <2>2, BindingKept
<1> QED
    BY <1>1, <1>2, PTL DEF Spec

\* Stream data is given to the port that sent it, whichever threads bind and unbind, as
\* long as no two requests under way got the same channel of the protocol and no two
\* bindings under way chose the same channel for the port.
THEOREM DataIsDelivered == Spec => []DeliveredToItsPort
<1>1. BindingInv => DeliveredToItsPort
    BY DEF BindingInv
<1> QED
    BY <1>1, BindingInvariant, PTL

-----------------------------------------------------------------------------
(* Both tables are the same when nothing is under way                      *)

\* The table of the protocol and the channels of the ports say the same, and a port that
\* is being bound is not bound.
MasterExact ==
    ~channelShared /\ ~portShared =>
        /\ \A ch \in BindChannel, p \in StreamingPort :
              boundStreamingPorts[ch] = p <=> portChannel[p] = ch
        /\ \A c \in Caller : call[c].kind = "bind" => portChannel[call[c].port] = 0

\* A port is bound or unbound by one caller at a time.
PortsApart ==
    ~portShared =>
        \A c, d \in Caller :
            /\ call[c].kind \in {"bind", "unbind"} /\ call[d].kind \in {"bind", "unbind"}
            /\ call[c].port = call[d].port
            => c = d

\* Only a reconfiguration is announced.
ReconfInv ==
    listVersion = 0 =>
        \A m \in ToSet(toMaster) \cup ToSet(messagesToDispatch) : m.kind # "Reconf"

\* The message that is about to be put aside is a control message.
AsideControl == mp = "aside" => IsControl(Head(toMaster))

\* What is under way fits the operation it is sent or answered for.
Fits(m, kind) ==
    /\ m.kind = "bSP" => kind = "bind"
    /\ m.kind = "uSP" => kind = "unbind"
    /\ m.kind = "OK" => kind \in {"bind", "unbind"}
    /\ kind = "unbind" => m.kind \in {"uSP", "OK"}
KindInv ==
    ~collided =>
        /\ Connected => \A m \in UnderWay : m.by \in Caller => Fits(m, call[m.by].kind)
        /\ \A c \in Caller :
              /\ call[c].reply.kind = "OK" => call[c].kind \in {"bind", "unbind"}
              /\ call[c].kind = "unbind" => call[c].reply.kind \in {"none", "OK"}

\* The conditions on which the two sides agree.  No step restores them.
Calm ==
    /\ Connected /\ listVersion = 0
    /\ ~collided /\ ~channelShared /\ ~portShared /\ ~drainFailed

\* The slave has done what the binder asks for, and the master has not yet entered it.
Done(c) == call[c].reply.kind = "OK" \/ \E m \in Answers : m.kind = "OK" /\ m.by = c

\* Every binding in the table of the slave is that of the port.
TableExact ==
    \A i \in DOMAIN sPortBinds : spChannel[sPortBinds[i].port] = sPortBinds[i].channel

\* The channels of the ports are the same on both sides, except for the ports whose
\* binding or unbinding is done: they are ahead on the slave's side.
Agreement ==
    /\ TableExact
    /\ \A c \in Binder : Done(c) => spChannel[call[c].port] = call[c].bChannel
    /\ \A p \in StreamingPort :
          (\A c \in Binder : Done(c) => call[c].port # p) => spChannel[p] = portChannel[p]

AgreeInv ==
    /\ MasterExact /\ PortsApart /\ ReconfInv /\ AsideControl /\ KindInv
    /\ Calm => Agreement

-----------------------------------------------------------------------------
(* What the master does to the bindings                                    *)

Announced == ToSet(toMaster) \cup ToSet(messagesToDispatch)
Enters(c) == UseBind(c) \/ UseUnbind(c)

\* A binding is entered or removed by the thread that has its answer, and all are
\* forgotten when a reconfiguration is announced.
PortStep ==
    \/ UNCHANGED <<boundStreamingPorts, portChannel>>
    \/ Reconfigured /\ \E m \in Announced : m.kind = "Reconf"
    \/ \E c \in Caller : Enters(c)

\* What the slave has granted is taken by a caller or goes on waiting for it ...
AnswersStay ==
    Connected' => \A m \in Answers : m.kind = "OK" =>
        m \in Answers' \/ \E c \in Caller : call'[c].reply = m

\* ... which keeps it until it has entered it, unless it is thrown out of expect.
RepliesStay ==
    \A c \in Caller :
        call[c].reply.kind = "OK" /\ call[c].kind \in {"bind", "unbind"} =>
            call'[c].reply = call[c].reply \/ drainFailed' \/ Enters(c)

AsideStep ==
    mp' = "aside" =>
        UNCHANGED toMaster /\ (mp = "aside" \/ IsControl(Head(toMaster)))

MasterMoves ==
    /\ UNCHANGED <<sPortBinds, spChannel, listVersion>>
    /\ ToSet(toMaster') \subseteq ToSet(toMaster) /\ Announced' \subseteq Announced
    /\ drainFailed => drainFailed'
    /\ PortStep /\ AnswersStay /\ RepliesStay /\ AsideStep

\* A queue is its head and the rest.
LEMMA HeadAndTail ==
    ASSUME NEW q \in Seq(GoodMessage), q # <<>>
    PROVE  ToSet(q) = {Head(q)} \cup ToSet(Tail(q))
<1> DEFINE r == Tail(q)
<1>1. /\ r \in Seq(GoodMessage) /\ Len(r) = Len(q) - 1 /\ Head(q) = q[1]
      /\ \A i \in 1..Len(r) : r[i] = q[i + 1]
    BY HeadTailProperties
<1>2. Len(q) \in Nat \ {0} /\ DOMAIN q = 1..Len(q)
    BY EmptySeq, QueueElements
<1> HIDE DEF r
<1>3. DOMAIN r = 1..Len(r)
    BY <1>1, QueueElements
<1>4. ASSUME NEW i \in 1..Len(q)
      PROVE  q[i] = Head(q) \/ q[i] \in ToSet(r)
    <2>1. CASE i = 1
        BY <1>1, <2>1
    <2>2. CASE i # 1
        <3>1. i - 1 \in 1..Len(r) /\ r[i - 1] = q[i]
            BY <1>1, <1>2, <1>4, <2>2
        <3> QED
            BY <1>3, <3>1 DEF ToSet
    <2> QED
        BY <2>1, <2>2
<1>5. ToSet(q) \subseteq {Head(q)} \cup ToSet(r)
    BY <1>2, <1>4 DEF ToSet
<1>6. {Head(q)} \cup ToSet(r) \subseteq ToSet(q)
    BY TailMessage DEF r
<1> QED
    BY <1>5, <1>6 DEF r

\* Nothing but the one message is taken out of a queue.
LEMMA OthersRemain ==
    ASSUME NEW q \in Seq(GoodMessage), NEW k \in DOMAIN q,
           NEW r \in Seq(GoodMessage), Len(r) = Len(q) - 1,
           \A j \in 1..Len(r) : r[j] = IF j < k THEN q[j] ELSE q[j + 1]
    PROVE  \A m \in ToSet(q) : m = q[k] \/ m \in ToSet(r)
<1>1. Len(q) \in Nat /\ DOMAIN q = 1..Len(q) /\ DOMAIN r = 1..Len(r) /\ k \in 1..Len(q)
    BY QueueElements
<1>2. ASSUME NEW i \in 1..Len(q), i # k
      PROVE  q[i] \in ToSet(r)
    <2>1. CASE i < k
        <3>1. i \in 1..Len(r) /\ r[i] = q[i]
            BY <1>1, <2>1
        <3> QED
            BY <1>1, <3>1 DEF ToSet
    <2>2. CASE i > k
        <3>1. i - 1 \in 1..Len(r) /\ r[i - 1] = q[i]
            BY <1>1, <2>2
        <3> QED
            BY <1>1, <3>1 DEF ToSet
    <2> QED
        BY <1>1, <1>2, <2>1, <2>2
<1> QED
    BY <1>1, <1>2 DEF ToSet

\* The message at the head of the line goes to inQueue, unless it grants nothing.
LEMMA ReceivedAnswers ==
    ASSUME LineInv, toMaster # <<>>, toMaster' = Tail(toMaster),
           inQueue' = Append(inQueue, Head(toMaster))
           \/ (UNCHANGED inQueue /\ Head(toMaster).kind # "OK")
    PROVE  AnswersStay /\ ToSet(toMaster') \subseteq ToSet(toMaster)
<1>1. /\ Head(toMaster) \in GoodMessage /\ inQueue \in Seq(GoodMessage)
      /\ ToSet(toMaster) = {Head(toMaster)} \cup ToSet(toMaster')
    BY HeadAndTail, TailMessage DEF LineInv
<1>2. CASE inQueue' = Append(inQueue, Head(toMaster))
    <2>1. ToSet(inQueue') = ToSet(inQueue) \cup {Head(toMaster)}
        BY <1>1, <1>2, AppendMessage
    <2> QED
        BY <1>1, <2>1 DEF AnswersStay, Answers
<1>3. CASE UNCHANGED inQueue /\ Head(toMaster).kind # "OK"
    BY <1>1, <1>3 DEF AnswersStay, Answers
<1> QED
    BY <1>2, <1>3

\* While the callers stay where they are they keep their replies.
LEMMA RepliesStand ==
    ASSUME UNCHANGED call
    PROVE  RepliesStay
    BY DEF RepliesStay

\* While the line and the queues stay as they are, or are cut, nothing is lost.
LEMMA AnswersStand ==
    ASSUME UNCHANGED inQueue, UNCHANGED toMaster \/ (toMaster' = <<>> /\ ~Connected')
    PROVE  AnswersStay /\ ToSet(toMaster') \subseteq ToSet(toMaster)
    BY EmptyQueue DEF AnswersStay, Answers

\* The message processor.
LEMMA ProcessorMoves ==
    ASSUME MasterInv, BinderInv, AsideControl, ProcessorStep
    PROVE  MasterMoves
<1> USE DEF MasterInv, TypeInv
<1>1. toMaster # <<>> => Head(toMaster) \in ToSet(toMaster)
    BY TailMessage DEF LineInv
<1>2. ASSUME NEW m, Receive(m), mp' = "send"
      PROVE  /\ UNCHANGED <<sPortBinds, spChannel, listVersion, drainFailed>>
             /\ toMaster # <<>> /\ m = Head(toMaster) /\ RepliesStay /\ AsideStep
    BY <1>2, RepliesStand DEF Receive, processorUnchanged, portVars, AsideStep
<1>3. ASSUME NEW m, ReceiveDisconnect(m)
      PROVE  MasterMoves
    <2>1. /\ toMaster' = Tail(toMaster) /\ inQueue' = Append(inQueue, m) /\ mp' = "send"
          /\ Receive(m) /\ UNCHANGED messagesToDispatch
          /\ UNCHANGED <<boundStreamingPorts, portChannel>>
        BY <1>3 DEF ReceiveDisconnect, cacheVars
    <2>2. AnswersStay /\ ToSet(toMaster') \subseteq ToSet(toMaster)
        BY <1>2, <2>1, ReceivedAnswers
    <2> QED
        BY <1>2, <2>1, <2>2 DEF MasterMoves, PortStep, Announced
<1>4. ASSUME NEW m, ReceiveControl(m)
      PROVE  MasterMoves
    <2>1. /\ Act(m, Tail(toMaster)) /\ inQueue' = Append(inQueue, m) /\ mp' = "send"
          /\ Receive(m) /\ UNCHANGED messagesToDispatch
        BY <1>4 DEF ReceiveControl
    <2>2. CASE m.kind = "Reconf" /\ Reconfigured /\ toMaster' = Tail(toMaster)
        <3>1. AnswersStay /\ ToSet(toMaster') \subseteq ToSet(toMaster)
            BY <1>2, <2>1, <2>2, ReceivedAnswers
        <3>2. PortStep
            BY <1>1, <1>2, <2>1, <2>2 DEF PortStep, Announced
        <3> QED
            BY <1>2, <2>1, <3>1, <3>2 DEF MasterMoves, Announced
    <2>3. CASE SetDeviceError /\ UNCHANGED cacheVars
        <3>1. toMaster' = <<>> /\ ~Connected' /\ UNCHANGED <<boundStreamingPorts, portChannel>>
            BY <2>3 DEF SetDeviceError, CloseStreams, cacheVars, Connected
        <3> QED
            BY <1>2, <2>1, <3>1, EmptyQueue DEF MasterMoves, PortStep, AnswersStay, Announced
    <2> QED
        BY <2>1, <2>2, <2>3 DEF Act
<1>5. ASSUME NEW m, ReceiveMessage(m)
      PROVE  MasterMoves
    <2>1. /\ toMaster' = Tail(toMaster) /\ mp' = "send" /\ Receive(m)
          /\ UNCHANGED messagesToDispatch /\ UNCHANGED <<boundStreamingPorts, portChannel>>
        BY <1>5 DEF ReceiveMessage, cacheVars
    <2>2. inQueue' = Append(inQueue, m) \/ (UNCHANGED inQueue /\ m.kind # "OK")
        <3>1. m \in Answers
            BY <1>1, <1>2, <2>1 DEF Answers
        <3>2. m.channel \in BindChannel => m.kind # "OK"
            BY <3>1, ChannelFacts DEF BinderInv
        <3> QED
            BY <1>5, <3>2 DEF ReceiveMessage
    <2>3. AnswersStay /\ ToSet(toMaster') \subseteq ToSet(toMaster)
        BY <1>2, <2>1, <2>2, ReceivedAnswers
    <2> QED
        BY <1>2, <2>1, <2>3 DEF MasterMoves, PortStep, Announced
<1>6. CASE FindExpecting \/ EndLoop
    <2>1. /\ UNCHANGED <<inQueue, protocolVars, call, slaveVars, historyVars>>
          /\ mp' = "aside" => IsControl(Head(toMaster))
        BY <1>6 DEF FindExpecting, EndLoop
    <2>2. /\ UNCHANGED <<sPortBinds, spChannel, listVersion, toMaster, messagesToDispatch>>
          /\ UNCHANGED <<boundStreamingPorts, portChannel, drainFailed>>
        BY <2>1 DEF protocolVars, cacheVars, slaveVars, portVars, historyVars
    <2> QED
        BY <2>1, <2>2, RepliesStand, AnswersStand
           DEF MasterMoves, PortStep, Announced, AsideStep
<1>7. CASE PutAside
    <2>1. /\ toMaster # <<>> /\ toMaster' = Tail(toMaster) /\ mp = "aside" /\ mp' = "send"
          /\ messagesToDispatch' = Append(messagesToDispatch, Head(toMaster))
          /\ UNCHANGED <<inQueue, cacheVars, call, portVars, listVersion, historyVars>>
        BY <1>7 DEF PutAside, AsideInv
    <2>2. /\ UNCHANGED <<sPortBinds, spChannel, listVersion, drainFailed>>
          /\ UNCHANGED <<boundStreamingPorts, portChannel>>
        BY <2>1 DEF cacheVars, portVars, historyVars
    <2>3. Head(toMaster).kind # "OK"
        <3>1. Head(toMaster) \in Answers /\ Head(toMaster).channel = 0
            BY <1>1, <2>1 DEF Answers, AsideControl, IsControl, ControlChannel
        <3> QED
            BY <3>1, ChannelFacts DEF BinderInv
    <2>4. AnswersStay /\ ToSet(toMaster') \subseteq ToSet(toMaster)
        BY <2>1, <2>3, ReceivedAnswers
    <2>5. ToSet(messagesToDispatch') = ToSet(messagesToDispatch) \cup {Head(toMaster)}
        BY <2>1, TailMessage, AppendMessage DEF LineInv
    <2> QED
        BY <1>1, <2>1, <2>2, <2>4, <2>5, RepliesStand
           DEF MasterMoves, PortStep, Announced, AsideStep
<1>8. CASE SendOne
    <2>1. /\ UNCHANGED <<inQueue, protocolVars, call, portVars, toMaster, listVersion,
                         drainFailed>>
          /\ mp' = "read"
        BY <1>8 DEF SendOne
    <2>2. /\ UNCHANGED <<sPortBinds, spChannel, messagesToDispatch>>
          /\ UNCHANGED <<boundStreamingPorts, portChannel>>
        BY <2>1 DEF protocolVars, cacheVars, portVars
    <2> QED
        BY <2>1, <2>2, RepliesStand, AnswersStand
           DEF MasterMoves, PortStep, Announced, AsideStep
<1>9. CASE ConnectionFails
    <2>1. /\ UNCHANGED <<inQueue, protocolVars, call, portVars, listVersion, drainFailed>>
          /\ mp' = "failed"
        BY <1>9 DEF ConnectionFails
    <2>2. /\ UNCHANGED <<sPortBinds, spChannel, messagesToDispatch>>
          /\ UNCHANGED <<boundStreamingPorts, portChannel>>
        BY <2>1 DEF protocolVars, cacheVars, portVars
    <2>3. UNCHANGED toMaster \/ (toMaster' = <<>> /\ ~Connected')
        BY <1>9 DEF ConnectionFails, connectionVars, SetDeviceError, CloseStreams, Connected
    <2> QED
        BY <2>1, <2>2, <2>3, RepliesStand, AnswersStand
           DEF MasterMoves, PortStep, Announced, AsideStep
<1> QED
    BY <1>3, <1>4, <1>5, <1>6, <1>7, <1>8, <1>9 DEF ProcessorStep

\* The terminator threads and the user.
LEMMA ClosingMoves ==
    ASSUME MasterInv, UserDisconnect \/ \E t \in Terminator : TerminatorNext(t)
    PROVE  MasterMoves
<1>1. CASE UserDisconnect
    <2>1. UNCHANGED <<inQueue, mp, protocolVars, call, slaveVars, historyVars>>
        BY <1>1 DEF UserDisconnect
    <2>2. /\ UNCHANGED <<sPortBinds, spChannel, listVersion, toMaster, messagesToDispatch>>
          /\ UNCHANGED <<boundStreamingPorts, portChannel, drainFailed>>
        BY <2>1 DEF protocolVars, cacheVars, slaveVars, portVars, historyVars
    <2> QED
        BY <2>1, <2>2, RepliesStand, AnswersStand
           DEF MasterMoves, PortStep, Announced, AsideStep
<1>2. ASSUME NEW t \in Terminator, TerminatorNext(t)
      PROVE  MasterMoves
    <2>1. /\ UNCHANGED <<inQueue, mp, protocolVars, call, portVars, listVersion, drainFailed>>
          /\ \/ UNCHANGED toMaster
             \/ toMaster' = <<>> /\ ~Connected' /\ mp # "aside"
        <3>1. CASE Announce(t)
            BY <3>1 DEF Announce, TerminatorStep
        <3>2. CASE Stop(t)
            BY <3>2 DEF Stop, TerminatorStep
        <3>3. CASE Close(t)
            BY <3>3 DEF Close, TerminatorStep, CloseStreams, Connected
        <3> QED
            BY <1>2, <3>1, <3>2, <3>3 DEF TerminatorNext
    <2>2. /\ UNCHANGED <<sPortBinds, spChannel, messagesToDispatch>>
          /\ UNCHANGED <<boundStreamingPorts, portChannel>>
        BY <2>1 DEF protocolVars, cacheVars, portVars
    <2> QED
        BY <2>1, <2>2, RepliesStand, AnswersStand
           DEF MasterMoves, PortStep, Announced, AsideStep
<1> QED
    BY <1>1, <1>2

\* Of the callers only one moves; it keeps a reply that grants something.
LEMMA OthersKeepReplies ==
    ASSUME NEW c \in Caller, \A d \in Caller \ {c} : call'[d] = call[d],
           call[c].reply.kind = "OK" /\ call[c].kind \in {"bind", "unbind"} =>
               call'[c].reply = call[c].reply \/ drainFailed' \/ Enters(c)
    PROVE  RepliesStay
    BY DEF RepliesStay

\* A caller moves without touching the bindings.
LEMMA QuietMoves ==
    ASSUME UNCHANGED callerUnchanged,
           UNCHANGED <<messagesToDispatch, boundStreamingPorts, portChannel>>,
           drainFailed => drainFailed', AnswersStay, RepliesStay
    PROVE  MasterMoves
<1>1. UNCHANGED <<mp, toMaster, listVersion, sPortBinds, spChannel>>
    BY DEF callerUnchanged, portVars
<1> QED
    BY <1>1 DEF MasterMoves, PortStep, Announced, AsideStep

\* The same without touching the queue of answers either.
LEMMA SilentMoves ==
    ASSUME UNCHANGED callerUnchanged,
           UNCHANGED <<inQueue, messagesToDispatch, boundStreamingPorts, portChannel>>,
           drainFailed => drainFailed', RepliesStay
    PROVE  MasterMoves
<1>1. UNCHANGED toMaster
    BY DEF callerUnchanged
<1>2. AnswersStay
    BY <1>1, AnswersStand
<1> QED
    BY <1>2, QuietMoves

\* An operation has no reply before it has taken one.
LEMMA NothingTaken ==
    ASSUME CallInv, NEW c \in Caller, call[c].at \in Before
    PROVE  call[c].reply.kind # "OK"
    BY NoReplyYet DEF CallInv, CallOK

\* A step on the way to an answer.
LEMMA RequestMoves ==
    ASSUME MasterInv, NEW c \in Caller,
           \/ BeginAny(c) \/ EnterCounter(c) \/ StoreCounter(c) \/ Send(c) \/ Expect(c)
           \/ FindDisconnected(c)
    PROVE  MasterMoves
<1>1. CallInv /\ call \in [Caller -> CallType]
    BY DEF MasterInv, TypeInv, CallInv
<1>2. /\ call[c].at \in Before /\ \A d \in Caller \ {c} : call'[d] = call[d]
      /\ UNCHANGED callerUnchanged
      /\ UNCHANGED <<inQueue, messagesToDispatch, cacheVars, drainFailed>>
    <2>1. CASE BeginAny(c)
        <3>1. PICK kind \in OperationKind, p \in StreamingPort \cup {NoPort} : Begin(c, kind, p)
            BY <2>1 DEF BeginAny, OperationKind
        <3>2. \A d \in Caller \ {c} : call'[d] = call[d]
            BY <1>1, <3>1 DEF Begin
        <3> QED
            BY <3>1, <3>2 DEF Begin, Before, protocolVars
    <2>2. CASE EnterCounter(c)
        BY <1>1, <2>2 DEF EnterCounter, Before, protocolVars
    <2>3. CASE StoreCounter(c)
        BY <1>1, <2>3 DEF StoreCounter, Before
    <2>4. CASE Send(c)
        BY <1>1, <2>4 DEF Send, Leave, Before, protocolVars
    <2>5. CASE Expect(c)
        BY <1>1, <2>5 DEF Expect, Goto, Before
    <2>6. CASE FindDisconnected(c)
        BY <1>1, <2>6 DEF FindDisconnected, Goto, Before, protocolVars
    <2> QED
        BY <2>1, <2>2, <2>3, <2>4, <2>5, <2>6
<1>3. RepliesStay
    BY <1>1, <1>2, NothingTaken, OthersKeepReplies
<1> QED
    BY <1>2, <1>3, SilentMoves DEF cacheVars

\* An answer is taken.
LEMMA TakeMoves ==
    ASSUME MasterInv, NEW c \in Caller, Take(c)
    PROVE  MasterMoves
<1> DEFINE ch == call[c].channel
           i == First(Waiting(ch))
<1>1. CallInv /\ call \in [Caller -> CallType] /\ call[c] \in CallType /\ LineInv
    BY DEF MasterInv, TypeInv, CallInv
<1>2. /\ call[c].at \in Before /\ Waiting(ch) # {} /\ inQueue' = RemoveAt(inQueue, i)
      /\ UNCHANGED callerUnchanged
      /\ UNCHANGED <<messagesToDispatch, cacheVars, drainFailed>>
    BY DEF Take, Removed, Before, protocolVars
<1>3. inQueue \in Seq(GoodMessage) /\ Len(inQueue) \in Nat /\ DOMAIN inQueue = 1..Len(inQueue)
    BY <1>1, QueuesOfLine, QueueElements
<1>4. i \in DOMAIN inQueue
    <2>1. Waiting(ch) \in SUBSET Nat
        BY <1>3 DEF Waiting
    <2>2. i \in Waiting(ch)
        BY <1>2, <2>1, FirstIsLeast
    <2> QED
        BY <2>2 DEF Waiting
<1>5. call'[c].reply = inQueue[i] /\ \A d \in Caller \ {c} : call'[d] = call[d]
    BY <1>1 DEF Take, CallType
<1> HIDE DEF i
<1>6. \A m \in ToSet(inQueue) : m = inQueue[i] \/ m \in ToSet(inQueue')
    <2>1. /\ inQueue' \in Seq(GoodMessage) /\ Len(inQueue') = Len(inQueue) - 1
          /\ \A j \in 1..Len(inQueue') :
                inQueue'[j] = IF j < i THEN inQueue[j] ELSE inQueue[j + 1]
        BY <1>2, <1>3, <1>4, RemoveAtProperties
    <2> QED
        BY <1>3, <1>4, <2>1, OthersRemain
<1>7. AnswersStay
    BY <1>2, <1>5, <1>6 DEF AnswersStay, Answers, callerUnchanged
<1>8. RepliesStay
    BY <1>1, <1>2, <1>5, NothingTaken, OthersKeepReplies
<1> QED
    BY <1>2, <1>7, <1>8, QuietMoves DEF cacheVars

\* The time is up: the connection is closed.
LEMMA TimeoutMoves ==
    ASSUME MasterInv, NEW c \in Caller, Timeout(c)
    PROVE  MasterMoves
<1>1. CallInv /\ call \in [Caller -> CallType]
    BY DEF MasterInv, TypeInv, CallInv
<1>2. /\ call[c].at \in Before /\ \A d \in Caller \ {c} : call'[d] = call[d]
      /\ toMaster' = <<>> /\ ~Connected' /\ mp' # "aside"
      /\ UNCHANGED <<inQueue, protocolVars, portVars, listVersion, drainFailed>>
    BY <1>1 DEF Timeout, TimeIsUp, SetDeviceError, CloseStreams, Goto, Connected, Before
<1>3. /\ UNCHANGED <<messagesToDispatch, sPortBinds, spChannel>>
      /\ UNCHANGED <<boundStreamingPorts, portChannel>>
    BY <1>2 DEF protocolVars, cacheVars, portVars
<1>4. RepliesStay
    BY <1>1, <1>2, NothingTaken, OthersKeepReplies
<1> QED
    BY <1>2, <1>3, <1>4, AnswersStand DEF MasterMoves, PortStep, Announced, AsideStep

\* A message that was put aside is dispatched, or put aside again.
LEMMA DispatchMoves ==
    ASSUME MasterInv, NEW c \in Caller, DispatchAside(c)
    PROVE  MasterMoves
<1> DEFINE m == Head(messagesToDispatch)
<1>1. /\ CallInv /\ call \in [Caller -> CallType] /\ call[c] \in CallType
      /\ messagesToDispatch \in Seq(GoodMessage) /\ messagesToDispatch # <<>>
    BY DEF MasterInv, TypeInv, CallInv, LineInv, DispatchAside
<1>2. /\ UNCHANGED <<inQueue, mp, portVars, listVersion, drainFailed>>
      /\ call'[c].reply = call[c].reply /\ \A d \in Caller \ {c} : call'[d] = call[d]
    BY <1>1 DEF DispatchAside, CallType
<1>3. RepliesStay
    BY <1>2, OthersKeepReplies
<1>4. /\ m \in ToSet(messagesToDispatch)
      /\ ToSet(messagesToDispatch') \subseteq ToSet(messagesToDispatch)
    <2>1. /\ m \in GoodMessage /\ m \in ToSet(messagesToDispatch)
          /\ Tail(messagesToDispatch) \in Seq(GoodMessage)
          /\ ToSet(Tail(messagesToDispatch)) \subseteq ToSet(messagesToDispatch)
        BY <1>1, TailMessage
    <2>2. \/ messagesToDispatch' = Tail(messagesToDispatch)
          \/ messagesToDispatch' = Append(Tail(messagesToDispatch), m)
        BY DEF DispatchAside
    <2> HIDE DEF m
    <2>3. ToSet(Append(Tail(messagesToDispatch), m)) \subseteq ToSet(messagesToDispatch)
        <3>1. ToSet(Append(Tail(messagesToDispatch), m)) =
                  ToSet(Tail(messagesToDispatch)) \cup {m}
            BY <2>1, AppendMessage
        <3> QED
            BY <2>1, <3>1
    <2> QED
        BY <2>1, <2>2, <2>3
<1>5. \/ UNCHANGED cacheVars /\ UNCHANGED connectionVars
      \/ mp # "aside" /\ Act(m, toMaster)
    BY DEF DispatchAside
<1> HIDE DEF m
<1>6. CASE UNCHANGED cacheVars /\ UNCHANGED connectionVars
    <2>1. UNCHANGED <<toMaster, boundStreamingPorts, portChannel>>
        BY <1>6 DEF cacheVars, connectionVars
    <2> QED
        BY <1>2, <1>3, <1>4, <2>1, AnswersStand
           DEF MasterMoves, PortStep, Announced, AsideStep, portVars
<1>7. CASE m.kind = "Reconf" /\ Reconfigured /\ UNCHANGED toMaster
    BY <1>2, <1>3, <1>4, <1>5, <1>7, AnswersStand
       DEF MasterMoves, PortStep, Announced, AsideStep, portVars
<1>8. CASE mp # "aside" /\ SetDeviceError /\ UNCHANGED cacheVars
    <2>1. toMaster' = <<>> /\ ~Connected' /\ UNCHANGED <<boundStreamingPorts, portChannel>>
        BY <1>8 DEF SetDeviceError, CloseStreams, cacheVars, Connected
    <2> QED
        BY <1>2, <1>3, <1>4, <1>8, <2>1, AnswersStand
           DEF MasterMoves, PortStep, Announced, AsideStep, portVars
<1> QED
    BY <1>5, <1>6, <1>7, <1>8 DEF Act

\* What else a caller does with its answer.
LEMMA AnsweredMoves ==
    ASSUME MasterInv, NEW c \in Caller,
           \/ ClearExpecting(c) \/ LookAside(c) \/ PollNothing(c)
           \/ UseState(c) \/ UseCaps(c) \/ UseBind(c) \/ UseUnbind(c)
    PROVE  MasterMoves
<1>1. CallInv /\ call \in [Caller -> CallType] /\ call[c] \in CallType
    BY DEF MasterInv, TypeInv, CallInv
<1>2. CASE ClearExpecting(c) \/ LookAside(c)
    <2>1. /\ UNCHANGED callerUnchanged
          /\ UNCHANGED <<inQueue, messagesToDispatch, cacheVars, drainFailed>>
        BY <1>2 DEF ClearExpecting, LookAside, protocolVars
    <2>2. call'[c].reply = call[c].reply /\ \A d \in Caller \ {c} : call'[d] = call[d]
        BY <1>1, <1>2 DEF ClearExpecting, LookAside, Goto, CallType
    <2> QED
        BY <2>1, <2>2, OthersKeepReplies, SilentMoves DEF cacheVars
<1>3. CASE PollNothing(c)
    <2>1. /\ UNCHANGED callerUnchanged /\ drainFailed'
          /\ UNCHANGED <<inQueue, messagesToDispatch, cacheVars>>
        BY <1>3 DEF PollNothing, protocolVars
    <2> QED
        BY <2>1, SilentMoves DEF cacheVars, RepliesStay
<1>4. CASE UseState(c) \/ UseCaps(c)
    <2>1. /\ UNCHANGED callerUnchanged
          /\ UNCHANGED <<inQueue, messagesToDispatch, boundStreamingPorts, portChannel,
                         drainFailed>>
        BY <1>4 DEF UseState, UseCaps, useUnchanged, cacheVars
    <2>2. \A d \in Caller \ {c} : call'[d] = call[d]
        BY <1>1, <1>4 DEF UseState, UseCaps, Leave
    <2>3. call[c].reply.kind = "OK" => call[c].kind \notin {"bind", "unbind"}
        BY <1>4 DEF UseState, UseCaps, Answered
    <2> QED
        BY <2>1, <2>2, <2>3, OthersKeepReplies, SilentMoves
<1>5. CASE Enters(c)
    <2>1. /\ UNCHANGED callerUnchanged /\ \A d \in Caller \ {c} : call'[d] = call[d]
          /\ UNCHANGED <<inQueue, messagesToDispatch, drainFailed>>
        BY <1>1, <1>5 DEF Enters, UseBind, UseUnbind, useUnchanged, Leave
    <2>2. /\ UNCHANGED <<mp, toMaster, listVersion, sPortBinds, spChannel>>
        BY <2>1 DEF callerUnchanged, portVars
    <2>3. RepliesStay
        BY <1>5, <2>1, OthersKeepReplies
    <2> QED
        BY <1>5, <2>1, <2>2, <2>3, AnswersStand
           DEF MasterMoves, PortStep, Announced, AsideStep
<1> QED
    BY <1>2, <1>3, <1>4, <1>5 DEF Enters

\* Every step of the master, and one in which nothing happens.
LEMMA NextMoves ==
    ASSUME MasterInv, BinderInv, AsideControl, [Next]_masterVars
    PROVE  MasterMoves \/ SlaveNext
<1>1. CASE UNCHANGED masterVars
    <2>1. /\ UNCHANGED <<sPortBinds, spChannel, listVersion, toMaster, messagesToDispatch>>
          /\ UNCHANGED <<boundStreamingPorts, portChannel, drainFailed, inQueue, mp, call>>
        BY <1>1 DEF masterVars, deviceVars, protocolVars, cacheVars, slaveVars, portVars,
                    historyVars
    <2> QED
        BY <2>1, RepliesStand, AnswersStand DEF MasterMoves, PortStep, Announced, AsideStep
<1>2. ASSUME NEW c \in Caller, BeginAny(c) \/ CallerStep(c)
      PROVE  MasterMoves
    BY <1>2, RequestMoves, TakeMoves, TimeoutMoves, DispatchMoves, AnsweredMoves
       DEF CallerStep
<1> QED
    BY <1>1, <1>2, ProcessorMoves, ClosingMoves DEF Next

-----------------------------------------------------------------------------
(* What the slave does to the bindings                                     *)

\* The request is granted.
Grants(n) ==
    \/ n.kind = "bSP" /\ BindStatus(n.port, n.value) = "OK" /\ BindEffect(n.port, n.value)
    \/ n.kind = "uSP" /\ UnbindEffect(n.port)

\* A binding is only changed when a request is granted, or when the port list is rebuilt.
Says(x) ==
    \/ x.kind \notin {"OK", "Reconf"} /\ UNCHANGED bindVars /\ UNCHANGED listVersion
    \/ x.kind = "Reconf" /\ listVersion' = listVersion + 1
    \/ /\ x.kind = "OK" /\ UNCHANGED listVersion
       /\ \E n \in ToSet(toSlave) :
             /\ n \in GoodMessage /\ Grants(n)
             /\ x.by = n.by /\ x.port = n.port /\ x.value = n.value

SlaveMoves ==
    /\ UNCHANGED <<call, collided, drainFailed, status, mp, inQueue, messagesToDispatch>>
    /\ UNCHANGED <<boundStreamingPorts, portChannel>>
    /\ \/ UNCHANGED <<toMaster, sPortBinds, spChannel, listVersion>>
       \/ \E x \in GoodMessage : toMaster' = Append(toMaster, x) /\ Says(x)

\* The slave.
LEMMA SlaveSteps ==
    ASSUME MasterInv, SlaveNext
    PROVE  SlaveMoves
<1> USE DEF MasterInv, TypeInv
<1> DEFINE Alone == UNCHANGED slaveUnchanged
           Speaks == \/ UNCHANGED toMaster /\ UNCHANGED bindVars /\ UNCHANGED listVersion
                     \/ \E x \in GoodMessage : toMaster' = Append(toMaster, x) /\ Says(x)
<1>1. ASSUME NEW m, ServeQuery(m)
      PROVE  Alone /\ Speaks
    <2>1. m \in GoodMessage /\ Alone /\ UNCHANGED listVersion /\ UNCHANGED bindVars
        BY <1>1, ServeFrame DEF ServeQuery
    <2>2. ASSUME NEW kind \in {"info", "state", "NOK"}, toMaster' = Append(toMaster, Reply(m, kind))
          PROVE  Speaks
        <3>1. Reply(m, kind) \in GoodMessage /\ Reply(m, kind).kind = kind
            <4>1. Reply(m, kind).kind = kind
                BY <2>1 DEF Reply, GoodMessage, MessageSet
            <4> QED
                BY <2>1, <4>1, ReplyMessage
        <3> QED
            BY <2>1, <2>2, <3>1 DEF Says
    <2>3. ASSUME toMaster' = Append(toMaster, [Reply(m, "caps") EXCEPT !.value = listVersion])
          PROVE  Speaks
        <3> DEFINE x == [Reply(m, "caps") EXCEPT !.value = listVersion]
        <3>1. x \in GoodMessage
            BY <2>1, CapsMessage DEF RegistryInv
        <3>2. x.kind = "caps"
            BY <2>1 DEF Reply, GoodMessage, MessageSet
        <3> HIDE DEF x
        <3>3. Says(x)
            BY <2>1, <3>2 DEF Says
        <3> QED
            BY <2>3, <3>1, <3>3 DEF x
    <2> QED
        BY <1>1, <2>1, <2>2, <2>3 DEF ServeQuery, Transmit
<1>2. ASSUME NEW m, ServeBind(m) \/ ServeUnbind(m)
      PROVE  Alone /\ Speaks
    <2>1. /\ toSlave # <<>> /\ m = Head(toSlave) /\ m \in GoodMessage
          /\ Alone /\ UNCHANGED listVersion
        BY <1>2, ServeFrame DEF ServeBind, ServeUnbind
    <2>2. m \in ToSet(toSlave)
        BY <2>1, TailMessage DEF LineInv
    <2>3. ASSUME NEW kind \in {"OK", "NOK"}, toMaster' = Append(toMaster, Reply(m, kind)),
                 kind = "OK" => Grants(m), kind = "NOK" => UNCHANGED bindVars
          PROVE  Speaks
        <3>1. /\ Reply(m, kind) \in GoodMessage /\ Reply(m, kind).kind = kind
              /\ Reply(m, kind).by = m.by /\ Reply(m, kind).port = m.port
              /\ Reply(m, kind).value = m.value
            <4>1. /\ Reply(m, kind).kind = kind /\ Reply(m, kind).port = m.port
                  /\ Reply(m, kind).value = m.value
                BY <2>1 DEF Reply, GoodMessage, MessageSet
            <4> QED
                BY <2>1, <4>1, ReplyMessage
        <3>2. Says(Reply(m, kind))
            BY <2>1, <2>2, <2>3, <3>1 DEF Says
        <3> QED
            BY <2>3, <3>1, <3>2
    <2>4. CASE ServeBind(m) /\ BindStatus(m.port, m.value) = "OK"
        BY <2>1, <2>3, <2>4 DEF ServeBind, Transmit, Grants
    <2>5. CASE ServeBind(m) /\ BindStatus(m.port, m.value) # "OK"
        BY <2>1, <2>3, <2>5 DEF ServeBind, Transmit, BindEffect
    <2>6. CASE ServeUnbind(m)
        BY <2>1, <2>3, <2>6 DEF ServeUnbind, Transmit, Grants
    <2> QED
        BY <1>2, <2>4, <2>5, <2>6
<1>3. ASSUME NEW kind \in {"Err", "Dis"}, UNCHANGED bindVars, UNCHANGED listVersion,
             toMaster' = Append(toMaster, Control(kind))
      PROVE  Speaks
    <2>1. Control(kind) \in GoodMessage /\ Control(kind).kind = kind
        BY ControlMessage
    <2> QED
        BY <1>3, <2>1 DEF Says
<1>4. ASSUME (\E m : Refuse(m) \/ ServeDisconnect(m)) \/ SlaveEnds
      PROVE  Alone /\ Speaks
    <2>1. /\ UNCHANGED slaveUnchanged /\ UNCHANGED bindVars /\ UNCHANGED listVersion
          /\ \/ UNCHANGED toMaster
             \/ \E kind \in {"Err", "Dis"} : toMaster' = Append(toMaster, Control(kind))
        BY <1>4 DEF Refuse, ServeDisconnect, SlaveEnds, Serve, Transmit
    <2>2. CASE UNCHANGED toMaster
        BY <2>1, <2>2
    <2> QED
        BY <1>3, <2>1, <2>2
<1>5. ASSUME Reconfigure
      PROVE  Alone /\ Speaks
    <2>1. Control("Reconf") \in GoodMessage /\ Control("Reconf").kind = "Reconf"
        BY ControlMessage
    <2>2. /\ UNCHANGED slaveUnchanged /\ listVersion' = listVersion + 1
          /\ toMaster' = Append(toMaster, Control("Reconf"))
        BY <1>5 DEF Reconfigure, Transmit
    <2>3. Says(Control("Reconf"))
        BY <2>1, <2>2 DEF Says
    <2> QED
        BY <2>1, <2>2, <2>3
<1>6. ASSUME NEW p \in StreamingPort, Stream(p)
      PROVE  Alone /\ Speaks
    <2> DEFINE m == Message(spChannel[p], "data", NoCaller, 0, p, 0)
    <2>1. /\ Alone /\ UNCHANGED bindVars /\ UNCHANGED listVersion
          /\ spChannel[p] # Unbound /\ toMaster' = Append(toMaster, m)
        BY <1>6 DEF Stream, Transmit
    <2>2. spChannel[p] \in BindChannel
        BY <2>1 DEF RegistryInv, TableInv
    <2>3. m \in GoodMessage
        BY <2>2, DataMessage
    <2>4. m.kind = "data"
        BY DEF Message
    <2> HIDE DEF m
    <2>5. Says(m)
        BY <2>1, <2>4 DEF Says
    <2> QED
        BY <2>1, <2>3, <2>5
<1> HIDE DEF Alone, Speaks
<1>7. Alone /\ Speaks
    BY <1>1, <1>2, <1>4, <1>5, <1>6 DEF SlaveNext
<1> USE DEF Alone, Speaks
<1>8. /\ UNCHANGED <<call, collided, drainFailed, status, mp, inQueue, messagesToDispatch>>
      /\ UNCHANGED <<boundStreamingPorts, portChannel>>
    BY <1>7 DEF slaveUnchanged, deviceVars, protocolVars, cacheVars, historyVars
<1> QED
    BY <1>7, <1>8 DEF SlaveMoves, bindVars

-----------------------------------------------------------------------------
(* The tables stay exact                                                   *)

\* The two tables of the master change together.
LEMMA ExactKept ==
    ASSUME MasterInv, ApartInv, MasterExact, PortsApart, CallStep, PortStep, SharedStep
    PROVE  MasterExact'
<1>0. SUFFICES ASSUME ~channelShared', ~portShared'
               PROVE  /\ \A ch \in BindChannel, p \in StreamingPort :
                            boundStreamingPorts'[ch] = p <=> portChannel'[p] = ch
                      /\ \A c \in Caller : call'[c].kind = "bind" =>
                            portChannel'[call'[c].port] = 0
    BY DEF MasterExact
<1> DEFINE M == boundStreamingPorts
           P == portChannel
<1>1. /\ CallInv /\ CacheInv /\ NoPort \notin StreamingPort /\ 0 \notin BindChannel
      /\ M \in [BindChannel -> StreamingPort \cup {NoPort}]
      /\ P \in [StreamingPort -> BindChannel \cup {0}]
      /\ ~channelShared /\ ~portShared
    BY <1>0, MasterAssumption, ChannelFacts
       DEF MasterInv, TypeInv, CacheInv, MasterAssumption, SharedStep
<1>2. ASSUME NEW ch \in BindChannel, NEW p \in StreamingPort
      PROVE  boundStreamingPorts'[ch] = p <=> portChannel'[p] = ch
    <2>1. \A k \in BindChannel, q \in StreamingPort : M[k] = q <=> P[q] = k
        BY <1>1 DEF MasterExact
    <2>2. CASE UNCHANGED <<boundStreamingPorts, portChannel>>
        BY <2>1, <2>2
    <2>3. CASE Reconfigured
        BY <1>1, <2>1, <2>3 DEF Reconfigured, FirstPort
    <2>4. ASSUME NEW c \in Caller, UseBind(c)
          PROVE  boundStreamingPorts'[ch] = p <=> portChannel'[p] = ch
        <3> DEFINE q == call[c].port
                   k == call[c].bChannel
        <3>1. /\ q \in StreamingPort /\ k \in BindChannel /\ M[k] = NoPort /\ P[q] = 0
            BY <1>1, <2>4 DEF UseBind, CallInv, CallOK, ApartInv, MasterExact
        <3>2. /\ boundStreamingPorts' = [M EXCEPT ![k] = q]
              /\ portChannel' = [P EXCEPT ![q] = k]
            BY <2>4 DEF UseBind
        <3> HIDE DEF q, k, M, P
        <3> QED
            BY <1>1, <2>1, <3>1, <3>2
    <2>5. ASSUME NEW c \in Caller, UseUnbind(c)
          PROVE  boundStreamingPorts'[ch] = p <=> portChannel'[p] = ch
        <3> DEFINE q == call[c].port
        <3>1. q \in StreamingPort
            BY <1>1, <2>5 DEF UseUnbind, CallInv, CallOK
        <3>2. /\ boundStreamingPorts' = [k \in BindChannel |-> IF k = P[q] THEN NoPort ELSE M[k]]
              /\ portChannel' = [P EXCEPT ![q] = 0]
            BY <2>5 DEF UseUnbind, Unregister
        <3> HIDE DEF q, M, P
        <3> QED
            BY <1>1, <2>1, <3>1, <3>2
    <2> QED
        BY <2>2, <2>3, <2>4, <2>5 DEF PortStep, Enters
<1>3. ASSUME NEW c \in Caller, call'[c].kind = "bind"
      PROVE  portChannel'[call'[c].port] = 0
    <2>1. ~Ends(c)
        BY <1>3 DEF Ends
    <2>2. CASE Begins(c)
        BY <1>0, <1>3, <2>2 DEF Begins
    <2>3. CASE GoesOn(c)
        <3>1. call[c].kind = "bind" /\ call'[c].port = call[c].port
            BY <1>3, <2>3 DEF GoesOn
        <3>2. P[call[c].port] = 0 /\ call[c].port \in StreamingPort
            BY <1>1, <3>1 DEF MasterExact, CallInv, CallOK
        <3>3. CASE Reconfigured
            BY <3>1, <3>2, <3>3 DEF Reconfigured
        <3>4. ASSUME NEW d \in Caller, Enters(d)
              PROVE  portChannel'[call[c].port] = 0
            <4>1. call[d].kind \in {"bind", "unbind"} /\ Leave(d)
                BY <3>4 DEF Enters, UseBind, UseUnbind
            <4>2. d # c
                BY <1>1, <2>1, <4>1, LeaveEnds
            <4>3. call[d].port # call[c].port
                BY <1>1, <1>3, <3>1, <4>1, <4>2 DEF PortsApart
            <4>4. portChannel'[call[c].port] = P[call[c].port]
                BY <1>1, <3>2, <3>4, <4>3 DEF Enters, UseBind, UseUnbind, Unregister
            <4> QED
                BY <3>2, <4>4
        <3> QED
            BY <3>1, <3>2, <3>3, <3>4 DEF PortStep
    <2> QED
        BY <2>1, <2>2, <2>3 DEF CallStep
<1> QED
    BY <1>2, <1>3

\* A port goes on being bound or unbound by one caller at a time.
LEMMA PortsKept ==
    ASSUME PortsApart, CallStep, SharedStep
    PROVE  PortsApart'
<1> SUFFICES ASSUME ~portShared', NEW c \in Caller, NEW d \in Caller,
                    call'[c].kind \in {"bind", "unbind"},
                    call'[d].kind \in {"bind", "unbind"},
                    call'[c].port = call'[d].port
             PROVE  c = d
    BY DEF PortsApart
<1>1. CASE Begins(c) \/ Begins(d)
    BY <1>1 DEF Begins
<1>2. CASE GoesOn(c) /\ GoesOn(d)
    BY <1>2 DEF GoesOn, PortsApart, SharedStep
<1> QED
    BY <1>1, <1>2 DEF CallStep, Ends

\* Who has a request or an answer under way goes on.
LEMMA AwaitedGoesOn ==
    ASSUME MasterInv', CallStep, ~collided', Connected', NEW m \in UnderWay',
           m.by \in Caller
    PROVE  GoesOn(m.by) /\ call'[m.by].at \in {"expect", "wait"}
<1>1. m.by # NoCaller
    BY MasterAssumption DEF MasterAssumption
<1>2. UnderWayInv'
    BY DEF MasterInv, AnswerInv
<1>3. call'[m.by].at \in {"expect", "wait"}
    BY <1>1, <1>2 DEF UnderWayInv, Awaited
<1> QED
    BY <1>3 DEF CallStep, Ends, Begins

\* What is under way goes on fitting.
LEMMA KindKept ==
    ASSUME MasterInv, MasterInv', BinderInv, KindInv, Effect, ~collided'
    PROVE  KindInv'
<1>1. LineInv /\ CallInv /\ ~collided /\ CallStep /\ LineStep /\ (Connected' => Connected)
    BY DEF MasterInv, TypeInv, Effect, StatusStep
<1>2. ASSUME Connected', NEW m \in UnderWay', m.by \in Caller
      PROVE  Fits(m, call'[m.by].kind)
    <2>1. GoesOn(m.by)
        BY <1>1, <1>2, AwaitedGoesOn
    <2>2. call'[m.by].kind = call[m.by].kind
        BY <2>1 DEF GoesOn
    <2>3. \A n \in UnderWay : n.by = m.by => Fits(n, call[m.by].kind)
        BY <1>1, <1>2 DEF KindInv
    <2>4. UnderWay = Requests \cup Answers /\ UnderWay' = Requests' \cup Answers'
        BY DEF UnderWay, Requests, Answers
    <2>5. CASE m \in UnderWay
        BY <2>2, <2>3, <2>5
    <2>6. ASSUME NEW c \in Caller, call[c].at = "send", m = RequestOf(c)
          PROVE  Fits(m, call[m.by].kind)
        <3>1. m.by = c /\ m.kind # "OK" /\ (m.kind = "bSP" => call[c].kind = "bind")
              /\ (m.kind = "uSP" => call[c].kind = "unbind")
            BY <1>1, <2>6, NewRequest
        <3>2. call[c].kind = "unbind" => m.kind = "uSP"
            BY <2>6 DEF RequestOf, Message
        <3> QED
            BY <3>1, <3>2 DEF Fits
    <2>7. CASE Said(m)
        <3>1. m.by # NoCaller
            BY <1>2, MasterAssumption DEF MasterAssumption
        <3>2. PICK n \in ToSet(toSlave) :
                 /\ m.by = n.by /\ (n.kind = "uSP" => m.kind = "OK")
                 /\ m.kind = "OK" => n.kind \in {"bSP", "uSP"}
            BY <2>7, <3>1 DEF Said
        <3>3. Fits(n, call[m.by].kind) /\ n.kind # "OK"
            BY <2>3, <3>2 DEF UnderWay, BinderInv, Requests
        <3>4. m.kind \notin {"bSP", "uSP"}
            BY <2>7 DEF Said
        <3> QED
            BY <2>2, <3>2, <3>3, <3>4 DEF Fits
    <2>8. m # Control("Dis")
        <3>1. Control("Dis").by = NoCaller
            BY ControlMessage
        <3> QED
            BY <1>2, <3>1, MasterAssumption DEF MasterAssumption
    <2>9. CASE m \in Requests'
        BY <1>1, <2>2, <2>4, <2>5, <2>6, <2>8, <2>9 DEF LineStep, RequestsStep
    <2>10. CASE m \in Answers'
        BY <1>1, <2>2, <2>4, <2>5, <2>7, <2>10, AnswersKept DEF LineStep
    <2> QED
        BY <2>4, <2>9, <2>10
<1>3. ASSUME NEW c \in Caller
      PROVE  /\ call'[c].reply.kind = "OK" => call'[c].kind \in {"bind", "unbind"}
             /\ call'[c].kind = "unbind" => call'[c].reply.kind \in {"none", "OK"}
    <2>1. CASE call'[c].reply = NoMessage
        BY <2>1, NoReplyYet
    <2>2. CASE GoesOn(c) /\ call'[c].reply = call[c].reply
        BY <1>1, <1>3, <2>2 DEF GoesOn, KindInv
    <2>3. CASE /\ GoesOn(c) /\ Connected /\ call'[c].reply \in ToSet(inQueue)
               /\ call'[c].reply.by = c
        <3>1. Fits(call'[c].reply, call[c].kind)
            BY <1>1, <1>3, <2>3 DEF KindInv, UnderWay
        <3>2. call'[c].reply.kind \notin {"bSP", "uSP"}
            BY <2>3 DEF BinderInv, Answers
        <3> QED
            BY <2>3, <3>1, <3>2 DEF Fits, GoesOn
    <2> QED
        BY <1>1, <1>3, <2>1, <2>2, <2>3 DEF CallStep, Ends, Begins, GoesOn
<1> QED
    BY <1>2, <1>3 DEF KindInv

\* No step brings the conditions back.
LEMMA CalmBefore ==
    ASSUME MasterInv, Effect, SharedStep, MasterMoves \/ SlaveMoves, Calm'
    PROVE  Calm /\ listVersion' = listVersion
<1>1. Connected /\ ~collided /\ ~channelShared /\ ~portShared /\ ~drainFailed
    BY DEF Effect, StatusStep, SharedStep, Calm, MasterMoves, SlaveMoves
<1>2. listVersion \in Nat /\ listVersion' = 0
    BY MasterAssumption DEF MasterInv, TypeInv, RegistryInv, Calm, MasterAssumption
<1>3. listVersion' = listVersion \/ listVersion' = listVersion + 1
    BY DEF MasterMoves, SlaveMoves, Says
<1> QED
    BY <1>1, <1>2, <1>3 DEF Calm

\* Before the first reconfiguration none is announced.
LEMMA ReconfKept ==
    ASSUME MasterInv, ReconfInv, MasterMoves \/ SlaveMoves
    PROVE  ReconfInv'
<1>1. CASE MasterMoves
    BY <1>1 DEF MasterMoves, ReconfInv, Announced
<1>2. CASE SlaveMoves
    <2>1. listVersion \in Nat /\ toMaster \in Seq(GoodMessage)
        BY MasterAssumption DEF MasterInv, TypeInv, RegistryInv, LineInv, MasterAssumption
    <2>2. CASE UNCHANGED <<toMaster, listVersion>>
        BY <1>2, <2>2 DEF SlaveMoves, ReconfInv
    <2>3. ASSUME NEW x \in GoodMessage, toMaster' = Append(toMaster, x), Says(x)
          PROVE  ReconfInv'
        <3>1. ToSet(toMaster') = ToSet(toMaster) \cup {x} /\ UNCHANGED messagesToDispatch
            BY <1>2, <2>1, <2>3, AppendMessage DEF SlaveMoves
        <3>2. CASE x.kind # "Reconf" /\ UNCHANGED listVersion
            BY <3>1, <3>2 DEF ReconfInv
        <3>3. CASE listVersion' = listVersion + 1
            BY <2>1, <3>3 DEF ReconfInv
        <3> QED
            BY <2>3, <3>2, <3>3 DEF Says
    <2> QED
        BY <1>2, <2>2, <2>3 DEF SlaveMoves
<1> QED
    BY <1>1, <1>2

\* The message that is about to be put aside stays where it is.
LEMMA AsideKept ==
    ASSUME MasterInv, AsideControl, MasterMoves \/ SlaveMoves
    PROVE  AsideControl'
<1>1. CASE MasterMoves
    BY <1>1 DEF MasterMoves, AsideStep, AsideControl, IsControl
<1>2. CASE SlaveMoves
    <2>1. UNCHANGED mp /\ toMaster \in Seq(GoodMessage)
        BY <1>2 DEF MasterInv, TypeInv, LineInv, SlaveMoves
    <2>2. mp = "aside" => Len(toMaster) \in Nat \ {0}
        BY <2>1, EmptySeq DEF MasterInv, TypeInv, AsideInv
    <2>3. ASSUME mp = "aside"
          PROVE  Head(toMaster') = Head(toMaster)
        <3>1. CASE UNCHANGED toMaster
            BY <3>1
        <3>2. ASSUME NEW x \in GoodMessage, toMaster' = Append(toMaster, x)
              PROVE  Head(toMaster') = Head(toMaster)
            BY <2>1, <2>2, <2>3, <3>2
        <3> QED
            BY <1>2, <3>1, <3>2 DEF SlaveMoves
    <2> QED
        BY <2>1, <2>3 DEF AsideControl, IsControl
<1> QED
    BY <1>1, <1>2

\* A binding that is done stays so until it is entered.
LEMMA DoneStays ==
    ASSUME MasterInv, MasterInv', BinderInv, KindInv, Effect, MasterMoves, Calm, Calm',
           NEW c \in Binder, Done(c), ~Enters(c)
    PROVE  Done(c)' /\ GoesOn(c)
<1>1. c \in Caller /\ ~collided' /\ Connected' /\ CallStep /\ c # NoCaller
    BY MasterAssumption DEF MasterAssumption, Calm, Effect
<1>2. \A m \in Answers' : m.kind = "OK" /\ m.by = c => Done(c)' /\ GoesOn(c)
    BY <1>1, AwaitedGoesOn DEF Done, UnderWay, Answers
<1>3. ASSUME call'[c].reply.kind = "OK"
      PROVE  Done(c)' /\ GoesOn(c)
    BY <1>1, <1>3, NoReplyYet DEF Done, CallStep, Ends, Begins
<1>4. CASE call[c].reply.kind = "OK"
    <2>1. call[c].kind \in {"bind", "unbind"}
        BY <1>1, <1>4 DEF KindInv, Calm
    <2>2. call'[c].reply = call[c].reply
        BY <1>1, <1>4, <2>1 DEF MasterMoves, RepliesStay, Calm
    <2> QED
        BY <1>3, <1>4, <2>2
<1>5. ASSUME NEW m \in Answers, m.kind = "OK", m.by = c
      PROVE  Done(c)' /\ GoesOn(c)
    <2>1. CASE m \in Answers'
        BY <1>2, <1>5, <2>1
    <2>2. ASSUME NEW d \in Caller, call'[d].reply = m
          PROVE  Done(c)' /\ GoesOn(c)
        <3>1. call'[d].reply.by = d
            BY <1>1, <1>5, <2>2 DEF MasterInv, AnswerInv, AnsweredAsAsked
        <3> QED
            BY <1>3, <1>5, <2>2, <3>1
    <2> QED
        BY <1>1, <1>5, <2>1, <2>2 DEF MasterMoves, AnswersStay
<1> QED
    BY <1>4, <1>5 DEF Done

\* The master does not make a binding done.
LEMMA DoneBefore ==
    ASSUME MasterInv, BinderInv, Effect, MasterMoves, Calm,
           Calm', NEW c \in Binder, Done(c)'
    PROVE  Done(c)
<1>1. c \in Caller /\ ~collided' /\ CallStep /\ QueueStep
    BY MasterAssumption DEF MasterAssumption, Calm, Effect, LineStep
<1>2. CASE call'[c].reply.kind = "OK"
    <2>1. GoesOn(c) /\ call'[c].reply # NoMessage
        BY <1>1, <1>2, NoReplyYet DEF CallStep, Ends, Begins
    <2> QED
        BY <1>2, <2>1 DEF GoesOn, Done, Answers, Calm
<1>3. toMaster # <<>> => Head(toMaster) \in ToSet(toMaster)
    BY TailMessage DEF MasterInv, TypeInv, LineInv
<1>4. Answers' \subseteq Answers
    BY <1>1, <1>3 DEF QueueStep, MasterMoves, Answers
<1> QED
    BY <1>2, <1>4 DEF Done

\* Who enters a binding has done with it.
LEMMA EnteredIsDone ==
    ASSUME MasterInv, MasterInv', BinderInv, KindInv, Effect, MasterMoves, Calm, Calm',
           NEW c \in Caller, Enters(c)
    PROVE  c \in Binder /\ call[c].port \in StreamingPort /\ Done(c) /\ ~Done(c)'
<1>1. /\ call[c].kind \in {"bind", "unbind"} /\ call[c].at = "use" /\ Leave(c)
      /\ call[c].reply.kind = "OK"
    <2>1. CASE UseBind(c)
        BY <2>1 DEF UseBind, Use, Answered
    <2>2. CASE UseUnbind(c)
        BY <2>2 DEF UseUnbind, Use, Answered, KindInv, Calm
    <2> QED
        BY <2>1, <2>2 DEF Enters
<1>2. CallInv /\ ~collided' /\ Connected'
    BY DEF MasterInv, TypeInv, Calm
<1>3. c \in Binder /\ call[c].port \in StreamingPort
    BY <1>1, <1>2 DEF BinderInv, CallInv, CallOK
<1>4. Done(c)
    BY <1>1 DEF Done
<1>5. Ends(c)
    BY <1>1, <1>2, LeaveEnds
<1>6. call'[c].reply.kind # "OK"
    BY <1>5, NoReplyYet DEF Ends
<1>7. \A m \in Answers' : m.by # c
    BY <1>2, <1>5, AwaitedGoesOn DEF Effect, Ends, UnderWay, Answers
<1> QED
    BY <1>3, <1>4, <1>6, <1>7 DEF Done

\* A step of the master keeps the agreement.
LEMMA MasterAgrees ==
    ASSUME MasterInv, MasterInv', BinderInv, ReconfInv, KindInv, Effect,
           MasterMoves, Calm, Calm', Agreement
    PROVE  Agreement'
<1>1. /\ CallInv /\ CacheInv /\ Binder \subseteq Caller
      /\ UNCHANGED <<sPortBinds, spChannel>>
    BY MasterAssumption DEF MasterInv, TypeInv, MasterAssumption, MasterMoves
<1>2. TableExact'
    BY <1>1 DEF Agreement, TableExact
<1>3. ASSUME NEW c \in Caller, Enters(c)
      PROVE  Agreement'
    <2>1. c \in Binder /\ call[c].port \in StreamingPort /\ Done(c) /\ ~Done(c)'
        BY <1>3, EnteredIsDone
    <2>2. spChannel[call[c].port] = call[c].bChannel
        BY <2>1 DEF Agreement
    <2>3. portChannel' = [portChannel EXCEPT ![call[c].port] = call[c].bChannel]
        <3>1. CASE UseBind(c)
            BY <3>1 DEF UseBind
        <3>2. CASE UseUnbind(c)
            <4>1. call[c].bChannel = 0
                BY <1>3, <3>2 DEF UseUnbind, BinderInv
            <4> QED
                BY <3>2, <4>1 DEF UseUnbind, Unregister
        <3> QED
            BY <1>3, <3>1, <3>2 DEF Enters
    <2>4. ASSUME NEW d \in Binder, d # c
          PROVE  /\ Done(d)' <=> Done(d)
                 /\ call'[d].port = call[d].port /\ call'[d].bChannel = call[d].bChannel
        <3>1. Leave(c) /\ d \in Caller
            BY <1>1, <1>3 DEF Enters, UseBind, UseUnbind
        <3>2. call'[d] = call[d]
            BY <1>1, <2>4, <3>1 DEF Leave, CallInv
        <3>3. ~Enters(d)
            <4>1. ASSUME Enters(d)
                  PROVE  FALSE
                <5>1. call[d].at = "use" /\ Leave(d)
                    BY <4>1 DEF Enters, UseBind, UseUnbind, Use
                <5>2. call'[d].at = "idle"
                    BY <1>1, <3>1, <5>1, LeaveEnds DEF Ends
                <5> QED
                    BY <3>2, <5>1, <5>2
            <4> QED
                BY <4>1
        <3> QED
            BY <3>2, <3>3, DoneStays, DoneBefore
    <2>5. ASSUME NEW d \in Binder, Done(d)'
          PROVE  spChannel'[call'[d].port] = call'[d].bChannel
        BY <1>1, <2>1, <2>4, <2>5 DEF Agreement
    <2>6. ASSUME NEW p \in StreamingPort, \A d \in Binder : Done(d)' => call'[d].port # p
          PROVE  spChannel'[p] = portChannel'[p]
        <3>1. CASE p = call[c].port
            BY <1>1, <2>1, <2>2, <2>3, <3>1 DEF CacheInv
        <3>2. CASE p # call[c].port
            <4>1. \A d \in Binder : Done(d) => call[d].port # p
                BY <2>4, <2>6, <3>2
            <4>2. spChannel[p] = portChannel[p]
                BY <4>1 DEF Agreement
            <4> QED
                BY <1>1, <2>1, <2>3, <3>2, <4>2 DEF CacheInv
        <3> QED
            BY <3>1, <3>2
    <2> QED
        BY <1>2, <2>5, <2>6 DEF Agreement
<1>4. CASE \A c \in Caller : ~Enters(c)
    <2>1. UNCHANGED <<boundStreamingPorts, portChannel>>
        BY <1>4 DEF MasterMoves, PortStep, ReconfInv, Calm, Announced
    <2>2. ASSUME NEW c \in Binder
          PROVE  /\ Done(c)' <=> Done(c)
                 /\ Done(c) => GoesOn(c)
        BY <1>1, <1>4, DoneStays, DoneBefore
    <2>3. \A c \in Binder : Done(c) => /\ call'[c].port = call[c].port
                                       /\ call'[c].bChannel = call[c].bChannel
        BY <2>2 DEF GoesOn
    <2>4. ASSUME NEW c \in Binder, Done(c)'
          PROVE  spChannel'[call'[c].port] = call'[c].bChannel
        BY <1>1, <2>2, <2>3, <2>4 DEF Agreement
    <2>5. ASSUME NEW p \in StreamingPort, \A c \in Binder : Done(c)' => call'[c].port # p
          PROVE  spChannel'[p] = portChannel'[p]
        BY <1>1, <2>1, <2>2, <2>3, <2>5 DEF Agreement
    <2> QED
        BY <1>2, <2>4, <2>5 DEF Agreement
<1> QED
    BY <1>3, <1>4

\* Whose binding or unbinding is done is a binder at work.
LEMMA DoneKind ==
    ASSUME KindInv, ~collided, Connected, NEW c \in Caller, Done(c)
    PROVE  call[c].kind \in {"bind", "unbind"}
<1>1. CASE call[c].reply.kind = "OK"
    BY <1>1 DEF KindInv
<1>2. ASSUME NEW m \in Answers, m.kind = "OK", m.by = c
      PROVE  call[c].kind \in {"bind", "unbind"}
    BY <1>2 DEF KindInv, Fits, UnderWay, Answers
<1> QED
    BY <1>1, <1>2 DEF Done

\* While a request to bind or unbind is on the line it is not done, and nobody else has
\* done anything about its port.
LEMMA NothingDone ==
    ASSUME MasterInv, BinderInv, MatchInv, KindInv, PortsApart, ~collided, ~portShared,
           Connected, NEW n \in ToSet(toSlave), n.kind \in {"bSP", "uSP"}
    PROVE  n.by \in Binder /\ ~Done(n.by)
           /\ \A d \in Binder : Done(d) => call[d].port # n.port
<1>1. n.by \in Binder /\ n.by \in Caller /\ n.by # NoCaller /\ CallInv
      /\ Binder \subseteq Caller
    BY MasterAssumption DEF BinderInv, Requests, MasterAssumption, MasterInv, TypeInv
<1>2. UnderWayInv
    BY DEF MasterInv, AnswerInv
<1>3. call[n.by].at \in Before
    BY <1>1, <1>2 DEF UnderWayInv, UnderWay, Awaited, Before
<1>4. call[n.by].reply.kind # "OK"
    BY <1>1, <1>3, NothingTaken
<1>5. ASSUME NEW m \in Answers, m.by = n.by
      PROVE  FALSE
    <2>1. /\ n.by \in Senders(toSlave)
          /\ n.by \in Senders(toMaster) \/ n.by \in Senders(inQueue)
        BY <1>1, <1>5 DEF Senders, Answers
    <2> QED
        BY <1>2, <2>1 DEF UnderWayInv, OneEach, Apart
<1>6. ~Done(n.by)
    BY <1>4, <1>5 DEF Done
<1>7. call[n.by].kind \in {"bind", "unbind"} /\ n.port = call[n.by].port
    BY <1>1 DEF KindInv, Fits, MatchInv, UnderWay
<1>8. ASSUME NEW d \in Binder, Done(d)
      PROVE  call[d].port # n.port
    <2>1. d \in Caller /\ d # n.by /\ call[d].kind \in {"bind", "unbind"}
        BY <1>1, <1>6, <1>8, DoneKind
    <2> QED
        BY <1>1, <1>7, <2>1 DEF PortsApart
<1> QED
    BY <1>1, <1>6, <1>8

\* To bind a port that is not bound enters it in both tables of the slave.
LEMMA GrantedBind ==
    ASSUME TableInv, TableExact, NEW p \in StreamingPort, NEW ch \in BindChannel,
           spChannel[p] = Unbound, BindStatus(p, ch) = "OK", BindEffect(p, ch)
    PROVE  TableExact' /\ spChannel' = [spChannel EXCEPT ![p] = ch]
<1>1. /\ Len(sPortBinds) \in Nat /\ DOMAIN sPortBinds = 1..Len(sPortBinds)
      /\ spChannel \in [StreamingPort -> BindChannel \cup {Unbound}]
    BY DEF TableInv
<1>2. \A i \in DOMAIN sPortBinds :
         /\ sPortBinds[i].channel \in BindChannel /\ sPortBinds[i].port \in StreamingPort
         /\ sPortBinds[i].port # p
    <2>1. \A i \in DOMAIN sPortBinds :
             sPortBinds[i].channel \in BindChannel /\ sPortBinds[i].port \in StreamingPort
        BY BindingsOfTable DEF Binding
    <2> QED
        BY <2>1, UnboundIsNoChannel DEF TableExact
<1>3. BoundAt(ch) = {}
    <2> SUFFICES ASSUME BoundAt(ch) # {}
                 PROVE  FALSE
        OBVIOUS
    <2>1. BoundAt(ch) \in SUBSET Nat
        BY <1>1 DEF BoundAt
    <2>2. First(BoundAt(ch)) \in DOMAIN sPortBinds
        BY <2>1, FirstIsLeast DEF BoundAt
    <2>3. sPortBinds[First(BoundAt(ch))].port = p
        BY DEF BindStatus
    <2> QED
        BY <1>2, <2>2, <2>3
<1>4. /\ sPortBinds' = Append(sPortBinds, [channel |-> ch, port |-> p])
      /\ spChannel' = [spChannel EXCEPT ![p] = ch]
    BY <1>3 DEF BindEffect
<1>5. ASSUME NEW i \in DOMAIN sPortBinds'
      PROVE  \/ sPortBinds'[i] = [channel |-> ch, port |-> p]
             \/ i \in DOMAIN sPortBinds /\ sPortBinds'[i] = sPortBinds[i]
    <2>1. sPortBinds \in Seq(Binding)
        BY DEF TableInv
    <2> QED
        BY <1>1, <1>4, <1>5, <2>1
<1>6. TableExact'
    <2> SUFFICES ASSUME NEW i \in DOMAIN sPortBinds'
                 PROVE  spChannel'[sPortBinds'[i].port] = sPortBinds'[i].channel
        BY DEF TableExact
    <2>1. CASE sPortBinds'[i] = [channel |-> ch, port |-> p]
        BY <1>1, <1>4, <2>1
    <2>2. CASE i \in DOMAIN sPortBinds /\ sPortBinds'[i] = sPortBinds[i]
        BY <1>1, <1>2, <1>4, <2>2 DEF TableExact
    <2> QED
        BY <1>5, <2>1, <2>2
<1> QED
    BY <1>4, <1>6

\* To unbind a port removes it from both.
LEMMA GrantedUnbind ==
    ASSUME TableInv, TableExact, NEW p \in StreamingPort, UnbindEffect(p)
    PROVE  TableExact' /\ spChannel' = [spChannel EXCEPT ![p] = Unbound]
<1>1. /\ Len(sPortBinds) \in Nat /\ DOMAIN sPortBinds = 1..Len(sPortBinds)
      /\ spChannel \in [StreamingPort -> BindChannel \cup {Unbound}]
      /\ sPortBinds \in Seq(Binding)
    BY DEF TableInv
<1>2. CASE SlotsOf(p) = {}
    <2>1. UNCHANGED <<sPortBinds, spChannel>>
        BY <1>2 DEF UnbindEffect, bindVars
    <2>2. spChannel[p] = Unbound
        BY <1>2 DEF SlotsOf, TableInv, ChannelIsBinding
    <2>3. spChannel' = [spChannel EXCEPT ![p] = Unbound]
        BY <1>1, <2>1, <2>2
    <2> QED
        BY <2>1, <2>3 DEF TableExact
<1>3. CASE SlotsOf(p) # {}
    <2> DEFINE k == First(SlotsOf(p))
    <2>1. /\ sPortBinds' = RemoveAt(sPortBinds, k)
          /\ spChannel' = [spChannel EXCEPT ![p] = Unbound]
        BY <1>3 DEF UnbindEffect
    <2>2. k \in SlotsOf(p)
        <3>1. SlotsOf(p) \in SUBSET Nat
            BY <1>1 DEF SlotsOf
        <3> QED
            BY <1>3, <3>1, FirstIsLeast
    <2> HIDE DEF k
    <2>3. k \in 1..Len(sPortBinds) /\ sPortBinds[k].port = p
        BY <1>1, <2>2 DEF SlotsOf
    <2>4. \A i \in DOMAIN sPortBinds : sPortBinds[i].port = p => i = k
        BY <1>1, <2>3 DEF TableExact, TableInv, TableWellFormed
    <2>5. /\ sPortBinds' \in Seq(Binding) /\ Len(sPortBinds') = Len(sPortBinds) - 1
          /\ \A j \in 1..Len(sPortBinds') :
                sPortBinds'[j] = IF j < k THEN sPortBinds[j] ELSE sPortBinds[j + 1]
        BY <1>1, <2>1, <2>3, RemoveAtProperties
    <2>6. ASSUME NEW i \in DOMAIN sPortBinds'
          PROVE  \E j \in DOMAIN sPortBinds : j # k /\ sPortBinds'[i] = sPortBinds[j]
        <3>1. i \in 1..Len(sPortBinds')
            BY <2>5, <2>6
        <3>2. CASE i < k
            BY <1>1, <2>3, <2>5, <3>1, <3>2
        <3>3. CASE ~(i < k)
            BY <1>1, <2>3, <2>5, <3>1, <3>3
        <3> QED
            BY <3>2, <3>3
    <2>7. TableExact'
        <3> SUFFICES ASSUME NEW i \in DOMAIN sPortBinds'
                     PROVE  spChannel'[sPortBinds'[i].port] = sPortBinds'[i].channel
            BY DEF TableExact
        <3>1. PICK j \in DOMAIN sPortBinds : j # k /\ sPortBinds'[i] = sPortBinds[j]
            BY <2>6
        <3>2. sPortBinds[j].port \in StreamingPort /\ sPortBinds[j].port # p
            BY <2>4, <3>1, BindingsOfTable DEF Binding
        <3> QED
            BY <1>1, <2>1, <3>1, <3>2 DEF TableExact
    <2> QED
        BY <2>1, <2>7
<1> QED
    BY <1>2, <1>3

\* A step of the slave keeps the agreement.
LEMMA SlaveAgrees ==
    ASSUME MasterInv, BinderInv, MatchInv, MasterExact, PortsApart, KindInv, SlaveMoves,
           Calm, UNCHANGED listVersion, Agreement
    PROVE  Agreement'
<1>1. /\ UNCHANGED <<call, inQueue, boundStreamingPorts, portChannel>>
      /\ toMaster \in Seq(GoodMessage) /\ toSlave \in Seq(GoodMessage) /\ TableInv
      /\ Binder \subseteq Caller /\ Connected /\ ~collided /\ ~channelShared /\ ~portShared
      /\ 0 \notin BindChannel
    BY MasterAssumption, ChannelFacts
       DEF MasterInv, TypeInv, LineInv, RegistryInv, SlaveMoves, MasterAssumption, Calm
<1>2. CASE UNCHANGED <<toMaster, sPortBinds, spChannel>>
    BY <1>1, <1>2 DEF Agreement, TableExact, Done, Answers
<1>3. ASSUME NEW x \in GoodMessage, toMaster' = Append(toMaster, x), Says(x)
      PROVE  Agreement'
    <2>1. Answers' = Answers \cup {x}
        <3>1. ToSet(toMaster') = ToSet(toMaster) \cup {x}
            BY <1>1, <1>3, AppendMessage
        <3> QED
            BY <1>1, <3>1 DEF Answers
    <2>2. CASE x.kind # "OK" /\ UNCHANGED bindVars
        <3>1. \A c \in Binder : Done(c)' <=> Done(c)
            BY <1>1, <2>1, <2>2 DEF Done
        <3>2. UNCHANGED <<sPortBinds, spChannel>>
            BY <2>2 DEF bindVars
        <3> QED
            BY <1>1, <3>1, <3>2 DEF Agreement, TableExact
    <2>3. ASSUME NEW n \in ToSet(toSlave), n \in GoodMessage, Grants(n), x.kind = "OK",
                 x.by = n.by
          PROVE  Agreement'
        <3> DEFINE c == n.by
                   p == n.port
        <3>1. n.kind \in {"bSP", "uSP"} /\ p \in StreamingPort
              /\ (n.kind = "bSP" => n.value \in BindChannel)
            BY <2>3 DEF Grants, GoodMessage, WellFormed
        <3>2. c \in Binder /\ c \in Caller /\ \A d \in Binder : Done(d) => call[d].port # p
            BY <1>1, <2>3, <3>1, NothingDone
        <3>3. p = call[c].port /\ n.value = call[c].bChannel
            BY <1>1, <3>1 DEF MatchInv, UnderWay
        <3>4. spChannel[p] = portChannel[p]
            BY <3>1, <3>2 DEF Agreement
        <3>5. TableExact' /\ spChannel' = [spChannel EXCEPT ![p] = call[c].bChannel]
            <4>1. CASE n.kind = "bSP"
                <5>1. call[c].kind = "bind"
                    BY <1>1, <3>2, <4>1 DEF KindInv, Fits, UnderWay
                <5>2. spChannel[p] = Unbound
                    BY <1>1, <3>1, <3>2, <3>3, <3>4, <5>1 DEF MasterExact, Unbound
                <5> QED
                    BY <1>1, <2>3, <3>1, <3>3, <4>1, <5>2, GrantedBind DEF Grants, Agreement
            <4>2. CASE n.kind = "uSP"
                <5>1. n.value = Unbound
                    BY <4>2 DEF BinderInv, Requests, Unbound
                <5> QED
                    BY <1>1, <2>3, <3>1, <3>3, <4>2, <5>1, GrantedUnbind DEF Grants, Agreement
            <4> QED
                BY <3>1, <4>1, <4>2
        <3>6. spChannel \in [StreamingPort -> BindChannel \cup {Unbound}]
            BY <1>1 DEF TableInv
        <3>7. \A d \in Binder : Done(d)' <=> Done(d) \/ d = c
            BY <1>1, <2>1, <2>3, <3>2 DEF Done
        <3>8. spChannel'[call'[c].port] = call'[c].bChannel
            BY <1>1, <3>1, <3>3, <3>5, <3>6
        <3>9. ASSUME NEW d \in Binder, Done(d), d # c
              PROVE  spChannel'[call'[d].port] = call'[d].bChannel
            <4>1. call[d].port \in StreamingPort /\ call[d].port # p
                <5>1. d \in Caller /\ call[d].kind \in {"bind", "unbind"}
                    BY <1>1, <3>9, DoneKind
                <5> QED
                    BY <3>2, <3>9, <5>1 DEF MasterInv, TypeInv, CallInv, CallOK
            <4>2. spChannel[call[d].port] = call[d].bChannel
                BY <3>9 DEF Agreement
            <4> QED
                BY <1>1, <3>5, <3>6, <4>1, <4>2
        <3>10. ASSUME NEW q \in StreamingPort, \A d \in Binder : Done(d)' => call'[d].port # q
              PROVE  spChannel'[q] = portChannel'[q]
            <4>1. q # p /\ \A d \in Binder : Done(d) => call[d].port # q
                BY <1>1, <3>2, <3>3, <3>7, <3>10
            <4>2. spChannel[q] = portChannel[q]
                BY <4>1 DEF Agreement
            <4> QED
                BY <1>1, <3>5, <3>6, <4>1, <4>2
        <3> HIDE DEF c, p
        <3> QED
            BY <3>5, <3>7, <3>8, <3>9, <3>10 DEF Agreement
    <2>4. UNCHANGED listVersion /\ listVersion \in Nat
        BY MasterAssumption DEF MasterInv, TypeInv, RegistryInv, MasterAssumption
    <2> QED
        BY <1>3, <2>2, <2>3, <2>4 DEF Says
<1> QED
    BY <1>2, <1>3 DEF SlaveMoves

-----------------------------------------------------------------------------
(* The invariant holds                                                     *)

\* Every step keeps the invariant.
LEMMA AgreeKept ==
    ASSUME MasterInv, MasterInv', BindingInv, BindingInv', AgreeInv, [Next]_masterVars
    PROVE  AgreeInv'
<1> USE DEF BindingInv, AgreeInv
<1>1. Effect /\ SharedStep
    BY NextEffect, NextShared
<1>2. MasterMoves \/ SlaveMoves
    BY NextMoves, SlaveSteps
<1>3. MasterExact' /\ PortsApart'
    BY <1>1, <1>2, ExactKept, PortsKept DEF Effect, MasterMoves, SlaveMoves, PortStep
<1>4. ReconfInv' /\ AsideControl'
    BY <1>2, ReconfKept, AsideKept
<1>5. KindInv'
    <2>1. CASE ~collided'
        BY <1>1, <2>1, KindKept
    <2>2. CASE collided'
        BY <2>2 DEF KindInv
    <2> QED
        BY <2>1, <2>2
<1>6. ASSUME Calm'
      PROVE  Agreement'
    <2>1. Calm /\ UNCHANGED listVersion
        BY <1>1, <1>2, <1>6, CalmBefore
    <2> QED
        BY <1>1, <1>2, <1>6, <2>1, MasterAgrees, SlaveAgrees
<1> QED
    BY <1>3, <1>4, <1>5, <1>6

\* At first nothing is bound on either side.
LEMMA InitAgreeInv == Init => AgreeInv
<1> SUFFICES ASSUME Init PROVE AgreeInv
    OBVIOUS
<1>1. /\ ToSet(outQueue) = {} /\ ToSet(toSlave) = {} /\ ToSet(toMaster) = {}
      /\ ToSet(inQueue) = {} /\ ToSet(messagesToDispatch) = {}
    BY EmptyQueue DEF Init
<1>2. \A c \in Caller : call[c].kind = "none" /\ call[c].reply.kind = "none"
    BY NoReplyYet DEF Init, Idle
<1>3. MasterExact /\ PortsApart
    <2>1. 0 \notin BindChannel /\ NoPort \notin StreamingPort
        BY MasterAssumption, ChannelFacts DEF MasterAssumption
    <2> QED
        BY <1>2, <2>1 DEF Init, MasterExact, PortsApart
<1>4. ReconfInv
    BY <1>1 DEF ReconfInv
<1>5. AsideControl
    BY DEF Init, AsideControl
<1>6. KindInv
    BY <1>1, <1>2 DEF KindInv, UnderWay
<1>7. Agreement
    <2>1. Binder \subseteq Caller
        BY MasterAssumption DEF MasterAssumption
    <2>2. \A c \in Binder : ~Done(c)
        BY <1>1, <1>2, <2>1 DEF Done, Answers
    <2>3. TableExact
        BY DEF Init, PortInit, TableExact
    <2>4. \A p \in StreamingPort : spChannel[p] = portChannel[p]
        BY DEF Init, PortInit, Unbound
    <2> QED
        BY <2>2, <2>3, <2>4 DEF Agreement
<1> QED
    BY <1>3, <1>4, <1>5, <1>6, <1>7 DEF AgreeInv

\* When nothing is under way nothing is done that the master does not know of.
LEMMA QuietlyAgree ==
    ASSUME MasterInv, AgreeInv
    PROVE  BindingsAgree
<1> SUFFICES ASSUME Quiescent, listVersion = 0, ~collided, ~channelShared, ~portShared,
                    ~drainFailed
             PROVE  /\ \A ch \in BindChannel :
                          FirstPort(ch) = opdi_try_dispatch_stream(ch)
                    /\ portChannel = spChannel
    BY DEF BindingsAgree
<1>1. /\ CallInv /\ CacheInv /\ TableInv /\ UnderWayInv /\ Agreement /\ MasterExact
      /\ Binder \subseteq Caller /\ NoPort \notin StreamingPort /\ NoCaller \notin Caller
    BY MasterAssumption
       DEF MasterInv, TypeInv, RegistryInv, AnswerInv, AgreeInv, Calm, Quiescent,
           MasterAssumption
<1>2. ASSUME NEW c \in Binder
      PROVE  ~Done(c)
    <2>1. call[c].at = "idle"
        BY <1>1 DEF Quiescent
    <2>2. call[c].reply.kind # "OK"
        BY <1>1, <2>1, NothingTaken DEF Before
    <2>3. \A m \in UnderWay : m.by # c
        BY <1>1, <2>1 DEF UnderWayInv, Awaited
    <2> QED
        BY <2>2, <2>3 DEF Done, Answers, UnderWay
<1>3. \A p \in StreamingPort : spChannel[p] = portChannel[p]
    BY <1>1, <1>2 DEF Agreement
<1>4. portChannel = spChannel
    BY <1>1, <1>3 DEF CacheInv, TableInv, Unbound
<1>5. ASSUME NEW ch \in BindChannel
      PROVE  FirstPort(ch) = opdi_try_dispatch_stream(ch)
    <2>1. opdi_try_dispatch_stream(ch) = {sPortBinds[i].port : i \in BoundAt(ch)}
        BY <1>1, DispatchIsBound
    <2>2. \A i \in BoundAt(ch) :
             sPortBinds[i].port \in StreamingPort /\ portChannel[sPortBinds[i].port] = ch
        BY <1>1, <1>3, BindingsOfTable DEF BoundAt, Binding, Agreement, TableExact
    <2>3. \A i \in BoundAt(ch) : boundStreamingPorts[ch] = sPortBinds[i].port
        BY <1>1, <2>2 DEF MasterExact
    <2>4. CASE boundStreamingPorts[ch] = NoPort
        BY <1>1, <2>1, <2>2, <2>3, <2>4 DEF FirstPort
    <2>5. CASE boundStreamingPorts[ch] # NoPort
        <3> DEFINE p == boundStreamingPorts[ch]
        <3>1. p \in StreamingPort /\ portChannel[p] = ch
            BY <1>1, <2>5 DEF CacheInv, MasterExact
        <3>2. spChannel[p] = ch /\ ch # Unbound
            BY <1>3, <3>1, UnboundIsNoChannel
        <3>3. \E i \in DOMAIN sPortBinds : sPortBinds[i] = [channel |-> ch, port |-> p]
            BY <1>1, <3>1, <3>2 DEF TableInv, ChannelIsBinding
        <3>4. \E i \in BoundAt(ch) : sPortBinds[i].port = p
            BY <3>3 DEF BoundAt
        <3> QED
            BY <2>1, <2>3, <2>5, <3>4 DEF FirstPort
    <2> QED
        BY <2>4, <2>5
<1> QED
    BY <1>4, <1>5

\* The inductive invariant about both tables, for any number of callers, ports and
\* channels, with and without failures, whichever of the callers bind and unbind.
THEOREM AgreementInvariant == Spec => [](MasterInv /\ BindingInv /\ AgreeInv)
<1>1. Init => AgreeInv
    BY InitAgreeInv
<1>2. /\ MasterInv /\ MasterInv' /\ BindingInv /\ BindingInv' /\ AgreeInv
      /\ [Next]_masterVars
      => AgreeInv'
    BY AgreeKept
<1> QED
    BY <1>1, <1>2, BindingInvariant, PTL DEF Spec

\* When nothing is under way, the protocol, the ports of the master and the slave have
\* the same bindings, with any number of threads that bind and unbind, on the conditions
\* that the property names: the port list has never been rebuilt (listVersion = 0), no two
\* operations shared a channel of the protocol, no two bindings a channel and no two
\* binding operations a port, and no caller was thrown out of expect.
THEOREM TablesAgree == Spec => []BindingsAgree
<1>1. MasterInv /\ AgreeInv => BindingsAgree
    BY QuietlyAgree
<1> QED
    BY <1>1, AgreementInvariant, PTL

=============================================================================
