------------------------ MODULE SlaveSession_proofs ------------------------
(***************************************************************************)
(* Proofs about a session of the slave, for every device, every master,    *)
(* every set of ports, channels and menus, and every idle limit.           *)
(***************************************************************************)
EXTENDS SlaveSession, PortBindings_proofs

-----------------------------------------------------------------------------
(* The inductive invariant                                                 *)

AfterReply == stage \in {"AwaitSelect", "AwaitAuth", "Running"}

\* The types of everything but the registry and the history of the last step.
SessionTypes ==
    /\ dev \in Device
    /\ stage \in Stage
    /\ encryption \in BOOLEAN
    /\ messageTimeout \in {"message", "authentication"}
    /\ connected \in BOOLEAN
    /\ flags \in MasterFlags
    /\ useEncryption \in BOOLEAN
    /\ protocolState \in {"START_HANDSHAKE", "CONNECTED", "DISCONNECTED"}
    /\ idle \in Nat
    /\ alive \in BOOLEAN
    /\ authenticated \in BOOLEAN
    /\ userIdle \in Nat

\* What the flags demand holds from the handshake reply on, before the session is
\* connected.
FlagsInv ==
    AfterReply =>
        /\ flags.encryptionRequired \/ dev.encryptionRequired => encryption
        /\ dev.encryptionNotAllowed \/ dev.noEncryption => ~encryption

\* The clock of the host is never ahead of the time since the user was active.
IdleInv == AfterReply => idle <= userIdle

\* What depends on the stage of the connection only.
StageInv ==
    /\ SessionTypes
    /\ ConnectedIffRunning
    /\ AuthenticatedWhenRequired
    /\ EncryptionAsAnnounced
    /\ FlagsInv
    /\ LongTimeoutOnlyForAuth
    /\ IdleInv

\* A handshake message unbinds everything, so that the channels of an earlier session
\* are gone long before this one is connected.
StreamInv ==
    /\ granted \subseteq StreamingPort \X BindChannel
    /\ stage \in {"AwaitSelect", "AwaitAuth"} =>
          \A p \in StreamingPort : spChannel[p] = Unbound
    /\ StreamsAreGranted

SessionInv == PortInv /\ StageInv /\ StreamInv

-----------------------------------------------------------------------------
(* Outcomes                                                                *)

\* What is sent is sent the way the session is encrypted now.
Sent == [channel : Nat,
         kind : {"OPDI", "OK", "NOK", "Err", "Dis", "Reply", "Ref", "Debug",
                 "Reconf", "Stream"},
         sent : BOOLEAN, encrypted : {encryption}]

\* A Disconnect message that was sent is the last one, and reported.
Proper(o) ==
    /\ o.res \in Status
    /\ o.out \in Seq(Sent)
    /\ \A i \in DOMAIN o.out : o.out[i].kind = "Dis" /\ o.out[i].sent =>
          i = Len(o.out) /\ o.res = "DISCONNECTED"

\* Nothing is sent but on the control channel.
ControlOnly(o) == \A i \in DOMAIN o.out : o.out[i].channel = ControlChannel

\* A request on the channel is answered at most once, and is if it succeeded.
Answered(o, channel) ==
    /\ o.res # "MESSAGE_UNKNOWN"
    /\ \A i \in DOMAIN o.out : o.out[i].channel \in {ControlChannel, channel}
    /\ \A i, j \in DOMAIN o.out :
          o.out[i].channel = channel /\ o.out[j].channel = channel => i = j
    /\ o.res = "OK" => \E i \in DOMAIN o.out : o.out[i].channel = channel

\* An outcome with one message.
LEMMA SingleMessage ==
    ASSUME NEW o, NEW m \in Sent, o.out = <<m>>, o.res \in Status,
           m.kind # "Dis" \/ m.sent = FALSE \/ o.res = "DISCONNECTED"
    PROVE  Proper(o) /\ DOMAIN o.out = {1} /\ o.out[1] = m
<1>1. o.out \in Seq(Sent) /\ Len(o.out) = 1 /\ DOMAIN o.out = {1} /\ o.out[1] = m
    OBVIOUS
<1> QED
    BY <1>1 DEF Proper

\* An outcome with no message.
LEMMA NoMessages ==
    ASSUME NEW res \in Status
    PROVE  /\ Proper(Outcome(res, <<>>))
           /\ ControlOnly(Outcome(res, <<>>))
           /\ Outcome(res, <<>>).res = res
           /\ \A c : res \notin {"OK", "MESSAGE_UNKNOWN"} => Answered(Outcome(res, <<>>), c)
    BY DEF Outcome, Proper, ControlOnly, Answered

\* A send function whose status is returned.
LEMMA SendOutcomes ==
    ASSUME NEW channel \in Nat,
           NEW kind \in {"OPDI", "OK", "NOK", "Err", "Reply", "Ref", "Debug", "Reconf"}
    PROVE  \A o \in Send(channel, kind) :
              /\ Proper(o)
              /\ o.res \in {"OK", "DEVICE_ERROR"}
              /\ channel = ControlChannel => ControlOnly(o)
              /\ channel # ControlChannel => Answered(o, channel)
<1> SUFFICES ASSUME NEW sent \in BOOLEAN, NEW res \in {"OK", "DEVICE_ERROR"}
             PROVE  LET o == Outcome(res, <<Message(channel, kind, sent)>>)
                    IN /\ Proper(o)
                       /\ o.res = res
                       /\ channel = ControlChannel => ControlOnly(o)
                       /\ channel # ControlChannel => Answered(o, channel)
    BY DEF Send
<1> DEFINE m == Message(channel, kind, sent)
           o == Outcome(res, <<m>>)
<1>1. m \in Sent /\ m.channel = channel /\ m.kind # "Dis"
    BY DEF Message, Sent
<1>2. o.out = <<m>> /\ o.res = res /\ res \in Status
    BY DEF Outcome, Status
<1> HIDE DEF m, o
<1>3. Proper(o) /\ DOMAIN o.out = {1} /\ o.out[1].channel = channel
    BY <1>1, <1>2, SingleMessage
<1>4. /\ Proper(o)
      /\ o.res = res
      /\ channel = ControlChannel => ControlOnly(o)
      /\ channel # ControlChannel => Answered(o, channel)
    BY <1>2, <1>3 DEF ControlOnly, Answered
<1> QED
    BY <1>4 DEF o, m

\* A send function whose status is ignored.
LEMMA SendIgnoredOutcomes ==
    ASSUME NEW channel \in Nat,
           NEW kind \in {"OPDI", "OK", "NOK", "Err", "Reply", "Ref", "Debug", "Reconf"}
    PROVE  \A o \in SendIgnored(channel, kind) :
              /\ Proper(o)
              /\ o.res = "OK"
              /\ channel = ControlChannel => ControlOnly(o)
              /\ channel # ControlChannel => Answered(o, channel)
<1> SUFFICES ASSUME NEW sent \in BOOLEAN
             PROVE  LET o == Outcome("OK", <<Message(channel, kind, sent)>>)
                    IN /\ Proper(o)
                       /\ o.res = "OK"
                       /\ channel = ControlChannel => ControlOnly(o)
                       /\ channel # ControlChannel => Answered(o, channel)
    BY DEF SendIgnored
<1> DEFINE m == Message(channel, kind, sent)
           o == Outcome("OK", <<m>>)
<1>1. m \in Sent /\ m.channel = channel /\ m.kind # "Dis"
    BY DEF Message, Sent
<1>2. o.out = <<m>> /\ o.res = "OK" /\ o.res \in Status
    BY DEF Outcome, Status
<1> HIDE DEF m, o
<1>3. Proper(o) /\ DOMAIN o.out = {1} /\ o.out[1].channel = channel
    BY <1>1, <1>2, SingleMessage
<1>4. /\ Proper(o)
      /\ o.res = "OK"
      /\ channel = ControlChannel => ControlOnly(o)
      /\ channel # ControlChannel => Answered(o, channel)
    BY <1>2, <1>3 DEF ControlOnly, Answered
<1> QED
    BY <1>4 DEF o, m

\* What is sent after a success, or to report a failure, joins what was sent before:
\* proper outcomes stay proper, and what was answered stays answered.
LEMMA Joined ==
    ASSUME NEW o, NEW n, Proper(o), Proper(n), o.res # "DISCONNECTED"
    PROVE  LET j == Outcome(n.res, o.out \o n.out)
           IN /\ Proper(j)
              /\ j.res = n.res
              /\ ControlOnly(o) /\ ControlOnly(n) => ControlOnly(j)
              /\ \A c \in Nat \ {0} : ControlOnly(o) /\ Answered(n, c) => Answered(j, c)
              /\ \A c \in Nat \ {0} :
                    Answered(o, c) /\ ControlOnly(n)
                      /\ n.res \notin {"OK", "MESSAGE_UNKNOWN"}
                        => Answered(j, c)
<1> DEFINE s == o.out
           t == n.out
           j == Outcome(n.res, s \o t)
<1>1. s \in Seq(Sent) /\ t \in Seq(Sent)
    BY DEF Proper
<1>2. Len(s) \in Nat /\ Len(t) \in Nat /\ DOMAIN s = 1..Len(s) /\ DOMAIN t = 1..Len(t)
    BY <1>1, LenProperties
<1>3. /\ j.res = n.res
      /\ j.out \in Seq(Sent)
      /\ Len(j.out) = Len(s) + Len(t)
      /\ \A i \in 1..(Len(s) + Len(t)) :
            j.out[i] = IF i <= Len(s) THEN s[i] ELSE t[i - Len(s)]
    BY <1>1, ConcatProperties DEF Outcome
<1>4. DOMAIN j.out = 1..(Len(s) + Len(t))
    BY <1>3, LenProperties
<1> HIDE DEF j, s, t
<1>5. \A i \in DOMAIN j.out :
         \/ i \in DOMAIN s /\ j.out[i] = s[i]
         \/ i - Len(s) \in DOMAIN t /\ j.out[i] = t[i - Len(s)]
    BY <1>2, <1>3, <1>4
<1>6. /\ \A i \in DOMAIN s : i \in DOMAIN j.out /\ j.out[i] = s[i]
      /\ \A i \in DOMAIN t : i + Len(s) \in DOMAIN j.out /\ j.out[i + Len(s)] = t[i]
    BY <1>2, <1>3, <1>4
<1>7. Proper(j)
    <2>1. ASSUME NEW i \in DOMAIN j.out, j.out[i].kind = "Dis", j.out[i].sent
          PROVE  i = Len(j.out) /\ j.res = "DISCONNECTED"
        <3>1. \A k \in DOMAIN s : ~(s[k].kind = "Dis" /\ s[k].sent)
            BY DEF Proper, s
        <3>2. i - Len(s) \in DOMAIN t /\ j.out[i] = t[i - Len(s)]
            BY <1>5, <2>1, <3>1
        <3>3. i - Len(s) = Len(t) /\ n.res = "DISCONNECTED"
            BY <2>1, <3>2 DEF Proper, t
        <3> QED
            BY <1>2, <1>3, <1>4, <3>3
    <2> QED
        BY <1>3, <2>1 DEF Proper
<1>8. ControlOnly(o) /\ ControlOnly(n) => ControlOnly(j)
    BY <1>5 DEF ControlOnly, s, t
<1>9. ASSUME NEW c \in Nat \ {0}, ControlOnly(o), Answered(n, c)
      PROVE  Answered(j, c)
    <2>1. \A i \in DOMAIN s : s[i].channel = 0
        BY <1>9 DEF ControlOnly, s, ControlChannel
    <2>2. \A i \in DOMAIN j.out : j.out[i].channel = c =>
             i - Len(s) \in DOMAIN t /\ j.out[i] = t[i - Len(s)]
        BY <1>5, <2>1
    <2>3. ASSUME NEW i \in DOMAIN j.out, NEW k \in DOMAIN j.out,
                 j.out[i].channel = c, j.out[k].channel = c
          PROVE  i = k
        <3>1. i - Len(s) = k - Len(s)
            BY <1>9, <2>2, <2>3 DEF Answered, t
        <3> QED
            BY <1>2, <1>4, <3>1
    <2>4. \A i \in DOMAIN j.out : j.out[i].channel \in {ControlChannel, c}
        BY <1>5, <1>9 DEF ControlOnly, Answered, s, t
    <2>5. j.res = "OK" => \E i \in DOMAIN j.out : j.out[i].channel = c
        BY <1>3, <1>6, <1>9 DEF Answered, t
    <2> QED
        BY <1>3, <1>9, <2>3, <2>4, <2>5 DEF Answered
<1>10. ASSUME NEW c \in Nat \ {0}, Answered(o, c), ControlOnly(n),
              n.res \notin {"OK", "MESSAGE_UNKNOWN"}
       PROVE  Answered(j, c)
    <2>1. \A i \in DOMAIN t : t[i].channel = 0
        BY <1>10 DEF ControlOnly, t, ControlChannel
    <2>2. \A i \in DOMAIN j.out : j.out[i].channel = c =>
             i \in DOMAIN s /\ j.out[i] = s[i]
        BY <1>5, <2>1
    <2>3. \A i, k \in DOMAIN j.out :
             j.out[i].channel = c /\ j.out[k].channel = c => i = k
        BY <1>10, <2>2 DEF Answered, s
    <2>4. \A i \in DOMAIN j.out : j.out[i].channel \in {ControlChannel, c}
        BY <1>5, <1>10 DEF ControlOnly, Answered, s, t
    <2> QED
        BY <1>3, <1>10, <2>3, <2>4 DEF Answered
<1>11. /\ Proper(j)
       /\ j.res = n.res
       /\ ControlOnly(o) /\ ControlOnly(n) => ControlOnly(j)
       /\ \A c \in Nat \ {0} : ControlOnly(o) /\ Answered(n, c) => Answered(j, c)
       /\ \A c \in Nat \ {0} :
             Answered(o, c) /\ ControlOnly(n)
               /\ n.res \notin {"OK", "MESSAGE_UNKNOWN"}
                 => Answered(j, c)
    BY <1>3, <1>7, <1>8, <1>9, <1>10
<1> QED
    BY <1>11 DEF j, s, t

\* Two parts of which the second is run when the first succeeded.
LEMMA ThenOutcomes ==
    ASSUME NEW first, NEW second,
           \A o \in first : Proper(o), \A o \in second : Proper(o)
    PROVE  /\ \A o \in Then(first, second) : Proper(o)
           /\ (\A o \in first : ControlOnly(o)) /\ (\A o \in second : ControlOnly(o)) =>
                 \A o \in Then(first, second) : ControlOnly(o)
           /\ \A c \in Nat \ {0} :
                 /\ \A o \in first : ControlOnly(o) /\ o.res # "MESSAGE_UNKNOWN"
                 /\ \A o \in second : Answered(o, c)
                 => \A o \in Then(first, second) : Answered(o, c)
<1>1. ASSUME NEW x \in Then(first, second)
      PROVE  \/ x \in first /\ x.res # "OK"
             \/ \E o \in first, n \in second :
                   o.res = "OK" /\ x = Outcome(n.res, o.out \o n.out)
    BY <1>1 DEF Then
<1>2. \A x \in Then(first, second) : Proper(x)
    BY <1>1, Joined
<1>3. ASSUME \A o \in first : ControlOnly(o), \A o \in second : ControlOnly(o),
             NEW x \in Then(first, second)
      PROVE  ControlOnly(x)
    BY <1>1, <1>3, Joined
<1>4. ASSUME NEW c \in Nat \ {0},
             \A o \in first : ControlOnly(o) /\ o.res # "MESSAGE_UNKNOWN",
             \A o \in second : Answered(o, c),
             NEW x \in Then(first, second)
      PROVE  Answered(x, c)
    <2>1. CASE x \in first /\ x.res # "OK"
        <3>1. /\ \A i \in DOMAIN x.out : x.out[i].channel = 0
              /\ x.res # "MESSAGE_UNKNOWN"
            BY <1>4, <2>1 DEF ControlOnly, ControlChannel
        <3> QED
            BY <1>4, <2>1, <3>1 DEF Answered, ControlChannel
    <2>2. CASE \E o \in first, n \in second :
                  o.res = "OK" /\ x = Outcome(n.res, o.out \o n.out)
        BY <1>4, <2>2, Joined
    <2> QED
        BY <1>1, <2>1, <2>2
<1> QED
    BY <1>2, <1>3, <1>4

\* A disconnect is the last message and reported if it was sent.
LEMMA DisconnectOutcomes ==
    \A o \in opdi_disconnect : Proper(o) /\ ControlOnly(o) /\ o.res # "MESSAGE_UNKNOWN"
<1> SUFFICES ASSUME NEW o \in opdi_disconnect
             PROVE  Proper(o) /\ ControlOnly(o) /\ o.res # "MESSAGE_UNKNOWN"
    OBVIOUS
<1>1. PICK sent \in BOOLEAN :
         /\ o.out = <<Message(ControlChannel, "Dis", sent)>>
         /\ o.res = IF sent THEN "DISCONNECTED" ELSE "DEVICE_ERROR"
    <2>1. CASE o = Outcome("DISCONNECTED", <<Message(ControlChannel, "Dis", TRUE)>>)
        BY <2>1 DEF Outcome
    <2>2. CASE o = Outcome("DEVICE_ERROR", <<Message(ControlChannel, "Dis", FALSE)>>)
        BY <2>2 DEF Outcome
    <2> QED
        BY <2>1, <2>2 DEF opdi_disconnect
<1> DEFINE m == Message(ControlChannel, "Dis", sent)
<1>2. m \in Sent /\ m.channel = ControlChannel /\ m.sent = sent
    BY DEF Message, Sent, ControlChannel
<1> HIDE DEF m
<1>3. Proper(o) /\ DOMAIN o.out = {1} /\ o.out[1].channel = ControlChannel
    <2>1. o.out = <<m>> /\ o.res \in Status
        BY <1>1 DEF m, Status
    <2>2. m.sent = FALSE \/ o.res = "DISCONNECTED"
        BY <1>1, <1>2
    <2> QED
        BY <1>2, <2>1, <2>2, SingleMessage
<1> QED
    BY <1>1, <1>3 DEF ControlOnly

\* An error report joins what was sent before the failure.
LEMMA ErrorReported ==
    ASSUME NEW x, Proper(x), x.res \notin {"OK", "DISCONNECTED", "MESSAGE_UNKNOWN"}
    PROVE  \A o \in send_error(x) :
              /\ Proper(o)
              /\ o.res \notin {"OK", "MESSAGE_UNKNOWN"}
              /\ \A c \in Nat \ {0} : Answered(x, c) => Answered(o, c)
<1> SUFFICES ASSUME NEW o \in send_error(x)
             PROVE  /\ Proper(o)
                    /\ o.res \notin {"OK", "MESSAGE_UNKNOWN"}
                    /\ \A c \in Nat \ {0} : Answered(x, c) => Answered(o, c)
    OBVIOUS
<1>1. PICK sent \in BOOLEAN, res \in {x.res, "DEVICE_ERROR"} :
         o = Outcome(res, x.out \o <<Message(ControlChannel, "Err", sent)>>)
    BY DEF send_error
<1> DEFINE m == Message(ControlChannel, "Err", sent)
           n == Outcome(res, <<m>>)
<1>2. m \in Sent /\ m.channel = ControlChannel /\ m.kind # "Dis"
    BY DEF Message, Sent, ControlChannel
<1>3. n.out = <<m>> /\ n.res = res /\ res \in Status
    BY DEF Outcome, Status, Proper
<1>4. o = Outcome(n.res, x.out \o n.out)
    BY <1>1, <1>3
<1> HIDE DEF m, n
<1>5. Proper(n) /\ DOMAIN n.out = {1} /\ n.out[1].channel = ControlChannel
    BY <1>2, <1>3, SingleMessage
<1>6. ControlOnly(n) /\ n.res \notin {"OK", "MESSAGE_UNKNOWN"}
    BY <1>3, <1>5 DEF ControlOnly
<1> QED
    BY <1>4, <1>5, <1>6, Joined

\* What handle_message_result makes of a handler's outcome.
LEMMA ResultHandled ==
    ASSUME NEW x, Proper(x)
    PROVE  \A o \in handle_message_result(x) :
              /\ Proper(o)
              /\ \A c \in Nat \ {0} : Answered(x, c) => Answered(o, c)
<1>1. CASE x.res = "MESSAGE_UNKNOWN"
    <2>1. handle_message_result(x) = {Outcome("OK", x.out)}
        BY <1>1 DEF handle_message_result
    <2>2. Proper(Outcome("OK", x.out))
        BY <1>1 DEF Proper, Outcome, Status
    <2> QED
        BY <1>1, <2>1, <2>2 DEF Answered
<1>2. CASE x.res \in {"OK", "DISCONNECTED"}
    <2>1. handle_message_result(x) = {x}
        BY <1>2 DEF handle_message_result
    <2> QED
        BY <2>1
<1>3. CASE x.res \notin {"OK", "DISCONNECTED", "MESSAGE_UNKNOWN"}
    <2>1. handle_message_result(x) = send_error(x)
        BY <1>3 DEF handle_message_result
    <2> QED
        BY <1>3, <2>1, ErrorReported
<1> QED
    BY <1>1, <1>2, <1>3

-----------------------------------------------------------------------------
(* The request handlers                                                    *)

\* Every outcome of a request is proper and an answer to it.
Serves(outcomes, channel) == \A o \in outcomes : Proper(o) /\ Answered(o, channel)

\* A refusal sends nothing yet.
LEMMA RefusedServes == \A c : Serves(Refused, c) /\ \A o \in Refused : ControlOnly(o)
<1>1. Refused = {Outcome("PROTOCOL_ERROR", <<>>)}
    BY DEF Refused, Fail
<1> QED
    BY <1>1, NoMessages DEF Serves, Status

\* gDC, gPI, gSL and the queries of states answer on the channel of the request.
LEMMA QueriesServe ==
    ASSUME NEW c \in Nat \ {0}
    PROVE  Serves(QueryOutcomes(c), c) /\ Serves(StateOutcomes(c), c)
<1>1. c \in Nat /\ c # ControlChannel
    BY DEF ControlChannel
<1>2. Serves(Send(c, "Reply"), c)
    BY <1>1, SendOutcomes DEF Serves
<1>3. Serves(SendIgnored(c, "Err"), c) /\ Serves(SendIgnored(c, "NOK"), c)
    BY <1>1, SendIgnoredOutcomes DEF Serves
<1> QED
    BY <1>2, <1>3, RefusedServes DEF QueryOutcomes, StateOutcomes, Serves

\* Whatever a setter of the device sends goes to the control channel.
LEMMA SettersControlOnly ==
    \A o \in SetterOutcomes : Proper(o) /\ ControlOnly(o) /\ o.res # "MESSAGE_UNKNOWN"
<1>1. ControlChannel \in Nat
    BY DEF ControlChannel
<1>2. \A o \in SendIgnored(ControlChannel, "Ref") :
         Proper(o) /\ ControlOnly(o) /\ o.res # "MESSAGE_UNKNOWN"
    BY <1>1, SendIgnoredOutcomes
<1>3. \A o \in Send(ControlChannel, "Debug") :
         Proper(o) /\ ControlOnly(o) /\ o.res # "MESSAGE_UNKNOWN"
    BY <1>1, SendOutcomes
<1>4. LET o == Outcome("OK", <<>>)
      IN Proper(o) /\ ControlOnly(o) /\ o.res # "MESSAGE_UNKNOWN"
    BY NoMessages DEF Status
<1>5. \A o \in Refused : Proper(o) /\ ControlOnly(o) /\ o.res # "MESSAGE_UNKNOWN"
    BY RefusedServes DEF Serves, Answered
<1> QED
    BY <1>2, <1>3, <1>4, <1>5, DisconnectOutcomes DEF SetterOutcomes

\* Setting a state answers once although the setter may send, and switching the menu
\* answers once although the master is asked to reconfigure first.
LEMMA SettingServes ==
    ASSUME NEW c \in Nat \ {0}
    PROVE  Serves(SetOutcomes(c), c) /\ Serves(SwitchOutcomes(c), c)
<1>1. Serves(StateOutcomes(c), c)
    BY QueriesServe
<1>2. Serves(Then(SetterOutcomes, StateOutcomes(c)), c)
    BY <1>1, SettersControlOnly, ThenOutcomes DEF Serves
<1>3. \A o \in SendIgnored(ControlChannel, "Reconf") :
         Proper(o) /\ ControlOnly(o) /\ o.res # "MESSAGE_UNKNOWN"
    <2>1. ControlChannel \in Nat
        BY DEF ControlChannel
    <2> QED
        BY <2>1, SendIgnoredOutcomes
<1>4. Serves(Then(SendIgnored(ControlChannel, "Reconf"), StateOutcomes(c)), c)
    BY <1>1, <1>3, ThenOutcomes DEF Serves
<1> QED
    BY <1>2, <1>4, RefusedServes DEF SetOutcomes, SwitchOutcomes, Serves

\* A binding is confirmed, refused on the channel of the request, or reported.
LEMMA BindingServes ==
    ASSUME NEW c \in Nat \ {0}, NEW p, NEW b
    PROVE  Serves(BindOutcomes(c, p, b), c) /\ Serves(UnbindOutcomes(c, p), c)
<1>1. c \in Nat /\ c # ControlChannel
    BY DEF ControlChannel
<1>2. Serves(Send(c, "OK"), c) /\ Serves(Send(c, "NOK"), c)
    BY <1>1, SendOutcomes DEF Serves
<1>3. \A s \in {"CHANNEL_INVALID", "WRONG_PORT_TYPE"} : Serves(Fail(s), c)
    BY NoMessages DEF Serves, Fail, Status
<1>4. BindStatus(p, b) \in {"OK", "TOO_MANY_BINDINGS", "CHANNEL_INVALID",
                            "WRONG_PORT_TYPE"}
    BY DEF BindStatus
<1>5. Serves(BindOutcomes(c, p, b), c)
    BY <1>2, <1>3, <1>4 DEF BindOutcomes
<1>6. Serves(UnbindOutcomes(c, p), c)
    BY <1>2, <1>3 DEF UnbindOutcomes, UnbindStatus
<1> QED
    BY <1>5, <1>6

\* An unknown message and data on a bound channel.
LEMMA OtherMessages ==
    ASSUME NEW c \in Nat \ {0}
    PROVE  /\ \A o \in Fail("MESSAGE_UNKNOWN") : Proper(o)
           /\ \A o \in Fail("MESSAGE_UNKNOWN") \cup QueryOutcomes(c) : Proper(o)
<1>1. \A o \in Fail("MESSAGE_UNKNOWN") : Proper(o)
    BY NoMessages DEF Fail, Status
<1> QED
    BY <1>1, QueriesServe DEF Serves

\* The host ends a session without user activity, and no other.
LEMMA ControlHandled ==
    \A o \in ControlOutcomes :
        /\ Proper(o)
        /\ o.res # "OK" => sPortBinds = <<>> /\ idle > IdleLimit
<1>1. CASE sPortBinds = <<>> /\ idle > IdleLimit
    <2> DEFINE S == Then(Send(ControlChannel, "Debug"), opdi_disconnect)
    <2>1. ControlChannel \in Nat
        BY DEF ControlChannel
    <2>2. \A o \in S : Proper(o)
        BY <2>1, SendOutcomes, DisconnectOutcomes, ThenOutcomes
    <2>3. ControlOutcomes = UNION {handle_message_result(o) : o \in S}
        BY <1>1 DEF ControlOutcomes
    <2> QED
        BY <1>1, <2>2, <2>3, ResultHandled
<1>2. CASE ~(sPortBinds = <<>> /\ idle > IdleLimit)
    <2>1. ControlOutcomes = {Outcome("OK", <<>>)}
        BY <1>2 DEF ControlOutcomes
    <2> QED
        BY <2>1, NoMessages DEF Status
<1> QED
    BY <1>1, <1>2

-----------------------------------------------------------------------------
(* Steps of the message loop                                               *)

\* Requests come on channels other than the control channel.
LEMMA Channels20 == RequestChannel \subseteq Nat \ {0} /\ BindChannel \subseteq Nat \ {0}
    BY SessionAssumption, PortAssumption
    DEF SessionAssumption, PortAssumption, RequestChannel

\* Every request is one call of its handler, and every handler that is asked for an
\* answer gives it.
LEMMA RequestHandled ==
    ASSUME NEW c \in Nat \ {0}, Request(c) \/ StreamData(c)
    PROVE  \E kind \in {"query", "get", "set", "unknown", "bSP", "uSP", "data"} : \E S :
              /\ HandleRequest(c, kind, S)
              /\ \A o \in S : Proper(o)
              /\ kind \notin {"unknown", "data"} => Serves(S, c)
<1>1. CASE Query(c)
    BY <1>1, QueriesServe DEF Query, Serves
<1>2. CASE GetState(c)
    BY <1>2, QueriesServe DEF GetState, Serves
<1>3. CASE SetState(c)
    BY <1>3, SettingServes DEF SetState, Serves
<1>4. CASE \E i \in DOMAIN Menu : SwitchMenu(c, Menu[i])
    BY <1>4, SettingServes DEF SwitchMenu, Serves
<1>5. CASE Unknown(c)
    BY <1>5, OtherMessages DEF Unknown
<1>6. CASE \E p \in Port, b \in BindChannel \cup {0} : BindStreamingPort(c, p, b)
    BY <1>6, BindingServes DEF BindStreamingPort, Serves
<1>7. CASE \E p \in Port : UnbindStreamingPort(c, p)
    BY <1>7, BindingServes DEF UnbindStreamingPort, Serves
<1>8. CASE StreamData(c)
    BY <1>8, OtherMessages DEF StreamData
<1> QED
    BY <1>1, <1>2, <1>3, <1>4, <1>5, <1>6, <1>7, <1>8 DEF Request

\* The loop goes on or the session ends, whatever a handler returned.
LEMMA Finished ==
    ASSUME StageInv, stage = "Running", NEW o, Proper(o), Finish(o),
           UNCHANGED loopVars, idle' \in Nat, userIdle' \in Nat,
           o.res = "OK" => idle' <= userIdle'
    PROVE  /\ StageInv'
           /\ result' = o.res /\ out' = o.out
           /\ stage' = IF o.res = "OK" THEN "Running" ELSE "Listening"
           /\ NothingAfterDisconnect'
<1>1. /\ result' = o.res /\ out' = o.out
      /\ stage' = IF o.res = "OK" THEN "Running" ELSE "Listening"
      /\ o.res # "OK" => connected' = FALSE /\ protocolState' = "DISCONNECTED"
      /\ o.res = "OK" => UNCHANGED <<connected, protocolState>>
    BY DEF Finish, EndSession
<1>2. SessionTypes'
    BY <1>1 DEF StageInv, SessionTypes, loopVars, Stage
<1>3. ConnectedIffRunning' /\ LongTimeoutOnlyForAuth' /\ IdleInv'
    <2>1. ConnectedIffRunning'
        <3>1. CASE o.res = "OK"
            BY <1>1, <3>1 DEF StageInv, ConnectedIffRunning
        <3>2. CASE o.res # "OK"
            BY <1>1, <3>2 DEF ConnectedIffRunning
        <3> QED
            BY <3>1, <3>2
    <2>2. LongTimeoutOnlyForAuth'
        BY <1>1 DEF StageInv, LongTimeoutOnlyForAuth, loopVars
    <2>3. IdleInv'
        BY <1>1 DEF IdleInv, AfterReply
    <2> QED
        BY <2>1, <2>2, <2>3
<1>4. EncryptionAsAnnounced' /\ FlagsInv'
    BY <1>1 DEF StageInv, EncryptionAsAnnounced, FlagsInv, AfterReply, loopVars
<1>5. AuthenticatedWhenRequired'
    BY <1>1 DEF StageInv, AuthenticatedWhenRequired, loopVars
<1>6. NothingAfterDisconnect'
    BY <1>1 DEF Proper, NothingAfterDisconnect
<1> QED
    BY <1>1, <1>2, <1>3, <1>4, <1>5, <1>6 DEF StageInv

\* A handled request: the clocks, and what Finished says.
LEMMA RequestFinished ==
    ASSUME StageInv, NEW c \in Nat \ {0}, NEW kind, NEW S, \A o \in S : Proper(o),
           HandleRequest(c, kind, S)
    PROVE  /\ StageInv'
           /\ result' \in Status
           /\ stage = "Running" /\ stage' \in {"Running", "Listening"}
           /\ received' = [channel |-> c, kind |-> kind]
           /\ NothingAfterDisconnect'
           /\ \E o : /\ out' = o.out /\ Proper(o)
                     /\ stage' = "Running" => o.res = "OK"
                     /\ Serves(S, c) => Answered(o, c)
<1>1. PICK x \in S : \E o \in handle_message_result(x) :
         /\ Finish(o)
         /\ idle' = IF o.res = "OK" THEN Activity(c) ELSE idle
    BY DEF HandleRequest
<1>2. PICK o \in handle_message_result(x) :
         /\ Finish(o)
         /\ idle' = IF o.res = "OK" THEN Activity(c) ELSE idle
    BY <1>1
<1>3. Proper(o) /\ (Answered(x, c) => Answered(o, c))
    BY ResultHandled
<1>4. Activity(c) = 0
    BY DEF Activity, ControlChannel
<1>5. idle \in Nat /\ userIdle \in Nat
    BY DEF StageInv, SessionTypes
<1>6. idle' \in Nat /\ (o.res = "OK" => idle' = 0)
    BY <1>2, <1>4, <1>5
<1>7. userIdle' \in Nat
    BY <1>5 DEF HandleRequest
<1>8. o.res = "OK" => idle' <= userIdle'
    BY <1>6, <1>7
<1>9. stage = "Running" /\ UNCHANGED loopVars
      /\ received' = [channel |-> c, kind |-> kind]
    BY DEF HandleRequest
<1>10. /\ StageInv'
       /\ result' = o.res /\ out' = o.out
       /\ stage' = IF o.res = "OK" THEN "Running" ELSE "Listening"
       /\ NothingAfterDisconnect'
    BY <1>2, <1>3, <1>6, <1>7, <1>8, <1>9, Finished
<1>11. result' \in Status /\ stage' \in {"Running", "Listening"}
    BY <1>3, <1>10 DEF Proper
<1>12. Serves(S, c) => Answered(o, c)
    BY <1>3 DEF Serves
<1> QED
    BY <1>3, <1>9, <1>10, <1>11, <1>12

-----------------------------------------------------------------------------
(* The stages of a connection                                              *)

\* The functions that are told the type of every field.
LEMMA FlagTypes ==
    /\ NoFlags \in MasterFlags
    /\ \A d \in Device :
          /\ d \in DeviceType
          /\ d.encryptionRequired => ~d.noEncryption /\ ~d.encryptionNotAllowed
    /\ \A f \in MasterFlags : f \in FlagsType
    /\ \A m \in HandshakeMessage :
          /\ m.channel \in Nat /\ m.flags \in MasterFlags
          /\ m.valid \in BOOLEAN /\ m.methodListed \in BOOLEAN
<1>1. SyncChannel \subseteq Nat /\ NoFlags \in MasterFlags
    BY SessionAssumption DEF SessionAssumption
<1>2. ASSUME NEW m \in HandshakeMessage
      PROVE  /\ m.channel \in Nat /\ m.flags \in MasterFlags
             /\ m.valid \in BOOLEAN /\ m.methodListed \in BOOLEAN
    <2>1. CASE m \in [channel : {ControlChannel}, valid : {TRUE}, flags : MasterFlags,
                      methodListed : BOOLEAN]
        <3>1. /\ m.channel = ControlChannel /\ m.flags \in MasterFlags
              /\ m.methodListed \in BOOLEAN
            BY <2>1
        <3>2. m.valid \in BOOLEAN
            BY <2>1, Zenon
        <3>3. m.channel \in Nat
            BY <3>1 DEF ControlChannel
        <3> QED
            BY <3>1, <3>2, <3>3, Zenon
    <2>2. CASE m \in [channel : {ControlChannel} \cup SyncChannel, valid : {FALSE},
                      flags : {NoFlags}, methodListed : {FALSE}]
        <3>1. m.channel \in {ControlChannel} \cup SyncChannel /\ m.flags = NoFlags
            BY <2>2
        <3>2. m.valid \in {FALSE} /\ m.methodListed \in {FALSE}
            BY <2>2, Zenon
        <3>3. m.channel \in Nat
            <4>1. ControlChannel \in Nat
                BY DEF ControlChannel
            <4> QED
                BY <1>1, <3>1, <4>1, Zenon
        <3> QED
            BY <1>1, <3>1, <3>3, <3>2, Zenon
    <2> QED
        BY <2>1, <2>2 DEF HandshakeMessage
<1>3. \A d \in Device :
         /\ d \in DeviceType
         /\ d.encryptionRequired => ~d.noEncryption /\ ~d.encryptionNotAllowed
    BY SessionAssumption DEF SessionAssumption
<1>4. \A f \in MasterFlags : f \in FlagsType
    BY SessionAssumption DEF SessionAssumption
<1> QED
    BY <1>1, <1>2, <1>3, <1>4

\* If a handshake is not refused, what is chosen satisfies both sides.
LEMMA ChoiceIsRight ==
    ASSUME dev \in Device, NEW m \in HandshakeMessage, Refusal(m) = "OK"
    PROVE  /\ ChooseEncryption(m) \in BOOLEAN
           /\ m.flags.encryptionRequired \/ dev.encryptionRequired => ChooseEncryption(m)
           /\ dev.encryptionNotAllowed \/ dev.noEncryption => ~ChooseEncryption(m)
<1>1. /\ dev.noEncryption \in BOOLEAN /\ dev.encryptionNotAllowed \in BOOLEAN
      /\ dev.encryptionRequired \in BOOLEAN
      /\ m.flags.encryptionRequired \in BOOLEAN
      /\ m.flags.encryptionNotAllowed \in BOOLEAN
      /\ m.methodListed \in BOOLEAN
    BY FlagTypes DEF DeviceType, FlagsType
<1>2. /\ ~(m.flags.encryptionRequired
           /\ (dev.noEncryption \/ dev.encryptionNotAllowed \/ ~m.methodListed))
      /\ ~(~m.flags.encryptionRequired /\ dev.encryptionRequired
           /\ (m.flags.encryptionNotAllowed \/ ~m.methodListed))
    BY <1>1 DEF Refusal
<1>3. dev.encryptionRequired => ~dev.noEncryption /\ ~dev.encryptionNotAllowed
    BY FlagTypes
<1> QED
    BY <1>1, <1>2, <1>3 DEF ChooseEncryption

\* A slave that was just started listens.
LEMMA InitStageInv == Init => StageInv
<1> SUFFICES ASSUME Init PROVE StageInv
    OBVIOUS
<1>1. SessionTypes
    BY FlagTypes DEF Init, SessionTypes, Stage
<1>2. ConnectedIffRunning /\ AuthenticatedWhenRequired /\ EncryptionAsAnnounced
    BY DEF Init, ConnectedIffRunning, AuthenticatedWhenRequired, EncryptionAsAnnounced
<1>3. FlagsInv /\ LongTimeoutOnlyForAuth /\ IdleInv
    BY DEF Init, FlagsInv, LongTimeoutOnlyForAuth, IdleInv, AfterReply
<1> QED
    BY <1>1, <1>2, <1>3 DEF StageInv

\* The handshake message: the encryption announced is the one both sides may have.
LEMMA HandshakeStage ==
    ASSUME StageInv, NEW m \in HandshakeMessage, RecvHandshake(m)
    PROVE  StageInv' /\ result' \in Status /\ stage' \in {"Listening", "AwaitSelect"}
<1>1. \/ /\ stage' = "Listening" /\ encryption' = encryption /\ result' \in Status
      \/ /\ stage' = "AwaitSelect" /\ m.valid /\ Refusal(m) = "OK"
         /\ encryption' = ChooseEncryption(m) /\ result' = "OK"
    <2>1. CASE ~m.valid
        BY <2>1 DEF RecvHandshake, Status
    <2>2. CASE m.valid /\ Refusal(m) # "OK"
        BY <2>2 DEF RecvHandshake, Refusal, Status
    <2>3. CASE m.valid /\ Refusal(m) = "OK"
        <3>1. PICK o \in Fail("FUNCTION_UNKNOWN") \cup Send(ControlChannel, "OPDI") :
                 /\ result' = o.res
                 /\ stage' = IF o.res = "OK" THEN "AwaitSelect" ELSE "Listening"
                 /\ encryption' = IF o.res = "OK" THEN ChooseEncryption(m) ELSE encryption
            BY <2>3 DEF RecvHandshake
        <3>2. o.res \in Status
            <4>1. CASE o \in Fail("FUNCTION_UNKNOWN")
                BY <4>1 DEF Fail, Outcome, Status
            <4>2. CASE o \in Send(ControlChannel, "OPDI")
                BY <4>2, SendOutcomes DEF ControlChannel, Status
            <4> QED
                BY <4>1, <4>2
        <3> QED
            BY <2>3, <3>1, <3>2
    <2> QED
        BY <2>1, <2>2, <2>3 DEF RecvHandshake
<1>2. /\ stage = "AwaitHandshake"
      /\ connected' = FALSE /\ protocolState' = "START_HANDSHAKE"
      /\ flags' = m.flags /\ useEncryption' = (m.valid /\ ChooseEncryption(m))
      /\ idle' = 0
      /\ UNCHANGED <<dev, messageTimeout, alive, authenticated, userIdle>>
    BY DEF RecvHandshake
<1>3. ChooseEncryption(m) \in BOOLEAN
    BY FlagTypes DEF ChooseEncryption, StageInv, SessionTypes, DeviceType
<1>4. stage' \in {"Listening", "AwaitSelect"} /\ result' \in Status
    BY <1>1 DEF Status
<1>5. SessionTypes'
    BY <1>1, <1>2, <1>3, FlagTypes DEF StageInv, SessionTypes, Stage
<1>6. ConnectedIffRunning' /\ AuthenticatedWhenRequired'
    BY <1>2, <1>4 DEF ConnectedIffRunning, AuthenticatedWhenRequired
<1>7. EncryptionAsAnnounced'
    BY <1>1, <1>2, <1>3 DEF EncryptionAsAnnounced
<1>8. FlagsInv'
    <2>1. CASE stage' = "Listening"
        BY <2>1 DEF FlagsInv, AfterReply
    <2>2. CASE stage' = "AwaitSelect"
        <3>1. /\ ChooseEncryption(m) \in BOOLEAN
              /\ m.flags.encryptionRequired \/ dev.encryptionRequired => ChooseEncryption(m)
              /\ dev.encryptionNotAllowed \/ dev.noEncryption => ~ChooseEncryption(m)
            BY <1>1, <2>2, ChoiceIsRight DEF StageInv, SessionTypes
        <3> QED
            BY <1>1, <1>2, <2>2, <3>1 DEF FlagsInv, AfterReply
    <2> QED
        BY <1>4, <2>1, <2>2
<1>9. LongTimeoutOnlyForAuth' /\ IdleInv'
    <2>1. LongTimeoutOnlyForAuth'
        BY <1>2, <1>4 DEF StageInv, LongTimeoutOnlyForAuth
    <2>2. IdleInv'
        BY <1>2 DEF StageInv, SessionTypes, IdleInv
    <2> QED
        BY <2>1, <2>2
<1> QED
    BY <1>4, <1>5, <1>6, <1>7, <1>8, <1>9 DEF StageInv

\* The choice of a protocol: only a device that requires no credentials starts the
\* session here.
LEMMA SelectStage ==
    ASSUME StageInv, NEW m \in SelectMessage, RecvSelect(m)
    PROVE  /\ StageInv' /\ result' \in Status
           /\ stage' \in {"Listening", "AwaitAuth", "Running"}
<1>0. /\ stage = "AwaitSelect" /\ messageTimeout = "message" /\ connected = FALSE
      /\ protocolState \in {"START_HANDSHAKE", "DISCONNECTED"}
    BY DEF RecvSelect, StageInv, SessionTypes, ConnectedIffRunning, LongTimeoutOnlyForAuth
<1>1. \/ /\ stage' = "Listening" /\ result' \in Status
         /\ UNCHANGED <<connected, protocolState, messageTimeout>>
      \/ /\ stage' = "AwaitAuth" /\ result' = "OK" /\ messageTimeout' = "authentication"
         /\ UNCHANGED <<connected, protocolState>>
      \/ /\ stage' = "Running" /\ result' = "OK" /\ ~dev.authenticationRequired
         /\ connected' = TRUE /\ protocolState' = "CONNECTED"
         /\ UNCHANGED messageTimeout
    <2>1. CASE SelectFailure(m) # "OK"
        <3>1. SelectFailure(m) \in Status
            BY DEF SelectFailure, Status
        <3> QED
            BY <2>1, <3>1 DEF RecvSelect, Abort
    <2>2. CASE SelectFailure(m) = "OK"
        <3>1. PICK o \in NameOutcomes :
                 \/ /\ o.res # "OK"
                    /\ Abort(o.res)
                    /\ UNCHANGED messageTimeout
                 \/ Abort("AUTH_NOT_SUPPORTED") /\ UNCHANGED messageTimeout
                 \/ /\ stage' = "AwaitAuth" /\ result' = "OK"
                    /\ messageTimeout' = "authentication"
                    /\ UNCHANGED <<connected, protocolState>>
                 \/ ~dev.authenticationRequired /\ StartSession /\ UNCHANGED messageTimeout
            BY <2>2, Zenon DEF RecvSelect
        <3>2. o.res \in Status
            <4>1. CASE o \in Fail("FUNCTION_UNKNOWN")
                BY <4>1 DEF Fail, Outcome, Status
            <4>2. CASE o \in Send(ControlChannel, "OK")
                BY <4>2, SendOutcomes DEF ControlChannel, Status
            <4> QED
                BY <4>1, <4>2 DEF NameOutcomes
        <3> QED
            BY <3>1, <3>2 DEF Abort, StartSession, Status
    <2> QED
        BY <2>1, <2>2
<1>2. UNCHANGED <<dev, encryption, flags, useEncryption, idle, alive, authenticated,
                  userIdle>>
    BY DEF RecvSelect
<1>3. stage' \in {"Listening", "AwaitAuth", "Running"} /\ result' \in Status
    BY <1>1 DEF Status
<1>4. SessionTypes'
    BY <1>0, <1>1, <1>2 DEF StageInv, SessionTypes, Stage
<1>5. ConnectedIffRunning'
    BY <1>0, <1>1 DEF ConnectedIffRunning
<1>6. AuthenticatedWhenRequired'
    BY <1>0, <1>1, <1>2 DEF AuthenticatedWhenRequired
<1>7. EncryptionAsAnnounced' /\ FlagsInv'
    BY <1>0, <1>2, <1>3 DEF StageInv, EncryptionAsAnnounced, FlagsInv, AfterReply
<1>8. LongTimeoutOnlyForAuth'
    BY <1>0, <1>1 DEF LongTimeoutOnlyForAuth
<1>9. IdleInv'
    BY <1>0, <1>2 DEF StageInv, IdleInv, AfterReply
<1> QED
    BY <1>3, <1>4, <1>5, <1>6, <1>7, <1>8, <1>9 DEF StageInv

\* The credentials: only accepted ones start the session, and the long timeout is
\* taken back before it is known whether they are.
LEMMA AuthStage ==
    ASSUME StageInv, NEW m \in AuthMessage, RecvAuth(m)
    PROVE  StageInv' /\ result' \in Status /\ stage' \in {"Listening", "Running"}
<1>0. /\ stage = "AwaitAuth" /\ connected = FALSE
      /\ protocolState \in {"START_HANDSHAKE", "DISCONNECTED"}
    BY DEF RecvAuth, StageInv, SessionTypes, ConnectedIffRunning
<1>1. \/ /\ stage' = "Listening" /\ result' \in Status
         /\ UNCHANGED <<connected, protocolState>>
      \/ /\ stage' = "Running" /\ result' = "OK" /\ m.kind = "Auth"
         /\ connected' = TRUE /\ protocolState' = "CONNECTED"
    <2>1. CASE ~Accepted(m)
        BY <2>1 DEF RecvAuth, Abort, Status
    <2>2. CASE Accepted(m)
        <3>1. PICK o \in Send(ControlChannel, "OK") :
                 IF o.res = "OK" THEN StartSession ELSE Abort(o.res)
            BY <2>2 DEF RecvAuth
        <3>2. o.res \in Status
            BY SendOutcomes DEF ControlChannel, Status
        <3> QED
            BY <2>2, <3>1, <3>2 DEF StartSession, Abort, Accepted
    <2> QED
        BY <2>1, <2>2
<1>2. /\ messageTimeout' = "message" /\ authenticated' = (m.kind = "Auth")
      /\ UNCHANGED <<dev, encryption, flags, useEncryption, idle, alive, userIdle>>
    BY DEF RecvAuth, RestoreTimeout
<1>3. stage' \in {"Listening", "Running"} /\ result' \in Status
    BY <1>1 DEF Status
<1>4. SessionTypes'
    BY <1>0, <1>1, <1>2 DEF StageInv, SessionTypes, Stage
<1>5. ConnectedIffRunning' /\ AuthenticatedWhenRequired'
    BY <1>0, <1>1, <1>2 DEF ConnectedIffRunning, AuthenticatedWhenRequired
<1>6. EncryptionAsAnnounced' /\ FlagsInv'
    BY <1>0, <1>2, <1>3 DEF StageInv, EncryptionAsAnnounced, FlagsInv, AfterReply
<1>7. LongTimeoutOnlyForAuth' /\ IdleInv'
    <2>1. LongTimeoutOnlyForAuth'
        BY <1>2, <1>3 DEF LongTimeoutOnlyForAuth
    <2>2. IdleInv'
        BY <1>0, <1>2 DEF StageInv, IdleInv, AfterReply
    <2> QED
        BY <2>1, <2>2
<1> QED
    BY <1>3, <1>4, <1>5, <1>6, <1>7 DEF StageInv

\* A keepalive, a disconnect or an error of the master.
LEMMA ControlStage ==
    ASSUME StageInv, NEW kind \in {"Dis", "Err", "ping"}, RecvControl(kind)
    PROVE  /\ StageInv' /\ result' \in Status /\ stage' \in {"Listening", "Running"}
           /\ stage = "Running" /\ received' = [channel |-> ControlChannel, kind |-> kind]
           /\ NothingAfterDisconnect' /\ IdleDisconnectJustified'
           /\ UNCHANGED <<listVars, bindVars, granted>>
           /\ \E o : Proper(o) /\ out' = o.out
<1>1. /\ stage = "Running" /\ received' = [channel |-> ControlChannel, kind |-> kind]
      /\ UNCHANGED <<listVars, bindVars, granted, userIdle>> /\ UNCHANGED loopVars
    BY DEF RecvControl
<1>2. idle \in Nat /\ userIdle \in Nat /\ idle <= userIdle /\ IdleLimit \in Nat
    BY <1>1, SessionAssumption
    DEF SessionAssumption, StageInv, SessionTypes, IdleInv, AfterReply
<1>3. PICK o : /\ Proper(o) /\ Finish(o)
               /\ kind = "ping" => o \in ControlOutcomes
    <2>1. CASE kind = "Dis"
        <3>1. Finish(Outcome("DISCONNECTED", <<>>))
            BY <2>1 DEF RecvControl
        <3> QED
            BY <2>1, <3>1, NoMessages DEF Status
    <2>2. CASE kind = "Err"
        <3>1. Finish(Outcome("DEVICE_ERROR", <<>>))
            BY <2>2 DEF RecvControl
        <3> QED
            BY <2>2, <3>1, NoMessages DEF Status
    <2>3. CASE kind = "ping"
        <3>1. PICK o \in ControlOutcomes : Finish(o)
            BY <2>3 DEF RecvControl
        <3> QED
            BY <3>1, ControlHandled
    <2> QED
        BY <2>1, <2>2, <2>3
<1>4. idle' \in {idle, 0}
    BY DEF RecvControl, Activity
<1>5. idle' \in Nat /\ userIdle' \in Nat /\ idle' <= userIdle'
    BY <1>1, <1>2, <1>4
<1>6. /\ StageInv'
      /\ result' = o.res /\ out' = o.out
      /\ stage' = IF o.res = "OK" THEN "Running" ELSE "Listening"
      /\ NothingAfterDisconnect'
    BY <1>1, <1>3, <1>5, Finished
<1>7. result' \in Status /\ stage' \in {"Listening", "Running"}
    BY <1>3, <1>6 DEF Proper
<1>8. IdleDisconnectJustified'
    <2>1. SUFFICES ASSUME received'.kind = "ping", stage' # "Running"
                   PROVE  userIdle' > IdleLimit /\ sPortBinds' = <<>>
        BY DEF IdleDisconnectJustified
    <2>2. o \in ControlOutcomes /\ o.res # "OK"
        BY <1>1, <1>3, <1>6, <2>1
    <2>3. sPortBinds = <<>> /\ idle > IdleLimit
        BY <2>2, ControlHandled
    <2> QED
        BY <1>1, <1>2, <2>3 DEF bindVars
<1> QED
    BY <1>1, <1>3, <1>6, <1>7, <1>8

\* No message: the host accepts a connection, a receive function fails, the host
\* streams, time passes or the master disappears.
LEMMA SilentStage ==
    ASSUME StageInv,
           Connect \/ ReceiveFails \/ StreamPorts \/ Tick \/ MasterGone
    PROVE  StageInv' /\ received' = NoMessage
<1>0. idle \in Nat /\ userIdle \in Nat /\ IdleLimit \in Nat
    BY SessionAssumption DEF SessionAssumption, StageInv, SessionTypes
<1> USE DEF StageInv
<1>1. CASE Connect
    <2>1. /\ stage = "Listening" /\ stage' = "AwaitHandshake" /\ encryption' = FALSE
          /\ alive' = TRUE /\ flags' = NoFlags /\ useEncryption' = FALSE
          /\ authenticated' = FALSE /\ userIdle' = 0
          /\ UNCHANGED <<dev, messageTimeout, connected, protocolState, idle>>
          /\ received' = NoMessage
        BY <1>1 DEF Connect, opdi_message_setup, NothingReceived
    <2>2. SessionTypes'
        BY <2>1, FlagTypes DEF SessionTypes, Stage
    <2>3. ConnectedIffRunning' /\ AuthenticatedWhenRequired' /\ EncryptionAsAnnounced'
        BY <2>1 DEF ConnectedIffRunning, AuthenticatedWhenRequired, EncryptionAsAnnounced
    <2>4. FlagsInv' /\ LongTimeoutOnlyForAuth' /\ IdleInv'
        BY <2>1 DEF FlagsInv, LongTimeoutOnlyForAuth, IdleInv, AfterReply
    <2> QED
        BY <2>1, <2>2, <2>3, <2>4
<1>2. CASE ReceiveFails
    <2>1. /\ stage' = "Listening" /\ messageTimeout' = "message"
          /\ UNCHANGED <<dev, encryption, flags, useEncryption, idle, alive,
                         authenticated, userIdle>>
          /\ received' = NoMessage
        BY <1>2 DEF ReceiveFails, EndSession, Abort, RestoreTimeout, NothingReceived
    <2>2. connected' = FALSE /\ protocolState' \in {"START_HANDSHAKE", "DISCONNECTED"}
        BY <1>2 DEF ReceiveFails, EndSession, Abort, ConnectedIffRunning, SessionTypes
    <2>3. SessionTypes'
        BY <2>1, <2>2 DEF SessionTypes, Stage
    <2>4. ConnectedIffRunning' /\ AuthenticatedWhenRequired' /\ EncryptionAsAnnounced'
        BY <2>1, <2>2
        DEF ConnectedIffRunning, AuthenticatedWhenRequired, EncryptionAsAnnounced
    <2>5. FlagsInv' /\ LongTimeoutOnlyForAuth' /\ IdleInv'
        BY <2>1 DEF FlagsInv, LongTimeoutOnlyForAuth, IdleInv, AfterReply
    <2> QED
        BY <2>1, <2>3, <2>4, <2>5
<1>3. CASE StreamPorts \/ MasterGone
    <2>1. /\ UNCHANGED <<dev, stage, encryption, messageTimeout, connected, flags,
                         useEncryption, protocolState, idle, authenticated, userIdle>>
          /\ alive' \in {alive, FALSE} /\ received' = NoMessage
        BY <1>3 DEF StreamPorts, MasterGone, NothingReceived
    <2>2. SessionTypes'
        BY <2>1 DEF SessionTypes
    <2>3. ConnectedIffRunning' /\ AuthenticatedWhenRequired' /\ EncryptionAsAnnounced'
        BY <2>1 DEF ConnectedIffRunning, AuthenticatedWhenRequired, EncryptionAsAnnounced
    <2>4. FlagsInv' /\ LongTimeoutOnlyForAuth' /\ IdleInv'
        BY <2>1 DEF FlagsInv, LongTimeoutOnlyForAuth, IdleInv, AfterReply
    <2> QED
        BY <2>1, <2>2, <2>3, <2>4
<1>4. CASE Tick
    <2>1. /\ UNCHANGED <<dev, stage, encryption, messageTimeout, connected, flags,
                         useEncryption, protocolState, alive, authenticated>>
          /\ received' = NoMessage
          /\ stage = "Running" /\ idle <= IdleLimit /\ idle' = idle + 1
          /\ userIdle' = IF userIdle <= IdleLimit THEN userIdle + 1 ELSE userIdle
        BY <1>4 DEF Tick, NothingReceived
    <2>2. idle <= userIdle
        BY <2>1 DEF IdleInv, AfterReply
    <2>3. idle' \in Nat /\ userIdle' \in Nat /\ idle' <= userIdle'
        BY <1>0, <2>1, <2>2
    <2>4. SessionTypes' /\ IdleInv'
        BY <2>1, <2>3 DEF SessionTypes, IdleInv
    <2>5. ConnectedIffRunning' /\ AuthenticatedWhenRequired' /\ EncryptionAsAnnounced'
        BY <2>1 DEF ConnectedIffRunning, AuthenticatedWhenRequired, EncryptionAsAnnounced
    <2>6. FlagsInv' /\ LongTimeoutOnlyForAuth'
        BY <2>1 DEF FlagsInv, LongTimeoutOnlyForAuth, AfterReply
    <2> QED
        BY <2>1, <2>4, <2>5, <2>6
<1> QED
    BY <1>1, <1>2, <1>3, <1>4

-----------------------------------------------------------------------------
(* The registry and the granted bindings                                   *)

\* A step that leaves the port list and the bindings alone.
LEMMA SamePorts ==
    ASSUME PortInv, UNCHANGED <<listVars, bindVars>>, result' \in Status
    PROVE  PortInv'
    BY DEF PortInv, TableInv, ListInv, listVars, bindVars, TableWellFormed,
           ChannelIsBinding, BoundPortsListed, Listed

\* A step that replaces the port list after nothing is bound any more.
LEMMA NewPorts ==
    ASSUME PortInv, ClearBindings, result' \in Status, ports' \in Seq(Port),
           portCount' \in Nat
    PROVE  PortInv'
<1>1. TableInv' /\ sPortBinds' = <<>>
    BY ClearKeepsTable, ClearUnbinds DEF PortInv
<1> QED
    BY <1>1 DEF PortInv, ListInv, BoundPortsListed

\* A session that goes on, or starts with nothing bound, streams on what it streamed.
LEMMA SameStreams ==
    ASSUME StageInv, StreamInv, StageInv', UNCHANGED <<bindVars, granted>>,
           \/ stage' \in {stage, "Listening"}
           \/ stage \in {"AwaitSelect", "AwaitAuth"} /\ stage' \in {"AwaitAuth", "Running"}
    PROVE  StreamInv'
<1>1. connected' <=> stage' = "Running"
    BY DEF StageInv, ConnectedIffRunning
<1>2. connected <=> stage = "Running"
    BY DEF StageInv, ConnectedIffRunning
<1>3. stage' = "Running" =>
         stage = "Running" \/ \A p \in StreamingPort : spChannel[p] = Unbound
    BY DEF StreamInv
<1>4. StreamsAreGranted'
    BY <1>1, <1>2, <1>3 DEF StreamInv, StreamsAreGranted, bindVars
<1> QED
    BY <1>4 DEF StreamInv, bindVars

\* After everything was unbound nothing needs to have been granted.
LEMMA NoStreams ==
    ASSUME PortInv, ClearBindings, granted' \subseteq StreamingPort \X BindChannel
    PROVE  StreamInv'
<1>1. \A p \in StreamingPort : spChannel'[p] = Unbound
    BY ClearUnbinds DEF PortInv
<1> QED
    BY <1>1 DEF StreamInv, StreamsAreGranted

\* A binding request grants what it binds.
LEMMA BindStep ==
    ASSUME SessionInv, stage = "Running", result' \in Status, StageInv',
           stage' \in {"Running", "Listening"},
           NEW c, NEW p \in Port, NEW b \in BindChannel \cup {0},
           BindStreamingPort(c, p, b)
    PROVE  PortInv' /\ StreamInv'
<1>1. /\ p \in Listed /\ UNCHANGED listVars
      /\ IF SaneChannel(b) THEN BindEffect(p, b) ELSE UNCHANGED bindVars
      /\ granted' = IF SaneChannel(b) /\ BindStatus(p, b) = "OK"
                    THEN granted \cup {<<p, b>>} ELSE granted
    BY DEF BindStreamingPort
<1>2. CASE ~SaneChannel(b)
    <2>1. UNCHANGED <<listVars, bindVars>> /\ UNCHANGED <<bindVars, granted>>
        BY <1>1, <1>2 DEF bindVars
    <2> QED
        BY <2>1, SamePorts, SameStreams DEF SessionInv
<1>3. CASE SaneChannel(b)
    <2>1. b \in BindChannel
        BY <1>3 DEF SaneChannel
    <2>2. PortInv'
        <3>1. TableInv'
            BY <1>1, <1>3, <2>1, BindKeepsTable DEF SessionInv, PortInv
        <3>2. BoundPortsListed'
            BY <1>1, <1>3, <2>1, BindKeepsListed DEF SessionInv, PortInv, ListInv, listVars
        <3> QED
            BY <1>1, <3>1, <3>2 DEF SessionInv, PortInv, ListInv, listVars
    <2>3. BindStatus(p, b) = "OK" => p \in StreamingPort
        BY DEF BindStatus
    <2>4. granted' \subseteq StreamingPort \X BindChannel
        BY <1>1, <2>1, <2>3 DEF SessionInv, StreamInv
    <2>5. ASSUME NEW q \in StreamingPort, spChannel'[q] # Unbound
          PROVE  <<q, spChannel'[q]>> \in granted'
        <3>1. spChannel \in [StreamingPort -> BindChannel \cup {Unbound}]
            BY DEF SessionInv, PortInv, TableInv
        <3>2. \A r \in StreamingPort :
                 spChannel[r] # Unbound => <<r, spChannel[r]>> \in granted
            BY DEF SessionInv, StageInv, StreamInv, ConnectedIffRunning, StreamsAreGranted
        <3>3. granted \subseteq granted'
            BY <1>1
        <3>4. CASE BindStatus(p, b) = "OK" /\ BoundAt(b) = {}
            <4>1. spChannel' = [spChannel EXCEPT ![p] = b] /\ <<p, b>> \in granted'
                BY <1>1, <1>3, <3>4 DEF BindEffect
            <4>2. q # p => spChannel'[q] = spChannel[q]
                BY <3>1, <4>1
            <4>3. q = p => spChannel'[q] = b
                BY <3>1, <4>1
            <4> QED
                BY <2>5, <3>2, <3>3, <4>1, <4>2, <4>3
        <3>5. CASE UNCHANGED bindVars
            BY <2>5, <3>2, <3>3, <3>5 DEF bindVars
        <3> QED
            BY <1>1, <1>3, <3>4, <3>5 DEF BindEffect
    <2>6. StreamInv'
        BY <2>4, <2>5 DEF StreamInv, StreamsAreGranted
    <2> QED
        BY <2>2, <2>6
<1> QED
    BY <1>2, <1>3

\* An unbind request takes back what was granted to the port.
LEMMA UnbindStep ==
    ASSUME SessionInv, stage = "Running", result' \in Status, StageInv',
           stage' \in {"Running", "Listening"},
           NEW c, NEW p \in Port, UnbindStreamingPort(c, p)
    PROVE  PortInv' /\ StreamInv'
<1>1. /\ UNCHANGED listVars /\ UnbindEffect(p)
      /\ granted' = {g \in granted : g[1] # p}
    BY DEF UnbindStreamingPort
<1>2. PortInv'
    <2>1. TableInv'
        BY <1>1, UnbindKeepsTable DEF SessionInv, PortInv
    <2>2. BoundPortsListed'
        BY <1>1, UnbindKeepsListed DEF SessionInv, PortInv, ListInv, listVars
    <2> QED
        BY <1>1, <2>1, <2>2 DEF SessionInv, PortInv, ListInv, listVars
<1>3. /\ spChannel \in [StreamingPort -> BindChannel \cup {Unbound}]
      /\ spChannel' \in [StreamingPort -> BindChannel \cup {Unbound}]
    BY <1>2 DEF SessionInv, PortInv, TableInv
<1>4. ASSUME NEW q \in StreamingPort, spChannel'[q] # Unbound
      PROVE  q # p /\ spChannel'[q] = spChannel[q]
    <2>1. CASE p \in StreamingPort /\ SlotsOf(p) # {}
        BY <1>1, <1>3, <1>4, <2>1 DEF UnbindEffect
    <2>2. CASE ~(p \in StreamingPort /\ SlotsOf(p) # {})
        <3>1. UNCHANGED bindVars
            BY <1>1, <2>2 DEF UnbindEffect
        <3>2. q = p => FALSE
            <4>1. SUFFICES ASSUME q = p PROVE FALSE
                OBVIOUS
            <4>2. spChannel[p] # Unbound /\ SlotsOf(p) = {}
                BY <1>4, <2>2, <3>1, <4>1 DEF bindVars
            <4>3. PICK i \in DOMAIN sPortBinds :
                     sPortBinds[i] = [channel |-> spChannel[p], port |-> p]
                BY <4>1, <4>2 DEF SessionInv, PortInv, TableInv, ChannelIsBinding
            <4> QED
                BY <4>2, <4>3 DEF SlotsOf
        <3> QED
            BY <3>1, <3>2 DEF bindVars
    <2> QED
        BY <2>1, <2>2
<1>5. \A q \in StreamingPort : spChannel'[q] # Unbound => <<q, spChannel'[q]>> \in granted'
    BY <1>1, <1>4 DEF SessionInv, StageInv, StreamInv, ConnectedIffRunning, StreamsAreGranted
<1>6. StreamInv'
    BY <1>1, <1>5 DEF SessionInv, StreamInv, StreamsAreGranted
<1> QED
    BY <1>2, <1>6

-----------------------------------------------------------------------------
(* What a step sends                                                       *)

\* What NothingAfterDisconnect, AnsweredOnRequestChannel and IdleDisconnectJustified
\* say of the last step, and that it sent everything the way the session is encrypted.
LastInv == NothingAfterDisconnect /\ AnsweredOnRequestChannel /\ IdleDisconnectJustified
SentNow == \A i \in DOMAIN out' : out'[i].encrypted = encryption

\* Messages of a proper outcome are encrypted as the session is.
LEMMA ProperIsSent ==
    ASSUME NEW o, Proper(o)
    PROVE  \A i \in DOMAIN o.out : o.out[i].encrypted = encryption
<1>1. o.out \in Seq(Sent) /\ DOMAIN o.out = 1..Len(o.out)
    BY LenProperties DEF Proper
<1>2. \A i \in DOMAIN o.out : o.out[i] \in Sent
    BY <1>1, ElementOfSeq
<1> QED
    BY <1>2 DEF Sent

\* A step that neither handles a request or a keepalive nor disconnects.
LEMMA Spoke ==
    ASSUME NEW o, Proper(o), o.res # "DISCONNECTED", out' = o.out,
           received'.kind \notin {"query", "get", "set", "bSP", "uSP", "ping"}
    PROVE  LastInv' /\ SentNow
<1>1. NothingAfterDisconnect'
    BY DEF NothingAfterDisconnect, Proper
<1>2. AnsweredOnRequestChannel' /\ IdleDisconnectJustified'
    BY DEF AnsweredOnRequestChannel, IdleDisconnectJustified
<1> QED
    BY <1>1, <1>2, ProperIsSent DEF LastInv, SentNow

\* The refusals of the handshake and its replies; with encryption compiled in they go
\* to the control channel.
LEMMA HandshakeSends ==
    ASSUME NEW m \in HandshakeMessage, RecvHandshake(m)
    PROVE  \E o : /\ Proper(o) /\ o.res # "DISCONNECTED" /\ out' = o.out
                  /\ ~dev.noEncryption => ControlOnly(o)
<1>1. CASE ~m.valid
    <2>1. out' = Outcome("OK", <<>>).out
        BY <1>1 DEF RecvHandshake, Outcome
    <2> QED
        BY <2>1, NoMessages DEF Status
<1>2. CASE m.valid /\ Refusal(m) # "OK"
    <2>1. PICK o \in SendIgnored(RefusalChannel, "NOK") : out' = o.out
        BY <1>2 DEF RecvHandshake
    <2>2. RefusalChannel \in Nat /\ (~dev.noEncryption => RefusalChannel = ControlChannel)
        BY DEF RefusalChannel, EncryptionNotSupportedCode, ControlChannel
    <2> QED
        BY <2>1, <2>2, SendIgnoredOutcomes
<1>3. CASE m.valid /\ Refusal(m) = "OK"
    <2>1. PICK o \in Fail("FUNCTION_UNKNOWN") \cup Send(ControlChannel, "OPDI") :
             out' = o.out
        BY <1>3 DEF RecvHandshake
    <2>2. CASE o \in Fail("FUNCTION_UNKNOWN")
        BY <2>1, <2>2, NoMessages DEF Fail, Status
    <2>3. CASE o \in Send(ControlChannel, "OPDI")
        <3>1. ControlChannel \in Nat
            BY DEF ControlChannel
        <3> QED
            BY <2>1, <2>3, <3>1, SendOutcomes
    <2> QED
        BY <2>1, <2>2, <2>3
<1> QED
    BY <1>1, <1>2, <1>3 DEF RecvHandshake

\* The slave's name, and the refusal of builds without authentication, the only one
\* that is not sent on the control channel.
LEMMA SelectSends ==
    ASSUME NEW m \in SelectMessage, RecvSelect(m)
    PROVE  \E o : /\ Proper(o) /\ o.res # "DISCONNECTED" /\ out' = o.out
                  /\ ~dev.noAuthentication => ControlOnly(o)
<1>0. ControlChannel \in Nat
    BY DEF ControlChannel
<1>1. CASE SelectFailure(m) # "OK"
    <2>1. out' = Outcome("OK", <<>>).out
        BY <1>1 DEF RecvSelect, Outcome
    <2> QED
        BY <2>1, NoMessages DEF Status
<1>2. CASE SelectFailure(m) = "OK"
    <2>1. PICK o \in NameOutcomes :
             \/ out' = o.out
             \/ /\ dev.noAuthentication
                /\ \E n \in SendIgnored(AuthNotSupportedCode, "NOK") :
                      out' = o.out \o n.out
        BY <1>2, Zenon DEF RecvSelect
    <2>2. Proper(o) /\ ControlOnly(o) /\ o.res # "DISCONNECTED"
        <3>1. CASE o \in Fail("FUNCTION_UNKNOWN")
            BY <3>1, NoMessages DEF Fail, Status
        <3>2. CASE o \in Send(ControlChannel, "OK")
            BY <1>0, <3>2, SendOutcomes
        <3> QED
            BY <3>1, <3>2 DEF NameOutcomes
    <2>3. CASE out' = o.out
        BY <2>2, <2>3
    <2>4. CASE /\ dev.noAuthentication
               /\ \E n \in SendIgnored(AuthNotSupportedCode, "NOK") : out' = o.out \o n.out
        <3>1. PICK n \in SendIgnored(AuthNotSupportedCode, "NOK") : out' = o.out \o n.out
            BY <2>4
        <3>2. Proper(n) /\ n.res = "OK"
            <4>1. AuthNotSupportedCode \in Nat
                BY DEF AuthNotSupportedCode
            <4> QED
                BY <4>1, SendIgnoredOutcomes
        <3>3. LET j == Outcome(n.res, o.out \o n.out)
              IN Proper(j) /\ j.res = "OK" /\ out' = j.out
            BY <2>2, <3>1, <3>2, Joined DEF Outcome
        <3> QED
            BY <2>4, <3>3
    <2> QED
        BY <2>1, <2>3, <2>4
<1> QED
    BY <1>1, <1>2

\* What the slave makes of the credentials is said on the control channel.
LEMMA AuthSends ==
    ASSUME NEW m \in AuthMessage, RecvAuth(m)
    PROVE  \E o : Proper(o) /\ o.res # "DISCONNECTED" /\ out' = o.out /\ ControlOnly(o)
<1>0. ControlChannel \in Nat
    BY DEF ControlChannel
<1>1. CASE ~Accepted(m)
    <2>1. PICK o \in SendIgnored(ControlChannel, "NOK") : out' = o.out
        BY <1>1 DEF RecvAuth
    <2> QED
        BY <1>0, <2>1, SendIgnoredOutcomes
<1>2. CASE Accepted(m)
    <2>1. PICK o \in Send(ControlChannel, "OK") : out' = o.out
        BY <1>2 DEF RecvAuth
    <2> QED
        BY <1>0, <2>1, SendOutcomes
<1> QED
    BY <1>1, <1>2

\* One request has at most one answer, one that the session survives has one.
LEMMA RequestAnswered ==
    ASSUME NEW c \in Nat \ {0}, NEW o, Answered(o, c), out' = o.out,
           received'.channel = c, stage' = "Running" => o.res = "OK"
    PROVE  AnsweredOnRequestChannel'
<1> DEFINE answers == {i \in DOMAIN out' : out'[i].channel = c}
<1>1. \A i, j \in answers : i = j
    BY DEF Answered
<1>2. answers = {} \/ \E i : answers = {i}
    BY <1>1
<1>3. Cardinality(answers) <= 1
    <2>1. CASE answers = {}
        BY <2>1, FS_EmptySet
    <2>2. ASSUME NEW i, answers = {i}
          PROVE  Cardinality(answers) <= 1
        <3>1. Cardinality({i}) = 1
            BY FS_Singleton
        <3> HIDE DEF answers
        <3> QED
            BY <2>2, <3>1
    <2> QED
        BY <1>2, <2>1, <2>2
<1>4. stage' = "Running" => answers # {}
    BY DEF Answered
<1>5. \A i \in DOMAIN out' \ answers : out'[i].channel = ControlChannel
    BY DEF Answered
<1> QED
    BY <1>3, <1>4, <1>5 DEF AnsweredOnRequestChannel

-----------------------------------------------------------------------------
(* The invariant                                                           *)

\* A slave that has not listened yet satisfies the invariant.
LEMMA InitSessionInv == Init => SessionInv /\ LastInv
<1> SUFFICES ASSUME Init PROVE SessionInv /\ LastInv
    OBVIOUS
<1>1. PortInv /\ StageInv
    BY InitPortInv, InitStageInv DEF Init
<1>2. StreamInv
    BY DEF Init, PortInit, StreamInv, StreamsAreGranted
<1>3. LastInv
    BY DEF Init, LastInv, NothingAfterDisconnect, AnsweredOnRequestChannel,
           IdleDisconnectJustified, NoMessage
<1> QED
    BY <1>1, <1>2, <1>3 DEF SessionInv

\* A request keeps the registry, the stages and the granted bindings.
LEMMA RequestStep ==
    ASSUME SessionInv, NEW c \in Nat \ {0}, Request(c) \/ StreamData(c)
    PROVE  SessionInv' /\ LastInv' /\ SentNow
<1>1. PICK kind, S :
         /\ kind \in {"query", "get", "set", "unknown", "bSP", "uSP", "data"}
         /\ HandleRequest(c, kind, S)
         /\ \A o \in S : Proper(o)
         /\ kind \notin {"unknown", "data"} => Serves(S, c)
    BY RequestHandled
<1>2. /\ StageInv'
      /\ result' \in Status
      /\ stage = "Running" /\ stage' \in {"Running", "Listening"}
      /\ received' = [channel |-> c, kind |-> kind]
      /\ NothingAfterDisconnect'
      /\ \E o : /\ out' = o.out /\ Proper(o)
                /\ stage' = "Running" => o.res = "OK"
                /\ Serves(S, c) => Answered(o, c)
    BY <1>1, RequestFinished DEF SessionInv
<1>3. PICK o : /\ out' = o.out /\ Proper(o)
               /\ stage' = "Running" => o.res = "OK"
               /\ Serves(S, c) => Answered(o, c)
    BY <1>2
<1>4. PortInv' /\ StreamInv'
    <2>1. CASE UNCHANGED <<listVars, bindVars, granted>>
        <3>1. UNCHANGED <<listVars, bindVars>> /\ UNCHANGED <<bindVars, granted>>
            BY <2>1
        <3> QED
            BY <1>2, <3>1, SamePorts, SameStreams DEF SessionInv
    <2>2. ASSUME NEW i \in DOMAIN Menu, SwitchMenu(c, Menu[i])
          PROVE  PortInv' /\ StreamInv'
        <3>1. Menu[i] \in Seq(Port)
            BY SessionAssumption, ElementOfSeq DEF SessionAssumption
        <3>2. /\ ports' \in Seq(Port) /\ portCount' \in Nat
              /\ ClearBindings /\ granted' = {}
            BY <2>2, <3>1, LenProperties DEF SwitchMenu
        <3> QED
            BY <1>2, <3>2, NewPorts, NoStreams DEF SessionInv
    <2>3. ASSUME NEW p \in Port, NEW b \in BindChannel \cup {0},
                 BindStreamingPort(c, p, b)
          PROVE  PortInv' /\ StreamInv'
        BY <1>2, <2>3, BindStep
    <2>4. ASSUME NEW p \in Port, UnbindStreamingPort(c, p)
          PROVE  PortInv' /\ StreamInv'
        BY <1>2, <2>4, UnbindStep
    <2>5. CASE Query(c) \/ GetState(c) \/ SetState(c) \/ Unknown(c) \/ StreamData(c)
        <3>1. UNCHANGED <<listVars, bindVars, granted>>
            BY <2>5 DEF Query, GetState, SetState, Unknown, StreamData
        <3> QED
            BY <2>1, <3>1
    <2> QED
        BY <2>2, <2>3, <2>4, <2>5 DEF Request
<1>5. AnsweredOnRequestChannel'
    <2>1. CASE kind \in {"unknown", "data"}
        BY <1>2, <2>1 DEF AnsweredOnRequestChannel
    <2>2. CASE kind \notin {"unknown", "data"}
        <3>1. Answered(o, c) /\ received'.channel = c
            BY <1>1, <1>2, <1>3, <2>2
        <3> QED
            BY <1>3, <3>1, RequestAnswered
    <2> QED
        BY <2>1, <2>2
<1>6. IdleDisconnectJustified'
    BY <1>1, <1>2 DEF IdleDisconnectJustified
<1>7. SentNow
    BY <1>3, ProperIsSent DEF SentNow
<1> QED
    BY <1>2, <1>4, <1>5, <1>6, <1>7 DEF SessionInv, LastInv

\* So does a message of the handshake.
LEMMA HandshakeStep ==
    ASSUME SessionInv,
           \/ \E m \in HandshakeMessage : RecvHandshake(m)
           \/ \E m \in SelectMessage : RecvSelect(m)
           \/ \E m \in AuthMessage : RecvAuth(m)
    PROVE  SessionInv' /\ LastInv' /\ SentNow
<1>1. ASSUME NEW m \in HandshakeMessage, RecvHandshake(m)
      PROVE  SessionInv' /\ LastInv' /\ SentNow
    <2>1. StageInv' /\ result' \in Status
        BY <1>1, HandshakeStage DEF SessionInv
    <2>2. ClearBindings /\ UNCHANGED <<listVars, granted>> /\ received'.kind = "OPDI"
        BY <1>1 DEF RecvHandshake
    <2>3. ports' \in Seq(Port) /\ portCount' \in Nat
        BY <2>2 DEF SessionInv, PortInv, ListInv, listVars
    <2>4. granted' \subseteq StreamingPort \X BindChannel
        BY <2>2 DEF SessionInv, StreamInv
    <2>5. PortInv' /\ StreamInv'
        BY <2>1, <2>2, <2>3, <2>4, NewPorts, NoStreams DEF SessionInv
    <2>6. LastInv' /\ SentNow
        BY <1>1, <2>2, HandshakeSends, Spoke
    <2> QED
        BY <2>1, <2>5, <2>6 DEF SessionInv
<1>2. ASSUME NEW m \in SelectMessage, RecvSelect(m)
      PROVE  SessionInv' /\ LastInv' /\ SentNow
    <2>1. /\ StageInv' /\ result' \in Status
          /\ stage' \in {"Listening", "AwaitAuth", "Running"}
        BY <1>2, SelectStage DEF SessionInv
    <2>2. /\ stage = "AwaitSelect" /\ UNCHANGED <<listVars, bindVars, granted>>
          /\ received' = m
        BY <1>2 DEF RecvSelect
    <2>3. m.kind \in {"Dis", "Err", "BP", "EP", "malformed"}
        BY DEF SelectMessage
    <2>4. UNCHANGED <<listVars, bindVars>> /\ UNCHANGED <<bindVars, granted>>
        BY <2>2
    <2>5. PortInv' /\ StreamInv'
        BY <2>1, <2>2, <2>4, SamePorts, SameStreams DEF SessionInv
    <2>6. LastInv' /\ SentNow
        BY <1>2, <2>2, <2>3, SelectSends, Spoke
    <2> QED
        BY <2>1, <2>5, <2>6 DEF SessionInv
<1>3. ASSUME NEW m \in AuthMessage, RecvAuth(m)
      PROVE  SessionInv' /\ LastInv' /\ SentNow
    <2>1. StageInv' /\ result' \in Status /\ stage' \in {"Listening", "Running"}
        BY <1>3, AuthStage DEF SessionInv
    <2>2. /\ stage = "AwaitAuth" /\ UNCHANGED <<listVars, bindVars, granted>>
          /\ received' = m
        BY <1>3 DEF RecvAuth
    <2>3. m.kind \in {"Auth", "BadAuth", "Dis"}
        BY DEF AuthMessage
    <2>4. UNCHANGED <<listVars, bindVars>> /\ UNCHANGED <<bindVars, granted>>
        BY <2>2
    <2>5. PortInv' /\ StreamInv'
        BY <2>1, <2>2, <2>4, SamePorts, SameStreams DEF SessionInv
    <2>6. LastInv' /\ SentNow
        BY <1>3, <2>2, <2>3, AuthSends, Spoke
    <2> QED
        BY <2>1, <2>5, <2>6 DEF SessionInv
<1> QED
    BY <1>1, <1>2, <1>3

\* And so does everything else.
LEMMA OtherStep ==
    ASSUME SessionInv,
           \/ \E k \in {"Dis", "Err", "ping"} : RecvControl(k)
           \/ Connect \/ ReceiveFails \/ StreamPorts \/ Tick \/ MasterGone
    PROVE  SessionInv' /\ LastInv' /\ SentNow
<1>1. ASSUME NEW k \in {"Dis", "Err", "ping"}, RecvControl(k)
      PROVE  SessionInv' /\ LastInv' /\ SentNow
    <2>1. /\ StageInv' /\ result' \in Status /\ stage' \in {"Listening", "Running"}
          /\ stage = "Running" /\ received' = [channel |-> ControlChannel, kind |-> k]
          /\ NothingAfterDisconnect' /\ IdleDisconnectJustified'
          /\ UNCHANGED <<listVars, bindVars, granted>>
          /\ \E o : Proper(o) /\ out' = o.out
        BY <1>1, ControlStage DEF SessionInv
    <2>2. UNCHANGED <<listVars, bindVars>> /\ UNCHANGED <<bindVars, granted>>
        BY <2>1
    <2>3. PortInv' /\ StreamInv'
        BY <2>1, <2>2, SamePorts, SameStreams DEF SessionInv
    <2>4. AnsweredOnRequestChannel'
        BY <2>1 DEF AnsweredOnRequestChannel
    <2>5. SentNow
        BY <2>1, ProperIsSent DEF SentNow
    <2> QED
        BY <2>1, <2>3, <2>4, <2>5 DEF SessionInv, LastInv
<1>2. ASSUME Connect \/ ReceiveFails \/ StreamPorts \/ Tick \/ MasterGone
      PROVE  SessionInv' /\ LastInv' /\ SentNow
    <2>1. StageInv' /\ received' = NoMessage
        BY <1>2, SilentStage DEF SessionInv
    <2>2. PortInv' /\ StreamInv'
        <3>1. CASE Connect
            <4>1. /\ UNCHANGED bindVars /\ granted' = {} /\ result' = "OK"
                  /\ stage' = "AwaitHandshake"
                  /\ IF ports = <<>> THEN ports' = Menu[1] /\ portCount' = Len(Menu[1])
                                     ELSE UNCHANGED listVars
                BY <3>1 DEF Connect
            <4>2. Menu[1] \in Seq(Port) /\ Len(Menu[1]) \in Nat
                <5>1. Menu \in Seq(Seq(Port)) /\ Menu # <<>>
                    BY SessionAssumption DEF SessionAssumption
                <5>2. 1 \in 1..Len(Menu)
                    BY <5>1
                <5>3. Menu[1] \in Seq(Port)
                    BY <5>1, <5>2, ElementOfSeq
                <5> QED
                    BY <5>3, LenProperties
            <4>3. ports' \in Seq(Port) /\ portCount' \in Nat
                BY <4>1, <4>2 DEF SessionInv, PortInv, ListInv, listVars
            <4>4. TableInv'
                BY <4>1 DEF SessionInv, PortInv, TableInv, bindVars, TableWellFormed,
                            ChannelIsBinding
            <4>5. BoundPortsListed'
                BY <4>1 DEF SessionInv, PortInv, ListInv, bindVars, listVars,
                            BoundPortsListed, Listed
            <4>6. PortInv'
                BY <4>1, <4>3, <4>4, <4>5 DEF PortInv, ListInv, Status
            <4>7. StreamInv'
                BY <2>1, <4>1 DEF StreamInv, StreamsAreGranted, StageInv,
                                  ConnectedIffRunning
            <4> QED
                BY <4>6, <4>7
        <3>2. CASE ReceiveFails \/ StreamPorts \/ Tick \/ MasterGone
            <4>1. /\ UNCHANGED <<listVars, bindVars>> /\ UNCHANGED <<bindVars, granted>>
                  /\ stage' \in {stage, "Listening"}
                BY <3>2 DEF ReceiveFails, EndSession, Abort, StreamPorts, Tick, MasterGone,
                            portVars, listVars, bindVars
            <4>2. result' \in Status
                <5>1. result \in Status
                    BY DEF SessionInv, PortInv, ListInv
                <5>2. CASE ReceiveFails
                    BY <5>2 DEF ReceiveFails, EndSession, Abort, Status
                <5>3. CASE StreamPorts \/ Tick \/ MasterGone
                    BY <5>1, <5>3 DEF StreamPorts, Tick, MasterGone, portVars
                <5> QED
                    BY <3>2, <5>2, <5>3
            <4> QED
                BY <2>1, <4>1, <4>2, SamePorts, SameStreams DEF SessionInv
        <3> QED
            BY <1>2, <3>1, <3>2
    <2>3. SentNow /\ NothingAfterDisconnect'
        <3>1. CASE StreamPorts
            <4>1. \A i \in DOMAIN out' :
                     out'[i].encrypted = encryption /\ out'[i].kind = "Stream"
                BY <3>1 DEF StreamPorts, Message
            <4> QED
                BY <4>1 DEF SentNow, NothingAfterDisconnect
        <3>2. CASE Connect \/ ReceiveFails \/ Tick \/ MasterGone
            <4>1. out' = <<>>
                BY <3>2 DEF Connect, ReceiveFails, Tick, MasterGone
            <4> QED
                BY <4>1 DEF SentNow, NothingAfterDisconnect
        <3> QED
            BY <1>2, <3>1, <3>2
    <2>4. AnsweredOnRequestChannel' /\ IdleDisconnectJustified'
        BY <2>1 DEF AnsweredOnRequestChannel, IdleDisconnectJustified, NoMessage
    <2> QED
        BY <2>1, <2>2, <2>3, <2>4 DEF SessionInv, LastInv
<1> QED
    BY <1>1, <1>2

\* Every step is one of those.
LEMMA NextCases ==
    ASSUME Next
    PROVE  \/ \E c \in Nat \ {0} : Request(c) \/ StreamData(c)
           \/ \E m \in HandshakeMessage : RecvHandshake(m)
           \/ \E m \in SelectMessage : RecvSelect(m)
           \/ \E m \in AuthMessage : RecvAuth(m)
           \/ \E k \in {"Dis", "Err", "ping"} : RecvControl(k)
           \/ Connect \/ ReceiveFails \/ StreamPorts \/ Tick \/ MasterGone
    BY Channels20, Zenon DEF Next, GetMessageReturns

\* Every step keeps the invariant and what it says of the last step.
LEMMA NextSessionInv ==
    SessionInv /\ LastInv /\ [Next]_vars => SessionInv' /\ LastInv'
<1> SUFFICES ASSUME SessionInv, LastInv, [Next]_vars
             PROVE  SessionInv' /\ LastInv'
    OBVIOUS
<1>1. CASE Next
    BY <1>1, NextCases, RequestStep, HandshakeStep, OtherStep
<1>2. CASE UNCHANGED vars
    <2>1. UNCHANGED <<dev, stage, encryption, messageTimeout, connected, flags,
                      useEncryption, protocolState, idle, alive, received, out,
                      authenticated, granted, userIdle>>
          /\ UNCHANGED <<ports, portCount, sPortBinds, spChannel, result>>
        BY <1>2 DEF vars, portVars, sessionVars
    <2>2. PortInv'
        <3>1. result' \in Status /\ UNCHANGED <<listVars, bindVars>>
            BY <2>1 DEF SessionInv, PortInv, ListInv, listVars, bindVars
        <3> QED
            BY <3>1, SamePorts DEF SessionInv
    <2>3. StageInv'
        BY <2>1 DEF SessionInv, StageInv, SessionTypes, ConnectedIffRunning,
                    AuthenticatedWhenRequired, EncryptionAsAnnounced, FlagsInv,
                    LongTimeoutOnlyForAuth, IdleInv, AfterReply
    <2>4. StreamInv'
        BY <2>1 DEF SessionInv, StreamInv, StreamsAreGranted
    <2>5. LastInv'
        BY <2>1 DEF LastInv, NothingAfterDisconnect, AnsweredOnRequestChannel,
                    IdleDisconnectJustified
    <2> QED
        BY <2>2, <2>3, <2>4, <2>5 DEF SessionInv
<1> QED
    BY <1>1, <1>2

\* In every reachable state of every slave the registry is consistent, the stage of the
\* connection agrees with what was announced, and only granted channels are bound.
THEOREM SessionInvariant == Spec => [](SessionInv /\ LastInv)
    BY InitSessionInv, NextSessionInv, PTL DEF Spec

-----------------------------------------------------------------------------
(* The properties of a session                                             *)

\* All variables keep their types, and the functions return known statuses.
THEOREM SessionTypeCorrect == Spec => []TypeOK
<1>1. SessionInv => TypeOK
    BY DEF SessionInv, PortInv, TableInv, ListInv, StageInv, SessionTypes, StreamInv,
           TypeOK, PortTypeOK
<1> QED
    BY <1>1, SessionInvariant, PTL

\* The message loop serves a master only after the credentials the device requires
\* were accepted in this session.
THEOREM NoSessionWithoutCredentials == Spec => []AuthenticatedWhenRequired
<1>1. SessionInv => AuthenticatedWhenRequired
    BY DEF SessionInv, StageInv
<1> QED
    BY <1>1, SessionInvariant, PTL

\* Sessions are encrypted when either side requires it and in the clear when the device
\* does not allow it or cannot encrypt, for every combination of flags.
THEOREM SessionsHonourFlags == Spec => []EncryptionHonoursFlags
<1>1. SessionInv => EncryptionHonoursFlags
    BY DEF SessionInv, StageInv, ConnectedIffRunning, FlagsInv, AfterReply,
           EncryptionHonoursFlags
<1> QED
    BY <1>1, SessionInvariant, PTL

\* The timeout for the credentials is taken back on every way out of their message.
THEOREM TimeoutIsRestored == Spec => []LongTimeoutOnlyForAuth
<1>1. SessionInv => LongTimeoutOnlyForAuth
    BY DEF SessionInv, StageInv
<1> QED
    BY <1>1, SessionInvariant, PTL

\* What the slave streams on was bound by the master of this session, and no binding
\* survives a new handshake, an unbind request or a new port list.
THEOREM OnlyGrantedStreams == Spec => []StreamsAreGranted
<1>1. SessionInv => StreamsAreGranted
    BY DEF SessionInv, StreamInv
<1> QED
    BY <1>1, SessionInvariant, PTL

\* The registry stays well formed under the protocol, which binds, rebuilds the list and
\* starts sessions in the order its masters choose.
THEOREM SessionKeepsRegistry == Spec => [](TableWellFormed /\ BoundPortsListed)
<1>1. SessionInv => TableWellFormed /\ BoundPortsListed
    BY DEF SessionInv, PortInv, TableInv, ListInv
<1> QED
    BY <1>1, SessionInvariant, PTL

\* Whatever handler disconnects, its message is the last one of the session.
THEOREM DisconnectIsLast == Spec => []NothingAfterDisconnect
<1>1. LastInv => NothingAfterDisconnect
    BY DEF LastInv
<1> QED
    BY <1>1, SessionInvariant, PTL

\* A request is answered once and on its own channel, whatever its handler sends on the
\* way and however sending fails.
THEOREM RequestsAnsweredOnce == Spec => []AnsweredOnRequestChannel
<1>1. LastInv => AnsweredOnRequestChannel
    BY DEF LastInv
<1> QED
    BY <1>1, SessionInvariant, PTL

\* The clock of the host runs behind the user, never ahead: whoever is disconnected for
\* being idle was idle, for every limit.
THEOREM IdleDisconnectIsJustified == Spec => []IdleDisconnectJustified
<1>1. LastInv => IdleDisconnectJustified
    BY DEF LastInv
<1> QED
    BY <1>1, SessionInvariant, PTL

\* Nothing leaves a slave that has no connection.
LEMMA ListeningIsSilent == stage = "Listening" /\ Next => out' = <<>>
<1> SUFFICES ASSUME stage = "Listening", Next PROVE out' = <<>>
    OBVIOUS
<1>1. ASSUME NEW c \in Nat \ {0}, Request(c) \/ StreamData(c)
      PROVE  FALSE
    <2>1. PICK kind, S : HandleRequest(c, kind, S)
        BY <1>1, RequestHandled
    <2> QED
        BY <2>1 DEF HandleRequest
<1>2. \/ \E m \in HandshakeMessage : RecvHandshake(m)
      \/ \E m \in SelectMessage : RecvSelect(m)
      \/ \E m \in AuthMessage : RecvAuth(m)
      \/ \E k \in {"Dis", "Err", "ping"} : RecvControl(k)
      \/ Connect \/ ReceiveFails \/ StreamPorts \/ Tick \/ MasterGone
    BY <1>1, NextCases
<1>3. Connect
    BY <1>2 DEF RecvHandshake, RecvSelect, RecvAuth, RecvControl, ReceiveFails,
                StreamPorts, Tick, MasterGone
<1> QED
    BY <1>3 DEF Connect

\* Every message of a session is encrypted exactly if the handshake reply announced it,
\* the reply and the refusals before it never.
THEOREM MessagesSentAsAgreed == Spec => SentAsAgreed
<1> DEFINE Agreed == \A i \in DOMAIN out' :
                        out'[i].encrypted = (useEncryption /\ stage # "AwaitHandshake")
<1>1. SessionInv /\ Next => SentNow
    BY NextCases, RequestStep, HandshakeStep, OtherStep
<1>2. SessionInv /\ [Next]_vars => [Agreed]_vars
    <2> SUFFICES ASSUME SessionInv, Next PROVE Agreed
        OBVIOUS
    <2>1. CASE stage = "Listening"
        BY <2>1, ListeningIsSilent
    <2>2. CASE stage # "Listening"
        <3>1. encryption = (useEncryption /\ stage # "AwaitHandshake")
            BY <2>2 DEF SessionInv, StageInv, SessionTypes, Stage, EncryptionAsAnnounced
        <3> QED
            BY <1>1, <3>1 DEF SentNow
    <2> QED
        BY <2>1, <2>2
<1> QED
    BY <1>2, SessionInvariant, PTL DEF Spec, SentAsAgreed

\* Builds that contain encryption and authentication keep the handshake on the control
\* channel; the others refuse on channels 12 and 15.
THEOREM FullHandshakeOnControlChannel ==
    Spec /\ [](~dev.noEncryption /\ ~dev.noAuthentication) => HandshakeOnControlChannel
<1> DEFINE Full == ~dev.noEncryption /\ ~dev.noAuthentication
           Control == stage # "Running" =>
                         \A i \in DOMAIN out' : out'[i].channel = ControlChannel
<1>1. Full /\ [Next]_vars => [Control]_vars
    <2> SUFFICES ASSUME Full, Next, stage # "Running"
                 PROVE  \A i \in DOMAIN out' : out'[i].channel = ControlChannel
        OBVIOUS
    <2>1. ASSUME NEW c \in Nat \ {0}, Request(c) \/ StreamData(c)
          PROVE  FALSE
        <3>1. PICK kind, S : HandleRequest(c, kind, S)
            BY <2>1, RequestHandled
        <3> QED
            BY <3>1 DEF HandleRequest
    <2>2. CASE \/ \E m \in HandshakeMessage : RecvHandshake(m)
               \/ \E m \in SelectMessage : RecvSelect(m)
               \/ \E m \in AuthMessage : RecvAuth(m)
        BY <2>2, HandshakeSends, SelectSends, AuthSends DEF ControlOnly
    <2>3. CASE \/ \E k \in {"Dis", "Err", "ping"} : RecvControl(k)
               \/ Connect \/ ReceiveFails \/ StreamPorts \/ Tick \/ MasterGone
        <3>1. out' = <<>>
            BY <2>3 DEF RecvControl, Connect, ReceiveFails, StreamPorts, Tick, MasterGone
        <3> QED
            BY <3>1
    <2> QED
        BY <2>1, <2>2, <2>3, NextCases
<1> QED
    BY <1>1, PTL DEF Spec, HandshakeOnControlChannel

\* A session implements the map from channels to at most one port as well: handshakes
\* and menus reset it, requests bind and unbind, and nothing else touches it.
THEOREM SessionImplementsChannelMap == Spec => ImplementsChannelMap
<1>1. Init => Channels!ChannelInit
    BY InitIsAbstractInit DEF Init
<1>2. SessionInv /\ SessionInv' /\ [Next]_vars => [Channels!ChannelNext]_Owner
    <2> SUFFICES ASSUME SessionInv, SessionInv', [Next]_vars
                 PROVE  [Channels!ChannelNext]_Owner
        OBVIOUS
    <2>0. TableInv /\ TableInv'
        BY DEF SessionInv, PortInv
    <2>1. CASE UNCHANGED bindVars
        <3>1. Owner' = Owner
            BY <2>1 DEF bindVars, Owner, opdi_try_dispatch_stream, BoundAt
        <3> QED
            BY <3>1
    <2>2. CASE ClearBindings
        BY <2>2, ClearIsAbstractReset
    <2>3. ASSUME NEW c \in Nat \ {0}, Request(c) \/ StreamData(c)
          PROVE  [Channels!ChannelNext]_Owner
        <3>1. ASSUME NEW p \in Port, NEW b \in BindChannel \cup {0},
                     BindStreamingPort(c, p, b)
              PROVE  [Channels!ChannelNext]_Owner
            <4>1. CASE SaneChannel(b)
                <5>1. b \in BindChannel /\ BindEffect(p, b)
                    BY <3>1, <4>1 DEF SaneChannel, BindStreamingPort
                <5> QED
                    BY <2>0, <5>1, BindIsAbstractBind
            <4>2. CASE ~SaneChannel(b)
                BY <2>1, <3>1, <4>2 DEF BindStreamingPort
            <4> QED
                BY <4>1, <4>2
        <3>2. ASSUME NEW p \in Port, UnbindStreamingPort(c, p)
              PROVE  [Channels!ChannelNext]_Owner
            BY <2>0, <3>2, UnbindIsAbstractUnbind DEF UnbindStreamingPort
        <3>3. CASE \E i \in DOMAIN Menu : SwitchMenu(c, Menu[i])
            BY <2>2, <3>3 DEF SwitchMenu
        <3>4. CASE Query(c) \/ GetState(c) \/ SetState(c) \/ Unknown(c) \/ StreamData(c)
            BY <2>1, <3>4 DEF Query, GetState, SetState, Unknown, StreamData
        <3> QED
            BY <2>3, <3>1, <3>2, <3>3, <3>4 DEF Request
    <2>4. CASE \E m \in HandshakeMessage : RecvHandshake(m)
        BY <2>2, <2>4 DEF RecvHandshake
    <2>5. CASE \/ \E m \in SelectMessage : RecvSelect(m)
               \/ \E m \in AuthMessage : RecvAuth(m)
               \/ \E k \in {"Dis", "Err", "ping"} : RecvControl(k)
               \/ Connect \/ ReceiveFails \/ StreamPorts \/ Tick \/ MasterGone
        BY <2>1, <2>5 DEF RecvSelect, RecvAuth, RecvControl, Connect, ReceiveFails,
                          StreamPorts, Tick, MasterGone, portVars, bindVars
    <2>6. CASE UNCHANGED vars
        BY <2>1, <2>6 DEF vars, portVars, bindVars
    <2> QED
        BY <2>3, <2>4, <2>5, <2>6, NextCases
<1> QED
    BY <1>1, <1>2, SessionInvariant, PTL
       DEF Spec, ImplementsChannelMap, Channels!ChannelSpec

=============================================================================
