---------------------------- MODULE SlaveSession ----------------------------
(***************************************************************************)
(* One slave of code/c: the handshake opdi_slave_start performs on every   *)
(* connection, the message loop it then runs, and the request handlers of  *)
(* the basic protocol, on the port registry of PortBindings.  The hosting  *)
(* program is the one of configs/LinOPDI and configs/test: it accepts one  *)
(* connection at a time, streams while it waits for a message it may send  *)
(* during, and ends sessions without user activity.                        *)
(*                                                                         *)
(* The slave is single threaded: it runs from one opdi_get_message to the  *)
(* next without interruption.  stage says in which call it waits, and an   *)
(* action is everything that happens from the return of that call to the   *)
(* next one.  What the master sends is arbitrary; a message is a record    *)
(* that tells apart what the code tells apart.  A send may fail at any     *)
(* time.                                                                   *)
(***************************************************************************)
EXTENDS PortBindings, FiniteSets

CONSTANTS Device,        \* builds and flags of slaves to consider
          MasterFlags,   \* flags of the masters to consider
          SelectPort,    \* the select port that switches between port lists
          Menu,          \* the port lists it switches between
          StreamOrder,   \* the streaming ports in the order they are served
          SyncChannel,   \* channels of synchronous requests, 20 and higher
          LowChannel,    \* channels 1 to 19 used for automatic refreshes
          IdleLimit      \* idle_timeout_ms, in clock ticks

\* noEncryption and noAuthentication are the build options OPDI_NO_ENCRYPTION
\* and OPDI_NO_AUTHENTICATION, the others the bits of opdi_device_flags and
\* whether a protocol other than the basic one can be chosen.
DeviceType == [noEncryption : BOOLEAN, noAuthentication : BOOLEAN,
               encryptionRequired : BOOLEAN, encryptionNotAllowed : BOOLEAN,
               authenticationRequired : BOOLEAN, getProtocol : BOOLEAN]

FlagsType == [encryptionRequired : BOOLEAN, encryptionNotAllowed : BOOLEAN,
              authenticationRequired : BOOLEAN]
NoFlags == [encryptionRequired |-> FALSE, encryptionNotAllowed |-> FALSE,
            authenticationRequired |-> FALSE]

ASSUME SessionAssumption ==
    /\ NoFlags \in MasterFlags
    /\ MasterFlags \subseteq FlagsType
    /\ Device \subseteq DeviceType
    /\ \A d \in Device : d.encryptionRequired =>
          ~d.noEncryption /\ ~d.encryptionNotAllowed
    /\ \A d \in Device : d.authenticationRequired => ~d.noAuthentication
    /\ SelectPort \in OtherPort
    /\ Menu \in Seq(Seq(Port))
    /\ Menu # <<>>
    /\ StreamOrder \in Seq(StreamingPort)
    /\ SyncChannel \subseteq Nat
    /\ \A c \in SyncChannel : c >= 20
    /\ LowChannel \subseteq 1..19
    /\ IdleLimit \in Nat \ {0}

VARIABLES
    dev,             \* the device, fixed
    stage,           \* where the slave waits
    encryption,      \* static encryption of opdi_message.c
    messageTimeout,  \* static message_timeout of opdi_message.c
    connected,       \* static connected of opdi_slave_protocol.c
    flags,           \* the flags of the master's handshake message
    useEncryption,   \* local use_encryption of opdi_slave_start
    protocolState,   \* what protocol_callback was last told
    idle,            \* ticks since last_activity
    alive,           \* the master is still there
    received,        \* the message the last step handled, if any
    out,             \* the messages the last step sent or tried to send
    authenticated,   \* history: credentials accepted in this session
    granted,         \* history: bindings made in this session and not undone
    userIdle         \* history: ticks since a message on a channel >= 20

sessionVars == <<dev, stage, encryption, messageTimeout, connected, flags,
                 useEncryption, protocolState, idle, alive, received, out,
                 authenticated, granted, userIdle>>
vars == <<portVars, sessionVars>>

Stage == {"Listening", "AwaitHandshake", "AwaitSelect", "AwaitAuth", "Running"}
InHandshake == stage \in {"AwaitHandshake", "AwaitSelect", "AwaitAuth"}

ControlChannel == 0
RequestChannel == SyncChannel \cup LowChannel

\* The numeric codes that the two misplaced send_disagreement calls pass as the
\* channel: OPDI_ENCRYPTION_NOT_SUPPORTED and OPDI_AUTH_NOT_SUPPORTED.
EncryptionNotSupportedCode == 12
AuthNotSupportedCode == 15

-----------------------------------------------------------------------------
(* Sending.  An outcome is what a function of the code returns and what it  *)
(* has sent by then; a message the send function refused is kept with sent  *)
(* FALSE.                                                                   *)

NoMessage == [channel |-> ControlChannel, kind |-> "none"]
NothingReceived == received' = NoMessage

Message(channel, kind, sent) ==
    [channel |-> channel, kind |-> kind, sent |-> sent, encrypted |-> encryption]

Outcome(res, msgs) == [res |-> res, out |-> msgs]

\* The status of the send function is returned...
Send(channel, kind) ==
    {Outcome("OK", <<Message(channel, kind, TRUE)>>),
     Outcome("DEVICE_ERROR", <<Message(channel, kind, FALSE)>>)}

\* ... or ignored.
SendIgnored(channel, kind) ==
    {Outcome("OK", <<Message(channel, kind, sent)>>) : sent \in BOOLEAN}

Fail(status) == {Outcome(status, <<>>)}

\* Runs the second part only when the first returned OK.
Then(first, second) ==
    {o \in first : o.res # "OK"} \cup
    {Outcome(n.res, o.out \o n.out) : o \in {x \in first : x.res = "OK"}, n \in second}

send_error(o) ==
    {Outcome(o.res, o.out \o <<Message(ControlChannel, "Err", TRUE)>>),
     Outcome("DEVICE_ERROR", o.out \o <<Message(ControlChannel, "Err", FALSE)>>)}

opdi_disconnect ==
    {Outcome("DISCONNECTED", <<Message(ControlChannel, "Dis", TRUE)>>),
     Outcome("DEVICE_ERROR", <<Message(ControlChannel, "Dis", FALSE)>>)}

\* Fault: the disconnect of a handler is reported like an error.
ReportEveryResult(o) ==
    CASE o.res = "MESSAGE_UNKNOWN" -> {Outcome("OK", o.out)}
      [] o.res = "OK" -> {o}
      [] OTHER -> send_error(o)

\* An unknown message is ignored, an intentional disconnect passed on, and any
\* other failure reported to the master on the control channel.
handle_message_result(o) ==
    CASE o.res = "MESSAGE_UNKNOWN" -> {Outcome("OK", o.out)}
      [] o.res \in {"OK", "DISCONNECTED"} -> {o}
      [] OTHER -> send_error(o)

-----------------------------------------------------------------------------
(* Request handlers of basic_protocol_message                              *)

\* A request is refused: its port is unknown, a part is missing or cannot be
\* converted, the position is out of range, the port has another type, or the
\* device function denies or fails.  One status stands for all of them, which
\* handle_message_result treats alike.
Refused == Fail("PROTOCOL_ERROR")

\* gDC, gPI and gSL.
QueryOutcomes(channel) == Send(channel, "Reply") \cup Refused

\* send_analog_port_state and its likes: that a getter of the device reports an
\* error or denies access is sent on the channel of the request, and whether
\* that could be sent is ignored.
StateOutcomes(channel) ==
    Send(channel, "Reply") \cup SendIgnored(channel, "Err")
        \cup SendIgnored(channel, "NOK") \cup Refused

\* What the setters of the device return.  A setter may refresh another port, send
\* a debug message or disconnect first (configs/test/test.c).
SetterOutcomes ==
    {Outcome("OK", <<>>)} \cup Refused \cup SendIgnored(ControlChannel, "Ref")
        \cup Send(ControlChannel, "Debug") \cup opdi_disconnect

SetOutcomes(channel) ==
    Refused \cup Then(SetterOutcomes, StateOutcomes(channel))

\* The setter of a menu-like select port asks the master to reconfigure.
SwitchOutcomes(channel) ==
    Then(SendIgnored(ControlChannel, "Reconf"), StateOutcomes(channel))

\* Fault: any channel number is passed on to opdi_bind_port.
AnyChannel(bChannel) == TRUE

\* The channel sanity check of bind_streaming_port.
SaneChannel(bChannel) == bChannel > 0

\* Fault: the arguments of send_disagreement are swapped; 23 is the code of
\* OPDI_TOO_MANY_BINDINGS.
BindSwapped(channel, port, bChannel) ==
    CASE BindStatus(port, bChannel) = "OK" -> Send(channel, "OK")
      [] BindStatus(port, bChannel) = "TOO_MANY_BINDINGS" -> Send(23, "NOK")
      [] OTHER -> Fail(BindStatus(port, bChannel))

BindOutcomes(channel, port, bChannel) ==
    CASE ~SaneChannel(bChannel) -> Fail("CHANNEL_INVALID")
      [] SaneChannel(bChannel) /\ BindStatus(port, bChannel) = "OK" -> Send(channel, "OK")
      [] SaneChannel(bChannel) /\ BindStatus(port, bChannel) = "TOO_MANY_BINDINGS" ->
            Send(channel, "NOK")
      [] OTHER -> Fail(BindStatus(port, bChannel))

UnbindOutcomes(channel, port) ==
    IF UnbindStatus(port) = "OK" THEN Send(channel, "OK")
    ELSE Fail(UnbindStatus(port))

-----------------------------------------------------------------------------
(* Connections                                                             *)

\* Fault: messaging is set up without touching the encryption.
SetupKeepsEncryption == UNCHANGED encryption

opdi_message_setup == encryption' = FALSE

\* The host accepts a connection, configures its ports when it has none, and
\* sets up messaging, which switches encryption off.  The locals of the call of
\* opdi_slave_start to come and the history of the session start afresh.
Connect ==
    /\ stage = "Listening"
    /\ stage' = "AwaitHandshake"
    /\ opdi_message_setup
    /\ alive' = TRUE
    /\ IF ports = <<>>
       THEN ports' = Menu[1] /\ portCount' = Len(Menu[1])
       ELSE UNCHANGED listVars
    /\ flags' = NoFlags /\ useEncryption' = FALSE
    /\ authenticated' = FALSE /\ granted' = {} /\ userIdle' = 0
    /\ result' = "OK"
    /\ NothingReceived
    /\ out' = <<>>
    /\ UNCHANGED <<bindVars, dev, messageTimeout, connected, protocolState, idle>>

\* Fault: after a failure in the handshake the slave waits for the same master again.
WaitAgain(status) == result' = status /\ UNCHANGED <<stage, connected, protocolState>>

\* opdi_slave_start returns before it is connected: protocol_callback is not
\* told, and the bindings are left as they are.
Abort(status) ==
    /\ stage' = "Listening"
    /\ result' = status
    /\ UNCHANGED <<connected, protocolState>>

\* message_loop returned.
EndSession(status) ==
    /\ stage' = "Listening"
    /\ result' = status
    /\ connected' = FALSE
    /\ protocolState' = "DISCONNECTED"

StartSession ==
    /\ stage' = "Running"
    /\ result' = "OK"
    /\ connected' = TRUE
    /\ protocolState' = "CONNECTED"

-----------------------------------------------------------------------------
(* The handshake                                                           *)

\* valid: four parts, the right tag and version, and parts that can be converted.
\* Of any other message nothing more is looked at.
HandshakeMessage ==
    [channel : {ControlChannel}, valid : {TRUE}, flags : MasterFlags,
     methodListed : BOOLEAN]
    \cup [channel : {ControlChannel} \cup SyncChannel, valid : {FALSE},
          flags : {NoFlags}, methodListed : {FALSE}]

\* Fault: only what the master demands is looked at.
RefuseForMaster(m) ==
    IF m.flags.encryptionRequired
       /\ (dev.noEncryption \/ dev.encryptionNotAllowed \/ ~m.methodListed)
    THEN "ENCRYPTION_NOT_SUPPORTED" ELSE "OK"

\* The status that refuses the encryption the master's message asks for.
Refusal(m) ==
    CASE m.flags.encryptionRequired
         /\ (dev.noEncryption \/ dev.encryptionNotAllowed \/ ~m.methodListed) ->
            "ENCRYPTION_NOT_SUPPORTED"
      [] ~m.flags.encryptionRequired /\ dev.encryptionRequired
         /\ (m.flags.encryptionNotAllowed \/ ~m.methodListed) ->
            "ENCRYPTION_REQUIRED"
      [] OTHER -> "OK"

\* Fault: the device's own flag is not looked at either.
ChooseWheneverListed(m) == ~dev.noEncryption /\ m.methodListed

\* The encryption chosen when the message is not refused.  Unless the device
\* requires encryption, the master's "not allowed" flag is not looked at.
ChooseEncryption(m) ==
    ~dev.noEncryption /\ m.methodListed /\ ~dev.encryptionNotAllowed

\* Fault: the swapped arguments of the builds without encryption in every build.
RefusalSwapped == EncryptionNotSupportedCode

RefusalChannel == IF dev.noEncryption THEN EncryptionNotSupportedCode ELSE ControlChannel

RecvHandshake(m) ==
    /\ stage = "AwaitHandshake" /\ alive
    /\ ClearBindings
    /\ connected' = FALSE
    /\ protocolState' = "START_HANDSHAKE"
    /\ received' = [channel |-> m.channel, kind |-> "OPDI"]
    /\ flags' = m.flags
    /\ useEncryption' = (m.valid /\ ChooseEncryption(m))
    /\ idle' = 0
    /\ \/ /\ ~m.valid
          /\ \E s \in {"PROTOCOL_ERROR", "CONVERSION", "PARTS_OVERFLOW"} :
                /\ m.channel # ControlChannel => s = "PROTOCOL_ERROR"
                /\ result' = s
          /\ stage' = "Listening" /\ out' = <<>>
          /\ UNCHANGED encryption
       \/ /\ m.valid
          /\ Refusal(m) # "OK"
          /\ \E o \in SendIgnored(RefusalChannel, "NOK") : out' = o.out
          /\ stage' = "Listening" /\ result' = Refusal(m)
          /\ UNCHANGED encryption
       \/ /\ m.valid
          /\ Refusal(m) = "OK"
          \* the device's callback functions, then the handshake reply
          /\ \E o \in Fail("FUNCTION_UNKNOWN") \cup Send(ControlChannel, "OPDI") :
                /\ out' = o.out
                /\ result' = o.res
                /\ stage' = IF o.res = "OK" THEN "AwaitSelect" ELSE "Listening"
                /\ encryption' = IF o.res = "OK" THEN ChooseEncryption(m) ELSE encryption
    /\ UNCHANGED <<listVars, dev, messageTimeout, alive, authenticated, granted,
                   userIdle>>

SelectMessage ==
    [channel : {ControlChannel} \cup SyncChannel,
     kind : {"Dis", "Err", "BP", "EP", "malformed"}]

\* "EP" stands for every protocol other than the basic one.  With get_protocol
\* its handler is the basic one again unless the device registered another.
SelectFailure(m) ==
    CASE m.channel # ControlChannel -> "PROTOCOL_ERROR"
      [] m.channel = ControlChannel /\ m.kind = "Dis" -> "DISCONNECTED"
      [] m.channel = ControlChannel /\ m.kind = "Err" -> "DEVICE_ERROR"
      [] m.channel = ControlChannel /\ m.kind = "malformed" -> "PROTOCOL_ERROR"
      [] m.channel = ControlChannel /\ m.kind = "EP" /\ ~dev.getProtocol ->
            "PROTOCOL_NOT_SUPPORTED"
      [] OTHER -> "OK"

\* What follows the protocol choice: the callbacks, then the slave's name.
NameOutcomes == Fail("FUNCTION_UNKNOWN") \cup Send(ControlChannel, "OK")

RecvSelect(m) ==
    /\ stage = "AwaitSelect" /\ alive
    /\ received' = m
    /\ \/ /\ SelectFailure(m) # "OK"
          /\ Abort(SelectFailure(m))
          /\ out' = <<>>
          /\ UNCHANGED messageTimeout
       \/ /\ SelectFailure(m) = "OK"
          /\ \E o \in NameOutcomes :
                \/ /\ o.res # "OK"
                   /\ Abort(o.res)
                   /\ out' = o.out
                   /\ UNCHANGED messageTimeout
                \/ /\ o.res = "OK"
                   /\ dev.noAuthentication /\ flags.authenticationRequired
                   /\ Abort("AUTH_NOT_SUPPORTED")
                   /\ \E n \in SendIgnored(AuthNotSupportedCode, "NOK") :
                         out' = o.out \o n.out
                   /\ UNCHANGED messageTimeout
                \/ /\ o.res = "OK"
                   /\ dev.authenticationRequired
                   /\ stage' = "AwaitAuth"
                   /\ messageTimeout' = "authentication"
                   /\ out' = o.out
                   /\ result' = "OK"
                   /\ UNCHANGED <<connected, protocolState>>
                \/ /\ o.res = "OK"
                   /\ ~(dev.noAuthentication /\ flags.authenticationRequired)
                   /\ ~dev.authenticationRequired
                   /\ StartSession
                   /\ out' = o.out
                   /\ UNCHANGED messageTimeout
    /\ UNCHANGED <<listVars, bindVars, dev, encryption, flags, useEncryption, idle,
                   alive, authenticated, granted, userIdle>>

\* Fault: the timeout is set back only after the result has been looked at.
RestoreOnSuccess ==
    messageTimeout' = IF received' = NoMessage THEN messageTimeout ELSE "message"

\* The saved timeout is set back before the result of opdi_get_message is looked at.
RestoreTimeout == messageTimeout' = "message"

\* The channel of this message is not looked at, and Dis is like any other
\* message that is not Auth.
AuthMessage ==
    [channel : {ControlChannel} \cup SyncChannel, kind : {"Auth", "BadAuth", "Dis"}]

\* Fault: what the device says of the password is not looked at.
AnyCredentials(m) == m.kind \in {"Auth", "BadAuth"}

\* Both callbacks of the device took the user name and the password.
Accepted(m) == m.kind = "Auth"

RecvAuth(m) ==
    /\ stage = "AwaitAuth" /\ alive
    /\ received' = m
    /\ RestoreTimeout
    /\ authenticated' = (m.kind = "Auth")
    /\ \/ /\ ~Accepted(m)
          /\ Abort(IF m.kind = "BadAuth" THEN "AUTHENTICATION_FAILED"
                                         ELSE "AUTHENTICATION_EXPECTED")
          /\ \E o \in SendIgnored(ControlChannel, "NOK") : out' = o.out
       \/ /\ Accepted(m)
          /\ \E o \in Send(ControlChannel, "OK") :
                /\ out' = o.out
                /\ IF o.res = "OK" THEN StartSession ELSE Abort(o.res)
    /\ UNCHANGED <<listVars, bindVars, dev, encryption, flags, useEncryption, idle,
                   alive, granted, userIdle>>

-----------------------------------------------------------------------------
(* The message loop                                                        *)

\* The loop continues after OK and is left with any other status.
Finish(o) ==
    /\ out' = o.out
    /\ IF o.res = "OK"
       THEN /\ result' = "OK"
            /\ UNCHANGED <<stage, connected, protocolState>>
       ELSE EndSession(o.res)

loopVars == <<dev, encryption, messageTimeout, flags, useEncryption, alive,
              authenticated>>

\* Fault: every message counts as activity.
AlwaysActive(channel) == 0

\* opdi_message_handled: last_activity after a message on the channel.
Activity(channel) ==
    IF channel # ControlChannel \/ sPortBinds' # <<>> THEN 0 ELSE idle

\* Fault: bound streaming ports do not keep the session.
EndIdleStreams ==
    IF idle > IdleLimit
    THEN UNION {handle_message_result(o) :
                   o \in Then(Send(ControlChannel, "Debug"), opdi_disconnect)}
    ELSE {Outcome("OK", <<>>)}

\* opdi_message_handled for a control message: the session is ended when the
\* user has been idle for too long and no streaming port is bound.
ControlOutcomes ==
    IF sPortBinds = <<>> /\ idle > IdleLimit
    THEN UNION {handle_message_result(o) :
                   o \in Then(Send(ControlChannel, "Debug"), opdi_disconnect)}
    ELSE {Outcome("OK", <<>>)}

RecvControl(kind) ==
    /\ stage = "Running" /\ alive
    /\ received' = [channel |-> ControlChannel, kind |-> kind]
    /\ UNCHANGED <<listVars, bindVars, loopVars, granted, userIdle>>
    /\ \/ /\ kind = "Dis" /\ Finish(Outcome("DISCONNECTED", <<>>))
          /\ UNCHANGED idle
       \/ /\ kind = "Err" /\ Finish(Outcome("DEVICE_ERROR", <<>>))
          /\ UNCHANGED idle
       \/ /\ kind = "ping"
          /\ \E o \in ControlOutcomes : Finish(o)
          /\ idle' = Activity(ControlChannel)

\* What every handled request shares: its result is handled, and a request the
\* session survives counts as activity (opdi_message_handled).
HandleRequest(channel, kind, outcomes) ==
    /\ stage = "Running" /\ alive
    /\ received' = [channel |-> channel, kind |-> kind]
    /\ userIdle' = IF channel >= 20 THEN 0 ELSE userIdle
    /\ \E x \in outcomes : \E o \in handle_message_result(x) :
          /\ Finish(o)
          /\ idle' = IF o.res = "OK" THEN Activity(channel) ELSE idle
    /\ UNCHANGED loopVars

Query(channel) ==
    /\ HandleRequest(channel, "query", QueryOutcomes(channel))
    /\ UNCHANGED <<listVars, bindVars, granted>>

GetState(channel) ==
    /\ HandleRequest(channel, "get", StateOutcomes(channel))
    /\ UNCHANGED <<listVars, bindVars, granted>>

SetState(channel) ==
    /\ HandleRequest(channel, "set", SetOutcomes(channel))
    /\ UNCHANGED <<listVars, bindVars, granted>>

\* A select port that stands for a menu replaces the port list.
SwitchMenu(channel, menu) ==
    /\ SelectPort \in Listed /\ menu # ports
    /\ HandleRequest(channel, "set", SwitchOutcomes(channel))
    /\ ports' = menu
    /\ portCount' = Len(menu)
    /\ ClearBindings
    /\ granted' = {}

Unknown(channel) ==
    /\ HandleRequest(channel, "unknown", Fail("MESSAGE_UNKNOWN"))
    /\ UNCHANGED <<listVars, bindVars, granted>>

BindStreamingPort(channel, port, bChannel) ==
    /\ port \in Listed
    /\ HandleRequest(channel, "bSP", BindOutcomes(channel, port, bChannel))
    /\ IF SaneChannel(bChannel) THEN BindEffect(port, bChannel) ELSE UNCHANGED bindVars
    /\ granted' = IF SaneChannel(bChannel) /\ BindStatus(port, bChannel) = "OK"
                  THEN granted \cup {<<port, bChannel>>} ELSE granted
    /\ UNCHANGED listVars

UnbindStreamingPort(channel, port) ==
    /\ port \in Listed
    /\ HandleRequest(channel, "uSP", UnbindOutcomes(channel, port))
    /\ UnbindEffect(port)
    /\ granted' = {g \in granted : g[1] # port}
    /\ UNCHANGED listVars

\* Data on a bound channel goes to the protocol handler as well, which takes it
\* for whatever request it reads like: here, one that changes nothing.
StreamData(channel) ==
    /\ BoundAt(channel) # {}
    /\ HandleRequest(channel, "data",
                     Fail("MESSAGE_UNKNOWN") \cup QueryOutcomes(channel))
    /\ UNCHANGED <<listVars, bindVars, granted>>

-----------------------------------------------------------------------------
(* Waiting                                                                 *)

\* opdi_get_message fails: no byte within message_timeout, the connection is
\* closed, a block cannot be decrypted, or the message has too many parts.
ReceiveFails ==
    /\ stage # "Listening"
    /\ \E s \in {"TIMEOUT", "NETWORK_ERROR", "DEVICE_ERROR", "ENCRYPTION_ERROR",
                 "PARTS_OVERFLOW"} :
          /\ s \in {"ENCRYPTION_ERROR", "PARTS_OVERFLOW"} => alive
          /\ s = "ENCRYPTION_ERROR" => encryption
          /\ s = "PARTS_OVERFLOW" => stage # "AwaitHandshake"
          /\ IF stage = "Running" THEN EndSession(s) ELSE Abort(s)
    /\ NothingReceived
    /\ RestoreTimeout
    /\ out' = <<>>
    /\ UNCHANGED <<listVars, bindVars, dev, encryption, flags, useEncryption, idle,
                   alive, authenticated, granted, userIdle>>

\* handle_streaming_ports, called while the slave waits for a message it may
\* send during.  Whether a message could be sent is ignored.
StreamPorts ==
    /\ stage = "Running"
    /\ LET bound == SelectSeq(StreamOrder, LAMBDA p : spChannel[p] > 0)
       IN /\ bound # <<>>
          /\ \E sent \in [1..Len(bound) -> BOOLEAN] :
                out' = [i \in 1..Len(bound) |->
                           Message(spChannel[bound[i]], "Stream", sent[i])]
    /\ NothingReceived
    /\ UNCHANGED <<portVars, dev, stage, encryption, messageTimeout, connected, flags,
                   useEncryption, protocolState, idle, alive, authenticated, granted,
                   userIdle>>

\* The clock is stopped one tick after the limit.
Tick ==
    /\ stage = "Running"
    /\ idle <= IdleLimit
    /\ idle' = idle + 1
    /\ userIdle' = IF userIdle <= IdleLimit THEN userIdle + 1 ELSE userIdle
    /\ NothingReceived
    /\ out' = <<>>
    /\ UNCHANGED <<portVars, dev, stage, encryption, messageTimeout, connected, flags,
                   useEncryption, protocolState, alive, authenticated, granted>>

\* The master crashes or is cut off, and nothing tells the slave.
MasterGone ==
    /\ stage # "Listening" /\ alive
    /\ alive' = FALSE
    /\ NothingReceived
    /\ out' = <<>>
    /\ UNCHANGED <<portVars, dev, stage, encryption, messageTimeout, connected, flags,
                   useEncryption, protocolState, idle, authenticated, granted,
                   userIdle>>

-----------------------------------------------------------------------------
Init ==
    /\ PortInit
    /\ dev \in Device
    /\ stage = "Listening"
    /\ encryption = FALSE
    /\ messageTimeout = "message"
    /\ connected = FALSE
    /\ flags = NoFlags
    /\ useEncryption = FALSE
    /\ protocolState = "DISCONNECTED"
    /\ idle = 0
    /\ alive = FALSE
    /\ received = NoMessage
    /\ out = <<>>
    /\ authenticated = FALSE
    /\ granted = {}
    /\ userIdle = 0

Request(channel) ==
    \/ Query(channel)
    \/ GetState(channel)
    \/ SetState(channel)
    \/ \E i \in DOMAIN Menu : SwitchMenu(channel, Menu[i])
    \/ Unknown(channel)
    \/ \E p \in Port, c \in BindChannel \cup {0} : BindStreamingPort(channel, p, c)
    \/ \E p \in Port : UnbindStreamingPort(channel, p)

GetMessageReturns ==
    \/ \E m \in HandshakeMessage : RecvHandshake(m)
    \/ \E m \in SelectMessage : RecvSelect(m)
    \/ \E m \in AuthMessage : RecvAuth(m)
    \/ \E k \in {"Dis", "Err", "ping"} : RecvControl(k)
    \/ \E c \in RequestChannel : Request(c)
    \/ \E c \in BindChannel : StreamData(c)
    \/ ReceiveFails

Next ==
    \/ Connect
    \/ GetMessageReturns
    \/ StreamPorts
    \/ Tick
    \/ MasterGone

Spec == Init /\ [][Next]_vars

\* opdi_get_message always returns, since every receive function gives up after
\* message_timeout, and time goes on.
FairSpec == Spec /\ WF_vars(GetMessageReturns) /\ WF_vars(Tick)

-----------------------------------------------------------------------------
(* Properties                                                              *)

\* Everything but the history of the last step has its type.
TypeOK ==
    /\ PortTypeOK
    /\ dev \in Device
    /\ stage \in Stage
    /\ encryption \in BOOLEAN
    /\ messageTimeout \in {"message", "authentication"}
    /\ connected \in BOOLEAN
    /\ flags \in MasterFlags
    /\ useEncryption \in BOOLEAN
    /\ protocolState \in {"START_HANDSHAKE", "CONNECTED", "DISCONNECTED"}
    /\ idle \in Nat
    /\ alive \in BOOLEAN
    /\ authenticated \in BOOLEAN
    /\ granted \subseteq StreamingPort \X BindChannel
    /\ userIdle \in Nat

\* The UI is told of every session that starts and of its end: the slave says it
\* is connected exactly while the message loop runs, whatever way the handshake
\* or the loop is left (opdi_slave_connected, protocol_callback).
ConnectedIffRunning ==
    /\ connected <=> stage = "Running"
    /\ protocolState = "CONNECTED" <=> stage = "Running"

\* No request is ever served to a master that did not present the credentials the
\* device requires, in this very session.
AuthenticatedWhenRequired ==
    connected /\ dev.authenticationRequired => authenticated

\* Once the handshake reply has announced it, encryption is on exactly if it was
\* announced; before the reply it is off, whatever the previous session used.
EncryptionAsAnnounced ==
    /\ stage = "AwaitHandshake" => ~encryption
    /\ stage \in {"AwaitSelect", "AwaitAuth", "Running"} => encryption = useEncryption

\* A session runs encrypted when either side requires encryption, and never when
\* the device does not allow it.
EncryptionHonoursFlags ==
    connected =>
        /\ flags.encryptionRequired \/ dev.encryptionRequired => encryption
        /\ dev.encryptionNotAllowed \/ dev.noEncryption => ~encryption

\* The long timeout that gives a user time for the credentials applies to that
\* one message and is taken back on every way out of it.
LongTimeoutOnlyForAuth == messageTimeout = "authentication" <=> stage = "AwaitAuth"

\* The device streams on a channel only while it is connected and after the master
\* of this session bound that port to that channel and has not unbound the port:
\* no binding of an earlier session or of a replaced port list is streamed on.
StreamsAreGranted ==
    connected => \A p \in StreamingPort :
        spChannel[p] # Unbound => <<p, spChannel[p]>> \in granted

\* The slave sends nothing after a Disconnect message and has then left the loop:
\* "After this, no more messages may be sent to the master."
NothingAfterDisconnect ==
    \A i \in DOMAIN out : out[i].kind = "Dis" /\ out[i].sent =>
        i = Len(out) /\ stage = "Listening" /\ result = "DISCONNECTED"

\* Every message of a session leaves the slave the way the handshake reply
\* announced: the reply and the refusals before it in the clear, all that follows
\* encrypted if encryption was chosen (opdi_set_encryption in opdi_slave_start).
SentAsAgreed ==
    [][\A i \in DOMAIN out' :
          out'[i].encrypted = (useEncryption /\ stage # "AwaitHandshake")]_vars

\* While the connection is established the slave sends on the control channel only:
\* "The channel 0 is the control channel that is used for the initial handshake".
HandshakeOnControlChannel ==
    [][stage # "Running" => \A i \in DOMAIN out' : out'[i].channel = ControlChannel]_vars

\* A request the session survives is answered exactly once, on the channel it came on;
\* whatever else is sent while it is handled goes to the control channel.  One that
\* ends the session is answered at most once.
AnsweredOnRequestChannel ==
    received.kind \in {"query", "get", "set", "bSP", "uSP"} =>
        LET answers == {i \in DOMAIN out : out[i].channel = received.channel}
        IN /\ Cardinality(answers) <= 1
           /\ stage = "Running" => answers # {}
           /\ \A i \in DOMAIN out \ answers : out[i].channel = ControlChannel

\* A keepalive ends the session only if no user has been active for longer than the
\* limit and no streaming port is bound.
IdleDisconnectJustified ==
    received.kind = "ping" /\ stage # "Running" =>
        userIdle > IdleLimit /\ sPortBinds = <<>>

\* When the master is gone the slave leaves the session or the handshake and
\* listens again: "If the slave does not receive any messages from the master for
\* some time it disconnects."
MasterGoneReleases == ~alive /\ stage # "Listening" ~> stage = "Listening"

\* A master that only sends keepalives and has no streaming port bound does not
\* occupy the slave for ever: "a slave becomes available again when a master has
\* been inactive or disconnected for some time".
InactiveMasterReleased ==
    <>[](received.channel = ControlChannel /\ sPortBinds = <<>>)
        => []<>(stage = "Listening")

=============================================================================
