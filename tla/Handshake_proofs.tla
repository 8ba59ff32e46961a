-------------------------- MODULE Handshake_proofs --------------------------
(***************************************************************************)
(* Proofs about a connection of the master with the slave, for every       *)
(* device, every setting of the master and every offer of the slave.  The  *)
(* steps of the slave are those of SlaveSession, so that what is proved    *)
(* there holds here as well.                                               *)
(***************************************************************************)
EXTENDS Handshake, SlaveSession_proofs

-----------------------------------------------------------------------------
(* The inductive invariant                                                 *)

Place == {"idle", "start", "connect", "reply", "name", "ask", "confirm", "agreed",
          "opening", "failed"}
ToSlaveType == [kind : {"OPDI", "NOK", "Dis", "BP", "EP"} \cup Password,
                encrypted : BOOLEAN]
ToMasterType == [kind : {"OPDI", "OK", "NOK"}, encrypted : BOOLEAN,
                 announced : BOOLEAN]

\* The types of the master's variables.
MasterTypes ==
    /\ master \in Master
    /\ offer \in Offer
    /\ status \in {"DISCONNECTED", "CONNECTING", "CONNECTED", "ERROR"}
    /\ at \in Place
    /\ failure \in {"failed", "error", "cancelled"}
    /\ aborted \in BOOLEAN
    /\ cipherOn \in BOOLEAN
    /\ save \in BOOLEAN
    /\ masterOpen \in BOOLEAN
    /\ disturbed \in BOOLEAN
    /\ stored \in Password \cup {"none"}
    /\ credentials \in Password
    /\ toSlave \in Seq(ToSlaveType)
    /\ toMaster \in Seq(ToMasterType)

\* What both sides demand of the encryption.
DeviceHonoured(cipher) ==
    /\ dev.encryptionRequired => cipher
    /\ dev.encryptionNotAllowed => ~cipher
Honoured(cipher) == FlagsHonoured(cipher) /\ DeviceHonoured(cipher)

\* From the reply to the end of the attempt.
Dialogue == {"name", "ask", "confirm", "agreed", "opening"}

\* The user sees a connection only after the whole handshake.
StatusInv ==
    /\ status = "CONNECTED" => at \in {"opening", "idle"}
    /\ EndIsReported
    /\ at \in Dialogue \/ status = "CONNECTED" => Honoured(cipherOn)
    /\ at \in {"ask", "confirm"} => dev.authenticationRequired

\* The slave announces no encryption it could not agree to.
AnnouncedInv ==
    \A i \in DOMAIN toMaster :
        toMaster[i].kind = "OPDI" => DeviceHonoured(toMaster[i].announced)

NoConfirmation == \A i \in DOMAIN toMaster : toMaster[i].kind # "OK"

\* Where the two sides can be at the same time, and what is then under way.
DialogueInv ==
    /\ at = "failed" => ~masterOpen
    /\ at \in Dialogue \cup {"reply"} => masterOpen
    /\ ~masterOpen => toMaster = <<>>
    /\ at = "reply" =>
          /\ stage \in {"AwaitHandshake", "AwaitSelect", "Listening"}
          /\ Len(toSlave) <= 1 /\ (toSlave # <<>> => stage = "AwaitHandshake")
          /\ Len(toMaster) <= 1 /\ (stage = "AwaitHandshake" => toMaster = <<>>)
          /\ NoConfirmation
    /\ at = "name" =>
          /\ Len(toSlave) <= 1 /\ (toSlave # <<>> => stage = "AwaitSelect")
          /\ stage = "AwaitSelect" => toMaster = <<>>
          /\ \A i \in DOMAIN toMaster : toMaster[i].kind = "OK" => i = 1
    /\ at = "ask" => toSlave = <<>> /\ NoConfirmation /\ stage # "AwaitSelect"
    /\ at = "confirm" =>
          /\ stage # "AwaitSelect"
          /\ \A i \in DOMAIN toSlave : toSlave[i].kind = credentials
          /\ NoConfirmation \/ (credentials = "Auth" /\ authenticated)

\* Both sides use the same cipher from the reply on.
CipherInv ==
    /\ masterOpen /\ at \in Dialogue \cup {"idle"} => stage # "AwaitHandshake"
    /\ SameCipher
    /\ at = "reply" /\ stage \in {"AwaitSelect", "AwaitAuth", "Running"} =>
          \A i \in DOMAIN toMaster :
             toMaster[i].kind = "OPDI" => toMaster[i].announced = encryption

AttemptInv ==
    /\ StatusInv
    /\ AnnouncedInv
    /\ CredentialsProtected
    /\ DialogueInv
    /\ CipherInv

ConnectionInv == SessionInv /\ LastInv /\ MasterTypes /\ AttemptInv

-----------------------------------------------------------------------------
(* What is under way                                                       *)

\* A message to the master says whether it announces encryption.
LEMMA MasterMessages ==
    \A m \in ToMasterType : m.announced \in BOOLEAN /\ m.kind \in {"OPDI", "OK", "NOK"}
BY DEF ToMasterType

\* The messages that remain when the first one is read.
LEMMA TailElements ==
    ASSUME NEW T, NEW s \in Seq(T), s # <<>>
    PROVE  /\ 1 \in DOMAIN s /\ Head(s) = s[1] /\ s[1] \in T
           /\ Tail(s) \in Seq(T)
           /\ Len(Tail(s)) = Len(s) - 1
           /\ \A i \in DOMAIN Tail(s) : i + 1 \in DOMAIN s /\ Tail(s)[i] = s[i + 1]
<1>1. Len(s) \in Nat \ {0} /\ DOMAIN s = 1..Len(s)
    BY EmptySeq, LenProperties
<1>2. /\ Head(s) \in T
      /\ Tail(s) \in Seq(T)
      /\ Len(Tail(s)) = Len(s) - 1
      /\ \A i \in 1..Len(Tail(s)) : Tail(s)[i] = s[i + 1]
    BY HeadTailProperties
<1>3. DOMAIN Tail(s) = 1..(Len(s) - 1)
    BY <1>2, LenProperties
<1>4. Head(s) = s[1]
    BY <1>1
<1> QED
    BY <1>1, <1>2, <1>3, <1>4

\* Every message under way after others were added was there or was added.
LEMMA JoinedElements ==
    ASSUME NEW T, NEW s \in Seq(T), NEW t \in Seq(T)
    PROVE  /\ s \o t \in Seq(T)
           /\ Len(s \o t) = Len(s) + Len(t)
           /\ s = <<>> => s \o t = t
           /\ t = <<>> => s \o t = s
           /\ \A i \in DOMAIN (s \o t) :
                 \/ i \in DOMAIN s /\ (s \o t)[i] = s[i]
                 \/ i - Len(s) \in DOMAIN t /\ (s \o t)[i] = t[i - Len(s)]
<1>1. Len(s) \in Nat /\ Len(t) \in Nat /\ DOMAIN s = 1..Len(s) /\ DOMAIN t = 1..Len(t)
    BY LenProperties
<1>2. /\ s \o t \in Seq(T)
      /\ Len(s \o t) = Len(s) + Len(t)
      /\ \A i \in 1..(Len(s) + Len(t)) :
            (s \o t)[i] = IF i <= Len(s) THEN s[i] ELSE t[i - Len(s)]
    BY ConcatProperties
<1>3. DOMAIN (s \o t) = 1..(Len(s) + Len(t))
    BY <1>2, LenProperties
<1>4. (s = <<>> => s \o t = t) /\ (t = <<>> => s \o t = s)
    BY ConcatEmptySeq
<1>5. ASSUME NEW i \in DOMAIN (s \o t)
      PROVE  \/ i \in DOMAIN s /\ (s \o t)[i] = s[i]
             \/ i - Len(s) \in DOMAIN t /\ (s \o t)[i] = t[i - Len(s)]
    <2> DEFINE j == s \o t
    <2> HIDE DEF j
    <2>1. i \in 1..(Len(s) + Len(t)) /\ j[i] = IF i <= Len(s) THEN s[i] ELSE t[i - Len(s)]
        BY <1>2, <1>3 DEF j
    <2>2. CASE i <= Len(s)
        BY <1>1, <2>1, <2>2 DEF j
    <2>3. CASE ~(i <= Len(s))
        BY <1>1, <2>1, <2>3 DEF j
    <2> QED
        BY <2>2, <2>3
<1> QED
    BY <1>2, <1>4, <1>5

\* One and two messages.
LEMMA ShortSequences ==
    ASSUME NEW T, NEW d \in T, NEW f \in T
    PROVE  /\ \A D : D = [i \in {1} |-> d] =>
                 D \in Seq(T) /\ Len(D) = 1 /\ DOMAIN D = {1} /\ D[1] = d
           /\ \A D : D = [i \in {1, 2} |-> IF i = 1 THEN d ELSE f] =>
                 D \in Seq(T) /\ DOMAIN D = {1, 2} /\ D[1] = d /\ D[2] = f
<1>1. ASSUME NEW D, D = [i \in {1} |-> d]
      PROVE  D \in Seq(T) /\ Len(D) = 1 /\ DOMAIN D = {1} /\ D[1] = d
    <2>1. D = <<d>>
        BY <1>1
    <2>2. DOMAIN D = {1} /\ D[1] = d
        BY <1>1
    <2> QED
        BY <2>1, <2>2
<1>2. ASSUME NEW D, D = [i \in {1, 2} |-> IF i = 1 THEN d ELSE f]
      PROVE  D \in Seq(T) /\ DOMAIN D = {1, 2} /\ D[1] = d /\ D[2] = f
    <2>1. D = <<d, f>>
        BY <1>2
    <2>2. DOMAIN D = {1, 2} /\ D[1] = d /\ D[2] = f
        BY <1>2
    <2> QED
        BY <2>1, <2>2
<1> QED
    BY <1>1, <1>2

\* The master has sent something.
LEMMA Transmitted ==
    ASSUME toSlave \in Seq(ToSlaveType), NEW ms \in Seq(ToSlaveType), Transmit(ms)
    PROVE  /\ toSlave' \in Seq(ToSlaveType)
           /\ toSlave = <<>> => toSlave' \in {ms, <<>>}
           /\ stage = "Listening" => toSlave' = <<>>
           /\ \A i \in DOMAIN toSlave' :
                 \/ \E j \in DOMAIN toSlave : toSlave'[i] = toSlave[j]
                 \/ \E j \in DOMAIN ms : toSlave'[i] = ms[j]
<1>1. CASE stage = "Listening"
    BY <1>1 DEF Transmit
<1>2. CASE stage # "Listening"
    <2>1. toSlave' = toSlave \o ms
        BY <1>2 DEF Transmit
    <2> QED
        BY <1>2, <2>1, JoinedElements
<1> QED
    BY <1>1, <1>2

-----------------------------------------------------------------------------
(* The steps of the slave                                                  *)

\* The composition adds nothing to the slave: every step is one of SlaveSession or
\* leaves the slave alone.
LEMMA StepIsSessionStep ==
    ASSUME master \in Master, toSlave \in Seq(ToSlaveType), [HandshakeNext]_allVars
    PROVE  [Next]_vars
<1>1. ASSUME ConnectThread \/ IoFails \/ User
      PROVE  [Next]_vars
    <2>1. CASE TryConnect
        BY <2>1 DEF TryConnect, Next
    <2>2. CASE \/ Initiate \/ ConnectFails \/ ReadRefusal \/ ReadReply \/ ReadName
               \/ ReadConfirmation \/ NoticeAbort \/ Timeout \/ Agreed \/ Open \/ Report
               \/ IoFails
        BY <2>2 DEF Initiate, ConnectFails, ReadRefusal, ReadReply, ReadName,
                    ReadConfirmation, Receives, NoticeAbort, Timeout, Agreed, Open,
                    Report, IoFails
    <2>3. CASE User
        BY <2>3 DEF User, StartConnect, AbortConnect, AbortWithoutAttempt,
                    EnterCredentials, CancelCredentials, ConnectionEnds
    <2> QED
        BY <1>1, <2>1, <2>2, <2>3 DEF ConnectThread
<1>2. ASSUME NEW m, SlaveReads(m)
      PROVE  Next
    <2>1. CASE RecvHandshake([channel |-> ControlChannel, valid |-> TRUE,
                              flags |-> master.flags, methodListed |-> master.listed])
        <3>1. master.flags \in MasterFlags /\ master.listed \in BOOLEAN
            BY HandshakeAssumption DEF HandshakeAssumption, MasterType
        <3>2. [channel |-> ControlChannel, valid |-> TRUE,
               flags |-> master.flags, methodListed |-> master.listed]
                 \in HandshakeMessage
            BY <3>1 DEF HandshakeMessage
        <3> QED
            BY <2>1, <3>2 DEF Next, GetMessageReturns
    <2>2. CASE RecvSelect([channel |-> ControlChannel,
                           kind |-> IF m.kind \in {"Dis", "BP", "EP"} THEN m.kind
                                    ELSE "malformed"])
        <3>1. [channel |-> ControlChannel,
               kind |-> IF m.kind \in {"Dis", "BP", "EP"} THEN m.kind ELSE "malformed"]
                 \in SelectMessage
            BY DEF SelectMessage
        <3> QED
            BY <2>2, <3>1 DEF Next, GetMessageReturns
    <2>3. CASE RecvAuth([channel |-> ControlChannel,
                         kind |-> IF m.kind \in Password THEN m.kind ELSE "Dis"])
        <3>1. [channel |-> ControlChannel,
               kind |-> IF m.kind \in Password THEN m.kind ELSE "Dis"] \in AuthMessage
            BY DEF AuthMessage, Password
        <3> QED
            BY <2>3, <3>1 DEF Next, GetMessageReturns
    <2>4. CASE RecvControl("Dis")
        BY <2>4 DEF Next, GetMessageReturns
    <2> QED
        BY <1>2, <2>1, <2>2, <2>3, <2>4 DEF SlaveReads
<1>3. ASSUME Slave
      PROVE  Next
    BY <1>2, <1>3 DEF Slave, SlaveReceives, SlaveGivesUp, Next, GetMessageReturns
<1>4. CASE UNCHANGED allVars
    BY <1>4 DEF allVars
<1> QED
    BY <1>1, <1>3, <1>4 DEF HandshakeNext

\* What reaches the master of nothing, of one message and of two.
LEMMA DeliverNone == out' = <<>> => Delivered = <<>> /\ Delivered \in Seq(ToMasterType)
<1> SUFFICES ASSUME out' = <<>> PROVE Delivered = <<>> /\ Delivered \in Seq(ToMasterType)
    OBVIOUS
<1>1. {i \in DOMAIN out' : out'[i].sent} = {}
    OBVIOUS
<1>2. Delivered = <<>>
    BY <1>1 DEF Delivered
<1> QED
    BY <1>2

\* One message reaches the master if it could be sent.
LEMMA DeliverOne ==
    ASSUME NEW c, NEW k \in {"OPDI", "OK", "NOK"}, NEW sent \in BOOLEAN,
           encryption \in BOOLEAN, useEncryption' \in BOOLEAN,
           out' = <<Message(c, k, sent)>>
    PROVE  /\ Delivered \in Seq(ToMasterType)
           /\ Len(Delivered) <= 1
           /\ ~sent => Delivered = <<>>
           /\ \A i \in DOMAIN Delivered :
                 i = 1 /\ Delivered[i].kind = k /\ Delivered[i].announced = useEncryption'
<1> DEFINE d == [kind |-> k, encrypted |-> encryption, announced |-> useEncryption']
           D == Delivered
<1>1. DOMAIN out' = {1} /\ out'[1].sent = sent /\ out'[1].kind = k
      /\ out'[1].encrypted = encryption
    BY DEF Message
<1>2. d \in ToMasterType
    BY DEF ToMasterType
<1>3. CASE sent
    <2>1. {i \in DOMAIN out' : out'[i].sent} = {1}
        BY <1>1, <1>3, Zenon
    <2>2. D = [i \in {1} |-> d]
        BY <1>1, <2>1 DEF Delivered
    <2> HIDE DEF d, D
    <2>3. D \in Seq(ToMasterType) /\ Len(D) = 1 /\ DOMAIN D = {1} /\ D[1] = d
        BY <1>2, <2>2, ShortSequences
    <2>4. D[1].kind = k /\ D[1].announced = useEncryption'
        BY <2>3 DEF d
    <2> QED
        BY <1>3, <2>3, <2>4 DEF D
<1>4. CASE ~sent
    <2>1. {i \in DOMAIN out' : out'[i].sent} = {}
        BY <1>1, <1>4, Zenon
    <2>2. Delivered = <<>>
        BY <2>1 DEF Delivered
    <2> QED
        BY <2>2
<1> QED
    BY <1>3, <1>4

\* Of two messages, the second one is lost when it could not be sent.
LEMMA DeliverTwo ==
    ASSUME NEW c, NEW k \in {"OPDI", "OK", "NOK"},
           NEW e, NEW l \in {"OPDI", "OK", "NOK"}, NEW sent \in BOOLEAN,
           encryption \in BOOLEAN, useEncryption' \in BOOLEAN,
           out' = <<Message(c, k, TRUE), Message(e, l, sent)>>
    PROVE  /\ Delivered \in Seq(ToMasterType)
           /\ \A i \in DOMAIN Delivered :
                 \/ i = 1 /\ Delivered[i].kind = k
                 \/ i = 2 /\ Delivered[i].kind = l
<1> DEFINE d == [kind |-> k, encrypted |-> encryption, announced |-> useEncryption']
           f == [kind |-> l, encrypted |-> encryption, announced |-> useEncryption']
           D == Delivered
<1>1. /\ DOMAIN out' = {1, 2} /\ out'[1].sent /\ out'[2].sent = sent
      /\ out'[1].kind = k /\ out'[1].encrypted = encryption
      /\ out'[2].kind = l /\ out'[2].encrypted = encryption
    BY DEF Message
<1>2. d \in ToMasterType /\ f \in ToMasterType /\ d.kind = k /\ f.kind = l
    BY DEF ToMasterType
<1>3. CASE sent
    <2>1. {i \in DOMAIN out' : out'[i].sent} = {1, 2}
        BY <1>1, <1>3, Zenon
    <2>2. D = [i \in {1, 2} |-> IF i = 1 THEN d ELSE f]
        BY <1>1, <2>1 DEF Delivered
    <2> HIDE DEF d, f, D
    <2>3. D \in Seq(ToMasterType) /\ D[1] = d /\ D[2] = f /\ DOMAIN D = {1, 2}
        BY <1>2, <2>2, ShortSequences
    <2> QED
        BY <1>2, <2>3 DEF D
<1>4. CASE ~sent
    <2>1. {i \in DOMAIN out' : out'[i].sent} = {1}
        <3>1. 1 # 2
            OBVIOUS
        <3> QED
            BY <1>1, <1>4, <3>1, Zenon
    <2>2. D = [i \in {1} |-> d]
        BY <1>1, <2>1 DEF Delivered
    <2> HIDE DEF d, D
    <2>3. D \in Seq(ToMasterType) /\ D[1] = d /\ DOMAIN D = {1}
        BY <1>2, <2>2, ShortSequences
    <2> QED
        BY <1>2, <2>3 DEF D
<1> QED
    BY <1>3, <1>4

\* Two messages written after each other.
LEMMA JoinedPair == \A a, b : <<a>> \o <<b>> = <<a, b>>
<1> SUFFICES ASSUME NEW a, NEW b PROVE <<a>> \o <<b>> = <<a, b>>
    OBVIOUS
<1> DEFINE u == <<a>>
           v == <<b>>
           w == <<a, b>>
<1>1. /\ u \in Seq({a, b}) /\ Len(u) = 1 /\ u[1] = a
      /\ v \in Seq({a, b}) /\ Len(v) = 1 /\ v[1] = b
    OBVIOUS
<1>2. w \in Seq({a, b}) /\ Len(w) = 2 /\ w[1] = a /\ w[2] = b
    OBVIOUS
<1> HIDE DEF u, v, w
<1>3. /\ u \o v \in Seq({a, b})
      /\ Len(u \o v) = Len(u) + Len(v)
      /\ \A i \in 1..(Len(u) + Len(v)) :
            (u \o v)[i] = IF i <= Len(u) THEN u[i] ELSE v[i - Len(u)]
    BY <1>1, ConcatProperties
<1> DEFINE t == u \o v
<1> HIDE DEF t
<1>4. t \in Seq({a, b}) /\ Len(t) = 2 /\ t[1] = a /\ t[2] = b
    BY <1>1, <1>3 DEF t
<1>5. \A i \in 1..Len(t) : t[i] = w[i]
    <2>1. \A i \in 1..2 : i = 1 \/ i = 2
        OBVIOUS
    <2> QED
        BY <1>2, <1>4, <2>1
<1>6. t = w
    BY <1>2, <1>4, <1>5, SeqEqual
<1> QED
    BY <1>6 DEF t, u, v, w

\* What a send function whose status is looked at leaves in out.
LEMMA SentOnce ==
    ASSUME NEW c, NEW k, NEW o \in Send(c, k) \cup SendIgnored(c, k), out' = o.out
    PROVE  \E sent \in BOOLEAN :
              /\ out' = <<Message(c, k, sent)>>
              /\ o \in Send(c, k) => (o.res = "OK" <=> sent)
<1>1. CASE o \in Send(c, k)
    <2>1. \/ o = Outcome("OK", <<Message(c, k, TRUE)>>)
          \/ o = Outcome("DEVICE_ERROR", <<Message(c, k, FALSE)>>)
        BY <1>1 DEF Send
    <2>2. CASE o = Outcome("OK", <<Message(c, k, TRUE)>>)
        BY <2>2 DEF Outcome
    <2>3. CASE o = Outcome("DEVICE_ERROR", <<Message(c, k, FALSE)>>)
        BY <2>3 DEF Outcome
    <2> QED
        BY <2>1, <2>2, <2>3
<1>2. CASE o \notin Send(c, k)
    <2>1. PICK sent \in BOOLEAN : o = Outcome("OK", <<Message(c, k, sent)>>)
        BY <1>2 DEF SendIgnored
    <2>2. out' = <<Message(c, k, sent)>>
        BY <2>1 DEF Outcome
    <2> QED
        BY <1>2, <2>2
<1> QED
    BY <1>1, <1>2

\* The answer to the handshake message: a reply is followed by the choice of the
\* protocol, in the cipher it announces.
HandshakeAnswer ==
    /\ stage = "AwaitHandshake" /\ stage' \in {"AwaitSelect", "Listening"}
    /\ toSlave # <<>>
    /\ Len(Delivered) <= 1
    /\ \A i \in DOMAIN Delivered :
          \/ Delivered[i].kind = "NOK"
          \/ /\ Delivered[i].kind = "OPDI" /\ stage' = "AwaitSelect"
             /\ Delivered[i].announced = encryption'
             /\ DeviceHonoured(Delivered[i].announced)
    /\ UNCHANGED authenticated

\* The slave's name.
NameAnswer ==
    /\ stage = "AwaitSelect" /\ stage' \in {"AwaitAuth", "Running", "Listening"}
    /\ toSlave # <<>>
    /\ \A i \in DOMAIN Delivered :
          Delivered[i].kind = "NOK" \/ (Delivered[i].kind = "OK" /\ i = 1)
    /\ UNCHANGED <<encryption, authenticated>>

\* What the slave says of the credentials.
AuthAnswer ==
    /\ stage = "AwaitAuth" /\ stage' \in {"Running", "Listening"}
    /\ toSlave # <<>>
    /\ \A i \in DOMAIN Delivered :
          \/ Delivered[i].kind = "NOK"
          \/ Delivered[i].kind = "OK" /\ Head(toSlave).kind = "Auth"
    /\ Head(toSlave).kind = "Auth" => authenticated'
    /\ UNCHANGED encryption

\* The slave ends the connection without a word.
Silence ==
    /\ stage' = "Listening"
    /\ Delivered = <<>>
    /\ UNCHANGED <<encryption, authenticated>>

\* RecvHandshake answers with a refusal or a reply, and the reply announces the encryption
\* that is switched on.
LEMMA HandshakeDelivers ==
    ASSUME SessionInv, SessionInv', toSlave # <<>>,
           NEW m \in HandshakeMessage, RecvHandshake(m)
    PROVE  HandshakeAnswer /\ Delivered \in Seq(ToMasterType)
<1>0. /\ stage = "AwaitHandshake" /\ stage' \in {"AwaitSelect", "Listening"}
      /\ UNCHANGED <<dev, authenticated>>
    BY HandshakeStage DEF RecvHandshake, SessionInv
<1>1. encryption \in BOOLEAN /\ useEncryption' \in BOOLEAN
    BY DEF SessionInv, StageInv, SessionTypes
<1>2. CASE out' = <<>>
    BY <1>0, <1>2, DeliverNone DEF HandshakeAnswer
<1>3. CASE \E c : \E sent \in BOOLEAN : out' = <<Message(c, "NOK", sent)>>
    <2>1. PICK c : \E sent \in BOOLEAN : out' = <<Message(c, "NOK", sent)>>
        BY <1>3
    <2>2. PICK sent \in BOOLEAN : out' = <<Message(c, "NOK", sent)>>
        BY <2>1
    <2>3. /\ Delivered \in Seq(ToMasterType) /\ Len(Delivered) <= 1
          /\ \A i \in DOMAIN Delivered : Delivered[i].kind = "NOK"
        BY <1>1, <2>2, DeliverOne
    <2> QED
        BY <1>0, <2>3 DEF HandshakeAnswer
<1>4. CASE \E sent \in BOOLEAN :
              /\ out' = <<Message(ControlChannel, "OPDI", sent)>>
              /\ sent => stage' = "AwaitSelect"
    <2>1. PICK sent \in BOOLEAN :
             /\ out' = <<Message(ControlChannel, "OPDI", sent)>>
             /\ sent => stage' = "AwaitSelect"
        BY <1>4
    <2>2. /\ Delivered \in Seq(ToMasterType) /\ Len(Delivered) <= 1
          /\ ~sent => Delivered = <<>>
          /\ \A i \in DOMAIN Delivered :
                Delivered[i].kind = "OPDI" /\ Delivered[i].announced = useEncryption'
        BY <1>1, <2>1, DeliverOne
    <2>3. CASE ~sent
        BY <1>0, <2>2, <2>3 DEF HandshakeAnswer
    <2>4. CASE sent
        <3>1. /\ encryption' = useEncryption'
              /\ dev.encryptionRequired => encryption'
              /\ dev.encryptionNotAllowed => ~encryption'
            BY <1>0, <2>1, <2>4
            DEF SessionInv, StageInv, EncryptionAsAnnounced, FlagsInv, AfterReply
        <3>2. DeviceHonoured(useEncryption')
            BY <3>1 DEF DeviceHonoured
        <3> QED
            BY <1>0, <2>1, <2>2, <2>4, <3>1, <3>2 DEF HandshakeAnswer
    <2> QED
        BY <2>3, <2>4
<1>5. \/ out' = <<>>
      \/ \E c : \E sent \in BOOLEAN : out' = <<Message(c, "NOK", sent)>>
      \/ \E sent \in BOOLEAN : /\ out' = <<Message(ControlChannel, "OPDI", sent)>>
                               /\ sent => stage' = "AwaitSelect"
    <2>1. CASE ~m.valid
        BY <2>1 DEF RecvHandshake
    <2>2. CASE m.valid /\ Refusal(m) # "OK"
        <3>1. PICK o \in SendIgnored(RefusalChannel, "NOK") : out' = o.out
            BY <2>2 DEF RecvHandshake
        <3> QED
            BY <3>1, SentOnce
    <2>3. CASE m.valid /\ Refusal(m) = "OK"
        <3>1. PICK o \in Fail("FUNCTION_UNKNOWN") \cup Send(ControlChannel, "OPDI") :
                 /\ out' = o.out
                 /\ stage' = IF o.res = "OK" THEN "AwaitSelect" ELSE "Listening"
            BY <2>3 DEF RecvHandshake
        <3>2. CASE o \in Fail("FUNCTION_UNKNOWN")
            BY <3>1, <3>2 DEF Fail, Outcome
        <3>3. CASE o \in Send(ControlChannel, "OPDI")
            BY <3>1, <3>3, SentOnce
        <3> QED
            BY <3>1, <3>2, <3>3
    <2> QED
        BY <2>1, <2>2, <2>3 DEF RecvHandshake
<1> QED
    BY <1>2, <1>3, <1>4, <1>5

\* RecvSelect answers with the name, and behind it a refusal at most.
LEMMA NameDelivers ==
    ASSUME SessionInv, toSlave # <<>>, NEW m \in SelectMessage, RecvSelect(m)
    PROVE  NameAnswer /\ Delivered \in Seq(ToMasterType)
<1>0. /\ stage = "AwaitSelect" /\ stage' \in {"AwaitAuth", "Running", "Listening"}
      /\ UNCHANGED <<dev, encryption, useEncryption, authenticated>>
    <2>1. stage' \in {"AwaitAuth", "Running", "Listening"}
        BY SelectStage DEF SessionInv
    <2> QED
        BY <2>1 DEF RecvSelect
<1>1. encryption \in BOOLEAN /\ useEncryption' \in BOOLEAN
    BY <1>0 DEF SessionInv, StageInv, SessionTypes
<1>2. CASE out' = <<>>
    BY <1>0, <1>2, DeliverNone DEF NameAnswer
<1>3. CASE \E sent \in BOOLEAN : out' = <<Message(ControlChannel, "OK", sent)>>
    <2>1. PICK sent \in BOOLEAN : out' = <<Message(ControlChannel, "OK", sent)>>
        BY <1>3
    <2>2. /\ Delivered \in Seq(ToMasterType)
          /\ \A i \in DOMAIN Delivered : i = 1 /\ Delivered[i].kind = "OK"
        BY <1>1, <2>1, DeliverOne
    <2> QED
        BY <1>0, <2>2 DEF NameAnswer
<1>4. CASE \E sent \in BOOLEAN :
              out' = <<Message(ControlChannel, "OK", TRUE),
                       Message(AuthNotSupportedCode, "NOK", sent)>>
    <2>1. PICK sent \in BOOLEAN :
             out' = <<Message(ControlChannel, "OK", TRUE),
                      Message(AuthNotSupportedCode, "NOK", sent)>>
        BY <1>4
    <2>2. /\ Delivered \in Seq(ToMasterType)
          /\ \A i \in DOMAIN Delivered :
                \/ i = 1 /\ Delivered[i].kind = "OK"
                \/ i = 2 /\ Delivered[i].kind = "NOK"
        BY <1>1, <2>1, DeliverTwo
    <2> QED
        BY <1>0, <2>2 DEF NameAnswer
<1>5. \/ out' = <<>>
      \/ \E sent \in BOOLEAN : out' = <<Message(ControlChannel, "OK", sent)>>
      \/ \E sent \in BOOLEAN : out' = <<Message(ControlChannel, "OK", TRUE),
                                        Message(AuthNotSupportedCode, "NOK", sent)>>
    <2>1. CASE SelectFailure(m) # "OK"
        BY <2>1 DEF RecvSelect
    <2>2. CASE SelectFailure(m) = "OK"
        <3>1. PICK o \in NameOutcomes :
                 \/ out' = o.out
                 \/ /\ o.res = "OK"
                    /\ \E n \in SendIgnored(AuthNotSupportedCode, "NOK") :
                          out' = o.out \o n.out
            BY <2>2, Zenon DEF RecvSelect
        <3>2. CASE o \in Fail("FUNCTION_UNKNOWN")
            <4>1. o.res = "FUNCTION_UNKNOWN" /\ o.out = <<>>
                BY <3>2 DEF Fail, Outcome
            <4>2. "FUNCTION_UNKNOWN" # "OK"
                OBVIOUS
            <4> QED
                BY <3>1, <4>1, <4>2, Zenon
        <3>3. CASE o \in Send(ControlChannel, "OK")
            <4>1. CASE out' = o.out
                BY <3>3, <4>1, SentOnce
            <4>2. CASE /\ o.res = "OK"
                       /\ \E n \in SendIgnored(AuthNotSupportedCode, "NOK") :
                             out' = o.out \o n.out
                <5>1. o.out = <<Message(ControlChannel, "OK", TRUE)>>
                    <6>1. o.res = "OK"
                        BY <4>2, Zenon
                    <6> DEFINE y == <<Message(ControlChannel, "OK", TRUE)>>
                               z == <<Message(ControlChannel, "OK", FALSE)>>
                    <6>2. o = Outcome("OK", y) \/ o = Outcome("DEVICE_ERROR", z)
                        BY <3>3 DEF Send
                    <6> HIDE DEF y, z
                    <6>3. o = Outcome("OK", y)
                        BY <6>1, <6>2 DEF Outcome
                    <6>4. o.out = y
                        BY <6>3 DEF Outcome
                    <6> QED
                        BY <6>4 DEF y
                <5>2. PICK n \in SendIgnored(AuthNotSupportedCode, "NOK") :
                         out' = o.out \o n.out
                    BY <4>2
                <5>3. PICK sent \in BOOLEAN :
                         n = Outcome("OK", <<Message(AuthNotSupportedCode, "NOK", sent)>>)
                    BY DEF SendIgnored
                <5>4. n.out = <<Message(AuthNotSupportedCode, "NOK", sent)>>
                    BY <5>3 DEF Outcome
                <5>5. out' = <<Message(ControlChannel, "OK", TRUE)>>
                                \o <<Message(AuthNotSupportedCode, "NOK", sent)>>
                    BY <5>1, <5>2, <5>4, Zenon
                <5>6. out' = <<Message(ControlChannel, "OK", TRUE),
                               Message(AuthNotSupportedCode, "NOK", sent)>>
                    BY <5>5, JoinedPair, Zenon
                <5> QED
                    BY <5>6, Zenon
            <4> QED
                BY <3>1, <4>1, <4>2
        <3> QED
            BY <3>2, <3>3 DEF NameOutcomes
    <2> QED
        BY <2>1, <2>2
<1> QED
    BY <1>2, <1>3, <1>4, <1>5

\* RecvAuth confirms right credentials only.
LEMMA AuthDelivers ==
    ASSUME SessionInv, toSlave # <<>>, NEW m \in AuthMessage, RecvAuth(m),
           m.kind = "Auth" <=> Head(toSlave).kind = "Auth"
    PROVE  AuthAnswer /\ Delivered \in Seq(ToMasterType)
<1>0. /\ stage = "AwaitAuth" /\ stage' \in {"Running", "Listening"}
      /\ m.kind = "Auth" => authenticated'
      /\ UNCHANGED <<dev, encryption, useEncryption>>
    <2>1. stage' \in {"Running", "Listening"}
        BY AuthStage DEF SessionInv
    <2> QED
        BY <2>1 DEF RecvAuth
<1>1. encryption \in BOOLEAN /\ useEncryption' \in BOOLEAN
    BY <1>0 DEF SessionInv, StageInv, SessionTypes
<1>2. CASE ~Accepted(m)
    <2>1. PICK o \in SendIgnored(ControlChannel, "NOK") : out' = o.out
        BY <1>2 DEF RecvAuth
    <2>2. PICK sent \in BOOLEAN : out' = <<Message(ControlChannel, "NOK", sent)>>
        BY <2>1, SentOnce
    <2>3. /\ Delivered \in Seq(ToMasterType)
          /\ \A i \in DOMAIN Delivered : Delivered[i].kind = "NOK"
        BY <1>1, <2>2, DeliverOne
    <2> QED
        BY <1>0, <2>3 DEF AuthAnswer
<1>3. CASE Accepted(m)
    <2>1. PICK o \in Send(ControlChannel, "OK") : out' = o.out
        BY <1>3 DEF RecvAuth
    <2>2. PICK sent \in BOOLEAN : out' = <<Message(ControlChannel, "OK", sent)>>
        BY <2>1, SentOnce
    <2>3. /\ Delivered \in Seq(ToMasterType)
          /\ \A i \in DOMAIN Delivered : Delivered[i].kind = "OK"
        BY <1>1, <2>2, DeliverOne
    <2> QED
        BY <1>0, <1>3, <2>3 DEF AuthAnswer, Accepted
<1> QED
    BY <1>2, <1>3

\* Every step of the slave.
LEMMA SlaveSteps ==
    ASSUME SessionInv, SessionInv', master \in Master, toSlave \in Seq(ToSlaveType), Slave
    PROVE  /\ toSlave' = IF stage' = "Listening" THEN <<>> ELSE Tail(toSlave)
           /\ toMaster' = IF masterOpen THEN toMaster \o Delivered ELSE toMaster
           /\ UNCHANGED <<settings, threadVars, masterOpen, status, aborted, cipherOn,
                          stored, dev>>
           /\ disturbed \in BOOLEAN => disturbed' \in BOOLEAN
           /\ Delivered \in Seq(ToMasterType)
           /\ HandshakeAnswer \/ NameAnswer \/ AuthAnswer \/ Silence
<1>1. CASE ReceiveFails
    <2>1. /\ stage' = "Listening" /\ out' = <<>>
          /\ UNCHANGED <<dev, encryption, authenticated>>
        BY <1>1 DEF ReceiveFails, EndSession, Abort
    <2>2. Silence /\ Delivered \in Seq(ToMasterType)
        BY <2>1, DeliverNone DEF Silence
    <2> QED
        BY <2>1, <2>2 DEF Slave, SlaveReceives, SlaveGivesUp, SlaveExchange
<1>2. CASE SlaveReceives /\ ~ReceiveFails
    <2>0. toSlave # <<>> /\ SlaveReads(Head(toSlave)) /\ SlaveExchange(Tail(toSlave))
          /\ disturbed' = (disturbed \/ SlaveFault)
        BY <1>2 DEF SlaveReceives
    <2> DEFINE m == Head(toSlave)
               hand == [channel |-> ControlChannel, valid |-> TRUE,
                        flags |-> master.flags, methodListed |-> master.listed]
               select == [channel |-> ControlChannel,
                          kind |-> IF m.kind \in {"Dis", "BP", "EP"} THEN m.kind
                                   ELSE "malformed"]
               auth == [channel |-> ControlChannel,
                        kind |-> IF m.kind \in Password THEN m.kind ELSE "Dis"]
    <2>1. CASE RecvHandshake(hand)
        <3>1. master.flags \in MasterFlags /\ master.listed \in BOOLEAN
            BY HandshakeAssumption DEF HandshakeAssumption, MasterType
        <3>2. hand \in HandshakeMessage
            BY <3>1 DEF HandshakeMessage
        <3>3. UNCHANGED dev
            BY <2>1 DEF RecvHandshake
        <3> HIDE DEF hand
        <3>4. HandshakeAnswer /\ Delivered \in Seq(ToMasterType)
            BY <2>0, <2>1, <3>2, HandshakeDelivers
        <3> QED
            BY <2>0, <3>3, <3>4 DEF SlaveExchange
    <2>2. CASE RecvSelect(select)
        <3>1. select \in SelectMessage
            BY DEF SelectMessage
        <3>2. UNCHANGED dev
            BY <2>2 DEF RecvSelect
        <3> HIDE DEF select
        <3>3. NameAnswer /\ Delivered \in Seq(ToMasterType)
            BY <2>0, <2>2, <3>1, NameDelivers
        <3> QED
            BY <2>0, <3>2, <3>3 DEF SlaveExchange
    <2>3. CASE RecvAuth(auth)
        <3>1. auth \in AuthMessage /\ (auth.kind = "Auth" <=> m.kind = "Auth")
            BY DEF AuthMessage, Password
        <3>2. UNCHANGED dev
            BY <2>3 DEF RecvAuth
        <3> HIDE DEF auth
        <3>3. AuthAnswer /\ Delivered \in Seq(ToMasterType)
            BY <2>0, <2>3, <3>1, AuthDelivers
        <3> QED
            BY <2>0, <3>2, <3>3 DEF SlaveExchange
    <2>4. CASE RecvControl("Dis")
        <3>1. /\ stage' = "Listening" /\ out' = <<>>
              /\ UNCHANGED <<dev, encryption, authenticated>>
            BY <2>4 DEF RecvControl, Finish, Outcome, EndSession, loopVars
        <3>2. Silence /\ Delivered \in Seq(ToMasterType)
            BY <3>1, DeliverNone DEF Silence
        <3> QED
            BY <2>0, <3>1, <3>2 DEF SlaveExchange
    <2> QED
        BY <2>0, <2>1, <2>2, <2>3, <2>4 DEF SlaveReads
<1> QED
    BY <1>1, <1>2 DEF Slave, SlaveGivesUp

-----------------------------------------------------------------------------
(* The steps of the master                                                 *)

\* No password is added to what is under way.
NoNewPassword ==
    \A i \in DOMAIN toSlave' : toSlave'[i].kind \in Password =>
        \E j \in DOMAIN toSlave : toSlave'[i] = toSlave[j]

\* A step that adds no password protects those under way as before.
LEMMA PasswordsStayProtected ==
    ASSUME CredentialsProtected, NoNewPassword, UNCHANGED <<master, dev>>
    PROVE  CredentialsProtected'
BY DEF CredentialsProtected, NoNewPassword

\* The user and the thread between two messages.
LEMMA QuietKeeps ==
    ASSUME MasterTypes, AttemptInv,
           StartConnect \/ Initiate \/ Agreed \/ Open \/ Report \/ AbortConnect
    PROVE  AttemptInv'
<1>1. UNCHANGED <<stage, encryption, authenticated, dev, master, offer, masterOpen,
                  toSlave, toMaster>>
    BY DEF StartConnect, Initiate, Agreed, Open, Report, AbortConnect, vars, sessionVars,
           settings, network
<1>2. AnnouncedInv'
    BY <1>1 DEF AttemptInv, AnnouncedInv, DeviceHonoured
<1>3. CredentialsProtected'
    BY <1>1 DEF AttemptInv, CredentialsProtected
<1>4. CASE StartConnect \/ Initiate
    <2>1. /\ at' \in {"start", "connect"} /\ status' # "CONNECTED"
        BY <1>4 DEF StartConnect, Initiate
    <2>2. StatusInv'
        BY <2>1 DEF StatusInv, EndIsReported, Dialogue
    <2>3. DialogueInv'
        BY <1>1, <2>1 DEF AttemptInv, DialogueInv, Dialogue
    <2>4. CipherInv'
        BY <2>1 DEF CipherInv, SameCipher, Dialogue
    <2> QED
        BY <1>2, <1>3, <2>2, <2>3, <2>4 DEF AttemptInv
<1>5. CASE Agreed \/ Open
    <2>1. /\ at \in {"agreed", "opening"} /\ at' \in {"opening", "idle"}
          /\ status' = "CONNECTED" /\ UNCHANGED cipherOn
        BY <1>5 DEF Agreed, Open
    <2>2. StatusInv'
        BY <1>1, <2>1
        DEF AttemptInv, StatusInv, EndIsReported, Dialogue, Honoured, FlagsHonoured,
            DeviceHonoured
    <2>3. DialogueInv'
        BY <1>1, <2>1 DEF AttemptInv, DialogueInv, Dialogue
    <2>4. CipherInv'
        BY <1>1, <2>1 DEF AttemptInv, CipherInv, SameCipher, Dialogue
    <2> QED
        BY <1>2, <1>3, <2>2, <2>3, <2>4 DEF AttemptInv
<1>6. CASE Report
    <2>1. /\ at = "failed" /\ at' = "idle" /\ UNCHANGED <<cipherOn, aborted>>
          /\ status' = IF aborted THEN status ELSE FailureStatus
        BY <1>6 DEF Report
    <2>2. FailureStatus \in {"ERROR", "DISCONNECTED"} /\ ~masterOpen
        BY <2>1 DEF FailureStatus, AttemptInv, DialogueInv
    <2>3. StatusInv'
        <3>1. status # "CONNECTED"
            BY <2>1 DEF AttemptInv, StatusInv
        <3>2. CASE aborted
            BY <2>1, <3>1, <3>2 DEF StatusInv, EndIsReported, Dialogue
        <3>3. CASE ~aborted
            BY <2>1, <2>2, <3>3 DEF StatusInv, EndIsReported, Dialogue
        <3> QED
            BY <3>2, <3>3
    <2>4. DialogueInv'
        BY <1>1, <2>1 DEF AttemptInv, DialogueInv, Dialogue
    <2>5. CipherInv'
        BY <1>1, <2>1, <2>2 DEF CipherInv, SameCipher
    <2> QED
        BY <1>2, <1>3, <2>3, <2>4, <2>5 DEF AttemptInv
<1>7. CASE AbortConnect
    <2>1. at # "idle" /\ status' = "DISCONNECTED" /\ UNCHANGED <<at, cipherOn, credentials>>
        BY <1>7 DEF AbortConnect, threadVars
    <2>2. StatusInv'
        BY <1>1, <2>1
        DEF AttemptInv, StatusInv, EndIsReported, Honoured, FlagsHonoured, DeviceHonoured
    <2>3. DialogueInv'
        BY <1>1, <2>1 DEF AttemptInv, DialogueInv, NoConfirmation
    <2>4. CipherInv'
        BY <1>1, <2>1 DEF AttemptInv, CipherInv, SameCipher
    <2> QED
        BY <1>2, <1>3, <2>2, <2>3, <2>4 DEF AttemptInv
<1> QED
    BY <1>4, <1>5, <1>6, <1>7

\* The master closes its socket: the attempt has failed, or a connection ends.
LEMMA ClosedKeeps ==
    ASSUME AttemptInv, CloseSocket, NoNewPassword,
           UNCHANGED <<stage, encryption, authenticated, dev, master, aborted>>,
           \/ at' = "failed" /\ status' # "CONNECTED"
           \/ /\ at = "idle" /\ at' = "idle" /\ UNCHANGED cipherOn
              /\ status' \in {status, "DISCONNECTED", "ERROR"}
    PROVE  AttemptInv'
<1>1. masterOpen' = FALSE /\ toMaster' = <<>> /\ at' \in {"failed", "idle"}
    BY DEF CloseSocket
<1>2. AnnouncedInv'
    BY <1>1 DEF AnnouncedInv
<1>3. CredentialsProtected'
    BY PasswordsStayProtected DEF AttemptInv
<1>4. DialogueInv'
    BY <1>1 DEF DialogueInv, Dialogue
<1>5. CipherInv'
    BY <1>1 DEF CipherInv, SameCipher
<1>6. StatusInv'
    <2>1. CASE at' = "failed" /\ status' # "CONNECTED"
        BY <2>1 DEF StatusInv, EndIsReported, Dialogue
    <2>2. CASE /\ at = "idle" /\ at' = "idle" /\ UNCHANGED cipherOn
               /\ status' \in {status, "DISCONNECTED", "ERROR"}
        BY <2>2
        DEF AttemptInv, StatusInv, EndIsReported, Dialogue, Honoured, FlagsHonoured,
            DeviceHonoured
    <2> QED
        BY <2>1, <2>2
<1> QED
    BY <1>2, <1>3, <1>4, <1>5, <1>6 DEF AttemptInv

\* A closed socket and the empty connection behind it have their types.
LEMMA ClosedTypes ==
    CloseSocket => masterOpen' \in BOOLEAN /\ toMaster' \in Seq(ToMasterType)
<1>1. <<>> \in Seq(ToMasterType) /\ FALSE \in BOOLEAN
    OBVIOUS
<1> QED
    BY <1>1 DEF CloseSocket

\* The handler of a ProtocolException sends at most an error of its own and a
\* Disconnect.
LEMMA ProtocolRaised ==
    ASSUME toSlave \in Seq(ToSlaveType), NEW first \in {<<>>, <<"NOK">>},
           NEW cipher \in BOOLEAN, RaiseProtocol(first, cipher)
    PROVE  /\ at' = "failed" /\ failure' = "failed" /\ CloseSocket
           /\ UNCHANGED <<credentials, save>>
           /\ toSlave' \in Seq(ToSlaveType) /\ NoNewPassword
<1> DEFINE ms == [i \in DOMAIN first |-> ToSlave(first[i], cipher)]
                    \o <<ToSlave("Dis", cipher)>>
<1>1. ToSlave("Dis", cipher) \in ToSlaveType /\ ToSlave("NOK", cipher) \in ToSlaveType
    BY DEF ToSlave, ToSlaveType
<1>2. /\ ms \in Seq(ToSlaveType)
      /\ \A i \in DOMAIN ms : ms[i].kind \in {"NOK", "Dis"}
    <2>1. CASE first = <<>>
        <3>1. [i \in DOMAIN first |-> ToSlave(first[i], cipher)] = <<>>
            BY <2>1
        <3>2. ms = <<ToSlave("Dis", cipher)>>
            BY <1>1, <3>1
        <3> QED
            BY <1>1, <3>2 DEF ToSlave
    <2>2. CASE first = <<"NOK">>
        <3>1. [i \in DOMAIN first |-> ToSlave(first[i], cipher)] = <<ToSlave("NOK", cipher)>>
            BY <2>2
        <3>2. ms = <<ToSlave("NOK", cipher), ToSlave("Dis", cipher)>>
            BY <3>1, JoinedPair
        <3>3. ToSlave("NOK", cipher).kind = "NOK" /\ ToSlave("Dis", cipher).kind = "Dis"
            BY DEF ToSlave
        <3> HIDE DEF ms
        <3>4. \A y, z \in ToSlaveType : ms = <<y, z>> =>
                 ms \in Seq(ToSlaveType) /\ \A i \in DOMAIN ms : ms[i] \in {y, z}
            OBVIOUS
        <3> QED
            BY <1>1, <3>2, <3>3, <3>4
    <2> QED
        BY <2>1, <2>2
<1>3. Transmit(ms)
    BY DEF RaiseProtocol
<1> HIDE DEF ms
<1>4. NoNewPassword /\ toSlave' \in Seq(ToSlaveType)
    BY <1>2, <1>3, Transmitted DEF NoNewPassword, Password
<1> QED
    BY <1>4 DEF RaiseProtocol, Raise

\* The ways an attempt or a connection ends on the side of the master.
LEMMA FailingKeeps ==
    ASSUME MasterTypes, SessionInv, AttemptInv,
           \/ ConnectFails \/ ReadRefusal \/ NoticeAbort \/ Timeout \/ IoFails
           \/ CancelCredentials \/ AbortWithoutAttempt \/ ConnectionEnds
           \/ ReadReply /\ at' = "failed"
    PROVE  AttemptInv' /\ MasterTypes'
<1>1. CASE ConnectFails \/ NoticeAbort \/ Timeout \/ IoFails \/ CancelCredentials
    <2>1. /\ at \in {"connect", "reply", "name", "ask", "confirm"} /\ at' = "failed"
          /\ failure' \in {"failed", "error", "cancelled"} /\ CloseSocket
          /\ UNCHANGED <<credentials, save, toSlave, status, aborted, cipherOn, stored>>
          /\ UNCHANGED vars /\ UNCHANGED <<master, offer>>
        BY <1>1 DEF ConnectFails, NoticeAbort, Timeout, IoFails, CancelCredentials, Raise,
                    GivesUp, Waiting, settings
    <2>2. disturbed' \in BOOLEAN
        BY <1>1 DEF MasterTypes, ConnectFails, NoticeAbort, Timeout, IoFails,
                    CancelCredentials
    <2>3. UNCHANGED <<stage, encryption, authenticated, dev, master, aborted>>
        BY <2>1 DEF vars, sessionVars
    <2>4. status' # "CONNECTED"
        BY <2>1 DEF AttemptInv, StatusInv
    <2>5. NoNewPassword
        BY <2>1 DEF NoNewPassword
    <2>6. AttemptInv'
        BY <2>1, <2>3, <2>4, <2>5, ClosedKeeps
    <2>7. MasterTypes'
        BY <2>1, <2>2, ClosedTypes DEF MasterTypes, Place
    <2> QED
        BY <2>6, <2>7
<1>2. CASE AbortWithoutAttempt \/ ConnectionEnds
    <2>1. /\ at = "idle" /\ CloseSocket
          /\ status' \in {status, "DISCONNECTED", "ERROR"}
          /\ UNCHANGED <<at, failure, credentials, save, aborted, cipherOn, stored,
                         disturbed, master, offer>>
          /\ UNCHANGED vars
        BY <1>2 DEF AbortWithoutAttempt, ConnectionEnds, settings, threadVars
    <2>2. toSlave' \in Seq(ToSlaveType) /\ NoNewPassword
        <3>1. CASE UNCHANGED toSlave
            BY <3>1 DEF MasterTypes, NoNewPassword
        <3>2. CASE Transmit(<<ToSlave("Dis", cipherOn)>>)
            <4> DEFINE ms == <<ToSlave("Dis", cipherOn)>>
            <4>1. ms \in Seq(ToSlaveType) /\ \A i \in DOMAIN ms : ms[i].kind = "Dis"
                BY DEF ToSlave, ToSlaveType, MasterTypes
            <4> HIDE DEF ms
            <4>2. Transmit(ms)
                BY <3>2 DEF ms
            <4> QED
                BY <4>1, <4>2, Transmitted DEF MasterTypes, NoNewPassword, Password
        <3> QED
            BY <1>2, <3>1, <3>2 DEF AbortWithoutAttempt, ConnectionEnds
    <2>3. UNCHANGED <<stage, encryption, authenticated, dev, master, aborted>>
        BY <2>1 DEF vars, sessionVars
    <2>4. AttemptInv'
        BY <2>1, <2>2, <2>3, ClosedKeeps
    <2>5. MasterTypes'
        BY <2>1, <2>2, ClosedTypes DEF MasterTypes
    <2> QED
        BY <2>4, <2>5
<1>3. CASE ReadRefusal \/ (ReadReply /\ at' = "failed")
    <2>1. /\ status = "CONNECTING" /\ toMaster # <<>>
          /\ UNCHANGED <<status, aborted, disturbed, master, offer, stored>>
          /\ UNCHANGED vars
        BY <1>3 DEF ReadRefusal, ReadReply, Receives, settings
    <2>2. Head(toMaster).announced \in BOOLEAN /\ cipherOn \in BOOLEAN
        <3>1. Head(toMaster) \in ToMasterType
            BY <2>1, TailElements DEF MasterTypes
        <3> QED
            BY <3>1, MasterMessages DEF MasterTypes
    <2>3. \E first \in {<<>>, <<"NOK">>}, cipher \in BOOLEAN :
             RaiseProtocol(first, cipher) /\ cipherOn' \in BOOLEAN
        <3>1. CASE ReadRefusal
            BY <2>2, <3>1 DEF ReadRefusal
        <3>2. CASE ReadReply /\ at' = "failed"
            BY <2>2, <3>2 DEF ReadReply, setEncryption
        <3> QED
            BY <1>3, <3>1, <3>2
    <2>4. /\ at' = "failed" /\ failure' = "failed" /\ CloseSocket
          /\ UNCHANGED <<credentials, save>>
          /\ toSlave' \in Seq(ToSlaveType) /\ NoNewPassword /\ cipherOn' \in BOOLEAN
        BY <2>3, ProtocolRaised DEF MasterTypes
    <2>5. UNCHANGED <<stage, encryption, authenticated, dev, master, aborted>>
        BY <2>1 DEF vars, sessionVars
    <2>6. AttemptInv'
        BY <2>1, <2>4, <2>5, ClosedKeeps
    <2>7. MasterTypes'
        BY <2>1, <2>4, ClosedTypes DEF MasterTypes, Place
    <2> QED
        BY <2>6, <2>7
<1> QED
    BY <1>1, <1>2, <1>3

\* The steps between two messages keep the types.
LEMMA QuietTypes ==
    ASSUME MasterTypes,
           StartConnect \/ Initiate \/ Agreed \/ Open \/ Report \/ AbortConnect
    PROVE  MasterTypes'
<1>1. /\ UNCHANGED <<master, offer, failure, credentials, save, stored, masterOpen,
                     toSlave, toMaster>>
      /\ at' \in Place
      /\ status' \in {"DISCONNECTED", "CONNECTING", "CONNECTED", "ERROR"}
    BY DEF StartConnect, Initiate, Agreed, Open, Report, AbortConnect, settings, network,
           threadVars, MasterTypes, Place, FailureStatus
<1>2. cipherOn' \in BOOLEAN /\ aborted' \in BOOLEAN /\ disturbed' \in BOOLEAN
    BY DEF StartConnect, Initiate, Agreed, Open, Report, AbortConnect, clearEncryption,
           MasterTypes
<1> QED
    BY <1>1, <1>2 DEF MasterTypes

\* The master opens a connection and sends its handshake message.
LEMMA ConnectKeeps ==
    ASSUME MasterTypes, AttemptInv, TryConnect
    PROVE  AttemptInv' /\ MasterTypes'
<1>1. /\ at = "connect" /\ stage' = "AwaitHandshake" /\ toMaster' = <<>>
      /\ masterOpen' = ~aborted
      /\ at' = IF aborted THEN "idle" ELSE "reply"
      /\ toSlave' = IF aborted THEN <<>> ELSE <<ToSlave("OPDI", cipherOn)>>
      /\ UNCHANGED <<dev, master, offer, failure, credentials, save, status, aborted,
                     cipherOn, stored, disturbed>>
    BY DEF TryConnect, Connect, settings
<1>2. status # "CONNECTED"
    BY <1>1 DEF AttemptInv, StatusInv
<1>3. AnnouncedInv'
    BY <1>1 DEF AnnouncedInv
<1>4. CASE aborted
    <2>1. at' = "idle" /\ toSlave' = <<>> /\ masterOpen' = FALSE
        BY <1>1, <1>4
    <2>2. StatusInv'
        BY <1>1, <1>2, <1>4, <2>1 DEF StatusInv, EndIsReported, Dialogue
    <2>3. CredentialsProtected' /\ DialogueInv' /\ CipherInv'
        BY <1>1, <2>1 DEF CredentialsProtected, DialogueInv, CipherInv, SameCipher, Dialogue
    <2>4. MasterTypes'
        <3>1. toSlave' \in Seq(ToSlaveType) /\ toMaster' \in Seq(ToMasterType)
            BY <1>1, <2>1
        <3> QED
            BY <1>1, <2>1, <3>1 DEF MasterTypes, Place
    <2> QED
        BY <1>3, <2>2, <2>3, <2>4 DEF AttemptInv
<1>5. CASE ~aborted
    <2> DEFINE s == <<ToSlave("OPDI", cipherOn)>>
    <2>1. at' = "reply" /\ toSlave' = s /\ masterOpen' = TRUE
        BY <1>1, <1>5 DEF MasterTypes
    <2>2. /\ s \in Seq(ToSlaveType) /\ Len(s) = 1
          /\ \A i \in DOMAIN s : s[i].kind = "OPDI"
        BY DEF ToSlave, ToSlaveType, MasterTypes
    <2> HIDE DEF s
    <2>3. StatusInv'
        BY <1>1, <1>2, <2>1 DEF StatusInv, EndIsReported, Dialogue
    <2>4. CredentialsProtected'
        BY <2>1, <2>2 DEF CredentialsProtected, Password
    <2>5. DialogueInv'
        BY <1>1, <2>1, <2>2 DEF DialogueInv, Dialogue, NoConfirmation
    <2>6. CipherInv'
        BY <1>1, <2>1 DEF CipherInv, SameCipher, Dialogue
    <2>7. MasterTypes'
        <3>1. toMaster' \in Seq(ToMasterType)
            BY <1>1
        <3> QED
            BY <1>1, <2>1, <2>2, <3>1 DEF MasterTypes, Place
    <2> QED
        BY <1>3, <2>3, <2>4, <2>5, <2>6, <2>7 DEF AttemptInv
<1> QED
    BY <1>4, <1>5

\* What stays under way to the master when it has read a message.
LEMMA ReadOn ==
    ASSUME MasterTypes, AttemptInv, toMaster # <<>>, toMaster' = Tail(toMaster),
           UNCHANGED dev
    PROVE  /\ toMaster' \in Seq(ToMasterType) /\ AnnouncedInv'
           /\ Len(toMaster) <= 1 => toMaster' = <<>>
           /\ (\A i \in DOMAIN toMaster : toMaster[i].kind = "OK" => i = 1)
                 => NoConfirmation'
           /\ NoConfirmation => NoConfirmation'
<1>1. /\ toMaster' \in Seq(ToMasterType)
      /\ Len(toMaster') = Len(toMaster) - 1
      /\ \A i \in DOMAIN toMaster' :
            i + 1 \in DOMAIN toMaster /\ toMaster'[i] = toMaster[i + 1]
    BY TailElements DEF MasterTypes
<1>2. \A i \in DOMAIN toMaster' : i + 1 # 1 /\ i \in Nat
    BY <1>1, LenProperties
<1>3. AnnouncedInv'
    BY <1>1 DEF AttemptInv, AnnouncedInv, DeviceHonoured
<1>4. Len(toMaster) <= 1 => toMaster' = <<>>
    BY <1>1, LenProperties, EmptySeq DEF MasterTypes
<1> QED
    BY <1>1, <1>2, <1>3, <1>4 DEF NoConfirmation

\* What the master sends when nothing was under way.
LEMMA SendsOne ==
    ASSUME toSlave = <<>>, NEW k \in {"OPDI", "NOK", "Dis", "BP", "EP"} \cup Password,
           NEW cipher \in BOOLEAN, Transmit(<<ToSlave(k, cipher)>>)
    PROVE  /\ toSlave' \in Seq(ToSlaveType) /\ Len(toSlave') <= 1
           /\ toSlave' # <<>> => stage # "Listening"
           /\ \A i \in DOMAIN toSlave' :
                 toSlave'[i].kind = k /\ toSlave'[i].encrypted = cipher
<1> DEFINE s == <<ToSlave(k, cipher)>>
<1>1. ToSlave(k, cipher) \in ToSlaveType
    BY DEF ToSlave, ToSlaveType
<1>2. /\ s \in Seq(ToSlaveType) /\ Len(s) = 1 /\ s # <<>>
      /\ DOMAIN s = {1} /\ s[1] = ToSlave(k, cipher)
    BY <1>1
<1>3. ToSlave(k, cipher).kind = k /\ ToSlave(k, cipher).encrypted = cipher
    BY DEF ToSlave
<1>4. Transmit(s)
    OBVIOUS
<1> HIDE DEF s
<1>5. toSlave \in Seq(ToSlaveType)
    OBVIOUS
<1>6. toSlave' \in {s, <<>>} /\ (stage = "Listening" => toSlave' = <<>>)
    BY <1>2, <1>4, <1>5, Transmitted
<1>7. CASE toSlave' = s
    <2>1. stage # "Listening"
        BY <1>2, <1>6, <1>7
    <2>2. Len(toSlave') <= 1
        <3>1. Len(toSlave') = 1
            BY <1>2, <1>7, Zenon
        <3> QED
            BY <3>1
    <2>3. \A i \in DOMAIN s : s[i] = ToSlave(k, cipher)
        BY <1>2
    <2>4. \A i \in DOMAIN s : s[i].kind = k /\ s[i].encrypted = cipher
        BY <1>3, <2>3, Zenon
    <2> QED
        BY <1>2, <1>7, <2>1, <2>2, <2>4
<1>8. CASE toSlave' = <<>>
    BY <1>8
<1> QED
    BY <1>6, <1>7, <1>8

\* The master agrees to a reply: the encryption it names is what both sides may have,
\* and the slave has switched it on.
LEMMA ReplyKeeps ==
    ASSUME SessionInv, MasterTypes, AttemptInv, ReadReply, at' # "failed"
    PROVE  AttemptInv' /\ MasterTypes'
<1> DEFINE cipher == setEncryption(Head(toMaster).announced)
<1>1. /\ at = "reply" /\ at' = "name" /\ status = "CONNECTING" /\ toMaster # <<>>
      /\ Head(toMaster).kind = "OPDI"
      /\ FlagsHonoured(cipher) /\ offer.protocol # "none" /\ cipherOn' = cipher
      /\ Transmit(<<ToSlave(offer.protocol, cipher)>>) /\ toMaster' = Tail(toMaster)
      /\ UNCHANGED <<master, offer, failure, credentials, save, masterOpen, status,
                     aborted, stored, disturbed>>
      /\ UNCHANGED vars
    BY DEF ReadReply, RaiseProtocol, Raise, Receives, settings
<1>2. UNCHANGED <<dev, stage, encryption, authenticated>>
    BY <1>1 DEF vars, sessionVars
<1>3. /\ 1 \in DOMAIN toMaster /\ Head(toMaster) = toMaster[1]
      /\ toMaster[1] \in ToMasterType
    BY <1>1, TailElements DEF MasterTypes
<1>4. /\ cipher \in BOOLEAN /\ cipher = toMaster[1].announced
      /\ toMaster[1].kind = "OPDI"
    <2>1. toMaster[1].announced \in BOOLEAN
        BY <1>3, MasterMessages
    <2> QED
        BY <1>1, <1>3, <2>1 DEF setEncryption
<1> HIDE DEF cipher
<1>5. /\ stage \in {"AwaitSelect", "Listening"}
      /\ toSlave = <<>> /\ Len(toMaster) <= 1 /\ masterOpen
    BY <1>1 DEF AttemptInv, DialogueInv
<1>6. DeviceHonoured(cipher)
    BY <1>3, <1>4 DEF AttemptInv, AnnouncedInv
<1>7. stage = "AwaitSelect" => cipher = encryption
    BY <1>1, <1>3, <1>4 DEF AttemptInv, CipherInv
<1>8. offer.protocol \in {"BP", "EP"}
    BY <1>1, HandshakeAssumption DEF HandshakeAssumption, OfferType, MasterTypes
<1>9. /\ toSlave' \in Seq(ToSlaveType) /\ Len(toSlave') <= 1
      /\ toSlave' # <<>> => stage # "Listening"
      /\ \A i \in DOMAIN toSlave' : toSlave'[i].kind = offer.protocol
    BY <1>1, <1>4, <1>5, <1>8, SendsOne
<1>10. toMaster' = <<>> /\ toMaster' \in Seq(ToMasterType) /\ AnnouncedInv'
    BY <1>1, <1>2, <1>5, ReadOn
<1>11. StatusInv'
    <2>1. Honoured(cipher)
        BY <1>1, <1>6 DEF Honoured
    <2>2. Honoured(cipherOn)'
        BY <1>1, <1>2, <2>1 DEF Honoured, FlagsHonoured, DeviceHonoured
    <2> QED
        BY <1>1, <2>2 DEF StatusInv, EndIsReported
<1>12. CredentialsProtected'
    BY <1>8, <1>9 DEF CredentialsProtected, Password
<1>13. DialogueInv'
    BY <1>1, <1>2, <1>5, <1>9, <1>10 DEF DialogueInv, Dialogue
<1>14. CipherInv'
    BY <1>1, <1>2, <1>5, <1>7 DEF CipherInv, SameCipher
<1>15. MasterTypes'
    BY <1>1, <1>4, <1>9, <1>10 DEF MasterTypes, Place
<1> QED
    BY <1>10, <1>11, <1>12, <1>13, <1>14, <1>15 DEF AttemptInv

\* The user's credentials are sent, from the device's settings or from the dialog.
LEMMA CredentialsKept ==
    ASSUME SessionInv, MasterTypes, AttemptInv, UNCHANGED vars,
           UNCHANGED <<master, offer, failure, masterOpen, status, aborted, cipherOn,
                       disturbed>>,
           at \in {"name", "ask"}, at' = "confirm", toSlave = <<>>, stage # "AwaitSelect",
           dev.authenticationRequired, save' \in BOOLEAN, credentials' \in Password,
           stored' \in Password \cup {"none"},
           Transmit(<<ToSlave(credentials', cipherOn)>>),
           toMaster' \in Seq(ToMasterType), AnnouncedInv', NoConfirmation'
    PROVE  AttemptInv' /\ MasterTypes'
<1>1. UNCHANGED <<dev, stage, encryption, authenticated>>
    BY DEF vars, sessionVars
<1>2. masterOpen /\ Honoured(cipherOn) /\ status # "CONNECTED"
    BY DEF AttemptInv, DialogueInv, StatusInv, Dialogue
<1>3. /\ toSlave' \in Seq(ToSlaveType) /\ Len(toSlave') <= 1
      /\ \A i \in DOMAIN toSlave' :
            toSlave'[i].kind = credentials' /\ toSlave'[i].encrypted = cipherOn
    BY SendsOne DEF MasterTypes
<1>4. StatusInv'
    BY <1>1, <1>2
    DEF StatusInv, EndIsReported, Dialogue, Honoured, FlagsHonoured, DeviceHonoured
<1>5. CredentialsProtected'
    BY <1>1, <1>2, <1>3
    DEF CredentialsProtected, Honoured, FlagsHonoured, DeviceHonoured
<1>6. DialogueInv'
    BY <1>1, <1>2, <1>3 DEF DialogueInv, Dialogue
<1>7. CipherInv'
    BY <1>1 DEF AttemptInv, CipherInv, SameCipher, Dialogue
<1>8. MasterTypes'
    BY <1>3 DEF MasterTypes, Place
<1> QED
    BY <1>4, <1>5, <1>6, <1>7, <1>8 DEF AttemptInv

\* The slave's name, the dialog, and the confirmation of the credentials.
LEMMA AuthenticationKeeps ==
    ASSUME SessionInv, MasterTypes, AttemptInv,
           ReadName \/ EnterCredentials \/ ReadConfirmation
    PROVE  AttemptInv' /\ MasterTypes'
<1>1. /\ UNCHANGED <<master, offer, failure, masterOpen, status, aborted, cipherOn,
                     disturbed>>
      /\ UNCHANGED vars
    BY DEF ReadName, EnterCredentials, ReadConfirmation, Receives, settings
<1>2. UNCHANGED <<dev, stage, encryption, authenticated>>
    BY <1>1 DEF vars, sessionVars
<1>3. CASE ReadName
    <2>1. /\ at = "name" /\ toMaster # <<>> /\ toMaster' = Tail(toMaster) /\ UNCHANGED stored
          /\ \/ at' = "agreed" /\ UNCHANGED <<toSlave, credentials, save>>
             \/ at' = "ask" /\ AuthenticationRequired /\ UNCHANGED <<toSlave, credentials, save>>
             \/ /\ at' = "confirm" /\ AuthenticationRequired /\ stored # "none"
                /\ credentials' = stored /\ save' = TRUE
                /\ Transmit(<<ToSlave(stored, cipherOn)>>)
        BY <1>3 DEF ReadName, Receives
    <2>2. /\ stage # "AwaitSelect" /\ toSlave = <<>> /\ masterOpen
          /\ \A i \in DOMAIN toMaster : toMaster[i].kind = "OK" => i = 1
        BY <2>1 DEF AttemptInv, DialogueInv
    <2>3. toMaster' \in Seq(ToMasterType) /\ AnnouncedInv' /\ NoConfirmation'
        BY <1>2, <2>1, <2>2, ReadOn
    <2>4. CASE at' \in {"agreed", "ask"} /\ UNCHANGED <<toSlave, credentials, save>>
        <3>1. StatusInv'
            <4>1. at' = "ask" => dev.authenticationRequired
                BY <2>1 DEF AuthenticationRequired
            <4> QED
                BY <1>1, <1>2, <2>1, <2>4, <4>1
                DEF AttemptInv, StatusInv, EndIsReported, Dialogue, Honoured, FlagsHonoured,
                    DeviceHonoured
        <3>2. CredentialsProtected'
            BY <1>1, <1>2, <2>2, <2>4 DEF CredentialsProtected
        <3>3. DialogueInv'
            BY <1>1, <1>2, <2>2, <2>3, <2>4 DEF DialogueInv, Dialogue
        <3>4. CipherInv'
            BY <1>1, <1>2, <2>1, <2>4 DEF AttemptInv, CipherInv, SameCipher, Dialogue
        <3>5. MasterTypes'
            BY <1>1, <2>1, <2>3, <2>4 DEF MasterTypes, Place
        <3> QED
            BY <2>3, <3>1, <3>2, <3>3, <3>4, <3>5 DEF AttemptInv
    <2>5. CASE /\ at' = "confirm" /\ AuthenticationRequired /\ stored # "none"
               /\ credentials' = stored /\ save' = TRUE
               /\ Transmit(<<ToSlave(stored, cipherOn)>>)
        <3>1. /\ credentials' \in Password /\ save' \in BOOLEAN
              /\ stored' \in Password \cup {"none"} /\ dev.authenticationRequired
              /\ Transmit(<<ToSlave(credentials', cipherOn)>>)
            BY <2>1, <2>5 DEF MasterTypes, AuthenticationRequired
        <3> QED
            BY <1>1, <2>1, <2>2, <2>3, <2>5, <3>1, CredentialsKept
    <2> QED
        BY <2>1, <2>4, <2>5
<1>4. CASE EnterCredentials
    <2>1. /\ at = "ask" /\ at' = "confirm" /\ UNCHANGED <<toMaster, stored>>
          /\ credentials' \in Password /\ save' \in BOOLEAN
          /\ Transmit(<<ToSlave(credentials', cipherOn)>>)
        BY <1>4 DEF EnterCredentials, StoreLater
    <2>2. toSlave = <<>> /\ NoConfirmation /\ stage # "AwaitSelect"
        BY <2>1 DEF AttemptInv, DialogueInv
    <2>3. dev.authenticationRequired
        BY <2>1 DEF AttemptInv, StatusInv
    <2>4. /\ toMaster' \in Seq(ToMasterType) /\ AnnouncedInv' /\ NoConfirmation'
          /\ stored' \in Password \cup {"none"}
        BY <1>2, <2>1, <2>2
        DEF MasterTypes, AttemptInv, AnnouncedInv, NoConfirmation, DeviceHonoured
    <2> QED
        BY <1>1, <2>1, <2>2, <2>3, <2>4, CredentialsKept
<1>5. CASE ReadConfirmation
    <2>1. /\ at = "confirm" /\ at' = "agreed" /\ toMaster # <<>> /\ toMaster' = Tail(toMaster)
          /\ stored' \in {credentials, stored} /\ UNCHANGED <<credentials, save, toSlave>>
        BY <1>5 DEF ReadConfirmation, Receives
    <2>2. masterOpen
        BY <2>1 DEF AttemptInv, DialogueInv, Dialogue
    <2>3. toMaster' \in Seq(ToMasterType) /\ AnnouncedInv'
        BY <1>2, <2>1, ReadOn
    <2>4. StatusInv'
        BY <1>1, <1>2, <2>1
        DEF AttemptInv, StatusInv, EndIsReported, Dialogue, Honoured, FlagsHonoured,
            DeviceHonoured
    <2>5. CredentialsProtected'
        BY <1>1, <1>2, <2>1 DEF AttemptInv, CredentialsProtected
    <2>6. DialogueInv'
        BY <1>1, <2>1, <2>2 DEF DialogueInv, Dialogue
    <2>7. CipherInv'
        BY <1>1, <1>2, <2>1 DEF AttemptInv, CipherInv, SameCipher, Dialogue
    <2>8. MasterTypes'
        BY <1>1, <2>1, <2>3 DEF MasterTypes, Place
    <2> QED
        BY <2>3, <2>4, <2>5, <2>6, <2>7, <2>8 DEF AttemptInv
<1> QED
    BY <1>3, <1>4, <1>5

\* Whatever the slave does, the two sides stay in step.
LEMMA SlaveKeeps ==
    ASSUME SessionInv, SessionInv', MasterTypes, AttemptInv, Slave
    PROVE  AttemptInv' /\ MasterTypes'
<1>1. /\ toSlave' = IF stage' = "Listening" THEN <<>> ELSE Tail(toSlave)
      /\ toMaster' = IF masterOpen THEN toMaster \o Delivered ELSE toMaster
      /\ UNCHANGED <<master, offer, at, failure, credentials, save, masterOpen, status,
                     aborted, cipherOn, stored, dev>>
      /\ disturbed' \in BOOLEAN
      /\ Delivered \in Seq(ToMasterType)
      /\ HandshakeAnswer \/ NameAnswer \/ AuthAnswer \/ Silence
    BY SlaveSteps DEF MasterTypes, settings, threadVars
<1> DEFINE D == Delivered
<1> HIDE DEF D
<1>2. /\ toMaster' = IF masterOpen THEN toMaster \o D ELSE toMaster
      /\ D \in Seq(ToMasterType)
      /\ ~masterOpen => toMaster' = <<>>
    BY <1>1 DEF D, AttemptInv, DialogueInv
<1>3. /\ toMaster' \in Seq(ToMasterType)
      /\ \A i \in DOMAIN toMaster' :
            \/ i \in DOMAIN toMaster /\ toMaster'[i] = toMaster[i]
            \/ \E j \in DOMAIN D : toMaster'[i] = D[j]
      /\ toMaster = <<>> => toMaster' \in {D, <<>>}
      /\ D = <<>> => toMaster' = toMaster
    <2>1. CASE masterOpen
        <3>1. /\ toMaster \o D \in Seq(ToMasterType)
              /\ toMaster = <<>> => toMaster \o D = D
              /\ D = <<>> => toMaster \o D = toMaster
              /\ \A i \in DOMAIN (toMaster \o D) :
                    \/ i \in DOMAIN toMaster /\ (toMaster \o D)[i] = toMaster[i]
                    \/ /\ i - Len(toMaster) \in DOMAIN D
                       /\ (toMaster \o D)[i] = D[i - Len(toMaster)]
            BY <1>2, JoinedElements DEF MasterTypes
        <3>2. toMaster' = toMaster \o D
            BY <1>2, <2>1
        <3> QED
            BY <3>1, <3>2
    <2>2. CASE ~masterOpen
        BY <1>2, <2>2 DEF MasterTypes
    <2> QED
        BY <2>1, <2>2
<1>4. /\ toSlave' \in Seq(ToSlaveType)
      /\ \A i \in DOMAIN toSlave' : \E j \in DOMAIN toSlave : toSlave'[i] = toSlave[j]
      /\ Len(toSlave) <= 1 => toSlave' = <<>>
    <2>1. CASE stage' = "Listening"
        BY <1>1, <2>1
    <2>2. CASE stage' # "Listening"
        <3>1. toSlave # <<>> /\ toSlave' = Tail(toSlave)
            BY <1>1, <2>2 DEF HandshakeAnswer, NameAnswer, AuthAnswer, Silence
        <3>2. /\ toSlave' \in Seq(ToSlaveType) /\ Len(toSlave') = Len(toSlave) - 1
              /\ \A i \in DOMAIN toSlave' :
                    i + 1 \in DOMAIN toSlave /\ toSlave'[i] = toSlave[i + 1]
            BY <3>1, TailElements DEF MasterTypes
        <3>3. Len(toSlave) <= 1 => toSlave' = <<>>
            BY <3>1, <3>2, LenProperties, EmptySeq DEF MasterTypes
        <3> QED
            BY <3>2, <3>3
    <2> QED
        BY <2>1, <2>2
<1>5. stage' # "AwaitHandshake"
    BY <1>1 DEF HandshakeAnswer, NameAnswer, AuthAnswer, Silence
<1>6. AnnouncedInv'
    <2>1. \A j \in DOMAIN D : D[j].kind = "OPDI" => DeviceHonoured(D[j].announced)
        BY <1>1 DEF D, HandshakeAnswer, NameAnswer, AuthAnswer, Silence
    <2>2. \A i \in DOMAIN toMaster' :
             toMaster'[i].kind = "OPDI" => DeviceHonoured(toMaster'[i].announced)
        BY <1>3, <2>1 DEF AttemptInv, AnnouncedInv
    <2> QED
        BY <1>1, <2>2 DEF AnnouncedInv, DeviceHonoured
<1>7. CredentialsProtected'
    <2>1. NoNewPassword
        BY <1>4 DEF NoNewPassword
    <2> QED
        BY <1>1, <2>1, PasswordsStayProtected DEF AttemptInv
<1>8. StatusInv'
    BY <1>1
    DEF AttemptInv, StatusInv, EndIsReported, Honoured, FlagsHonoured, DeviceHonoured
<1>9. MasterTypes'
    BY <1>1, <1>3, <1>4 DEF MasterTypes
<1>10. at = "reply" =>
          /\ stage' \in {"AwaitSelect", "Listening"}
          /\ toSlave' = <<>> /\ Len(toMaster') <= 1 /\ NoConfirmation'
          /\ stage' = "AwaitSelect" =>
                \A i \in DOMAIN toMaster' :
                   toMaster'[i].kind = "OPDI" => toMaster'[i].announced = encryption'
    <2> HAVE at = "reply"
    <2>1. /\ stage \in {"AwaitHandshake", "AwaitSelect", "Listening"}
          /\ Len(toSlave) <= 1 /\ (toSlave # <<>> => stage = "AwaitHandshake")
          /\ Len(toMaster) <= 1 /\ (stage = "AwaitHandshake" => toMaster = <<>>)
          /\ NoConfirmation
        BY DEF AttemptInv, DialogueInv
    <2>2. CASE Silence
        <3>1. toMaster' = toMaster
            BY <1>3, <2>2 DEF D, Silence
        <3> QED
            BY <1>1, <1>4, <2>1, <2>2, <3>1 DEF Silence, NoConfirmation
    <2>3. CASE HandshakeAnswer
        <3>1. toMaster' \in {D, <<>>}
            BY <1>3, <2>1, <2>3 DEF HandshakeAnswer
        <3>2. /\ Len(D) <= 1 /\ stage' \in {"AwaitSelect", "Listening"}
              /\ \A i \in DOMAIN D :
                    \/ D[i].kind = "NOK"
                    \/ D[i].kind = "OPDI" /\ D[i].announced = encryption'
            BY <2>3 DEF D, HandshakeAnswer
        <3> QED
            BY <1>4, <2>1, <3>1, <3>2 DEF NoConfirmation
    <2>4. ~NameAnswer /\ ~AuthAnswer
        BY <2>1 DEF NameAnswer, AuthAnswer
    <2> QED
        BY <1>1, <2>2, <2>3, <2>4
<1>11. at \in Dialogue => stage # "AwaitHandshake"
    BY DEF AttemptInv, DialogueInv, CipherInv
<1>12. at = "name" =>
          /\ toSlave' = <<>> /\ stage' # "AwaitSelect"
          /\ \A i \in DOMAIN toMaster' : toMaster'[i].kind = "OK" => i = 1
    <2> HAVE at = "name"
    <2>1. /\ stage # "AwaitHandshake"
          /\ Len(toSlave) <= 1 /\ (toSlave # <<>> => stage = "AwaitSelect")
          /\ stage = "AwaitSelect" => toMaster = <<>>
          /\ \A i \in DOMAIN toMaster : toMaster[i].kind = "OK" => i = 1
        BY <1>11 DEF AttemptInv, DialogueInv, Dialogue
    <2>2. CASE Silence
        <3>1. toMaster' = toMaster
            BY <1>3, <2>2 DEF D, Silence
        <3> QED
            BY <1>4, <2>1, <2>2, <3>1 DEF Silence
    <2>3. CASE NameAnswer
        <3>1. toMaster' \in {D, <<>>}
            BY <1>3, <2>1, <2>3 DEF NameAnswer
        <3>2. /\ stage' # "AwaitSelect"
              /\ \A i \in DOMAIN D : D[i].kind = "OK" => i = 1
            BY <2>3 DEF D, NameAnswer
        <3> QED
            BY <1>4, <2>1, <3>1, <3>2
    <2>4. ~HandshakeAnswer /\ ~AuthAnswer
        BY <2>1 DEF HandshakeAnswer, AuthAnswer
    <2> QED
        BY <1>1, <2>2, <2>3, <2>4
<1>13. at = "ask" => toSlave' = <<>> /\ NoConfirmation' /\ stage' # "AwaitSelect"
    <2> HAVE at = "ask"
    <2>1. toSlave = <<>> /\ NoConfirmation /\ stage # "AwaitSelect"
        BY DEF AttemptInv, DialogueInv
    <2>2. Silence
        BY <1>1, <2>1 DEF HandshakeAnswer, NameAnswer, AuthAnswer
    <2>3. toMaster' = toMaster
        BY <1>3, <2>2 DEF D, Silence
    <2> QED
        BY <1>1, <2>1, <2>2, <2>3 DEF Silence, NoConfirmation
<1>14. at = "confirm" =>
          /\ stage' # "AwaitSelect"
          /\ \A i \in DOMAIN toSlave' : toSlave'[i].kind = credentials
          /\ NoConfirmation' \/ (credentials = "Auth" /\ authenticated')
    <2> HAVE at = "confirm"
    <2>1. /\ stage # "AwaitHandshake" /\ stage # "AwaitSelect"
          /\ \A i \in DOMAIN toSlave : toSlave[i].kind = credentials
          /\ NoConfirmation \/ (credentials = "Auth" /\ authenticated)
        BY <1>11 DEF AttemptInv, DialogueInv, Dialogue
    <2>2. \A i \in DOMAIN toSlave' : toSlave'[i].kind = credentials
        BY <1>4, <2>1
    <2>3. CASE Silence
        <3>1. toMaster' = toMaster
            BY <1>3, <2>3 DEF D, Silence
        <3> QED
            BY <2>1, <2>2, <2>3, <3>1 DEF Silence, NoConfirmation
    <2>4. CASE AuthAnswer
        <3>1. Head(toSlave).kind = credentials
            <4>1. toSlave # <<>>
                BY <2>4 DEF AuthAnswer
            <4>2. 1 \in DOMAIN toSlave /\ Head(toSlave) = toSlave[1]
                BY <4>1, TailElements DEF MasterTypes
            <4> QED
                BY <2>1, <4>2
        <3>2. /\ stage' # "AwaitSelect"
              /\ credentials = "Auth" => authenticated'
              /\ \A j \in DOMAIN D : D[j].kind = "OK" => credentials = "Auth"
            BY <2>4, <3>1 DEF D, AuthAnswer
        <3>3. CASE credentials = "Auth"
            BY <2>2, <3>2, <3>3
        <3>4. CASE credentials # "Auth"
            <4>1. NoConfirmation
                BY <2>1, <3>4
            <4>2. NoConfirmation'
                BY <1>3, <3>2, <3>4, <4>1 DEF NoConfirmation
            <4> QED
                BY <2>2, <3>2, <4>2
        <3> QED
            BY <3>3, <3>4
    <2>5. ~HandshakeAnswer /\ ~NameAnswer
        BY <2>1 DEF HandshakeAnswer, NameAnswer
    <2> QED
        BY <1>1, <2>3, <2>4, <2>5
<1>15. DialogueInv'
    <2>1. /\ at' = "failed" => ~masterOpen'
          /\ ~masterOpen' => toMaster' = <<>>
          /\ at' \in Dialogue \cup {"reply"} => masterOpen'
        BY <1>1, <1>2 DEF AttemptInv, DialogueInv
    <2>2. Len(<<>>) <= 1 /\ UNCHANGED <<at, credentials>>
        BY <1>1
    <2> QED
        BY <1>10, <1>12, <1>13, <1>14, <2>1, <2>2 DEF DialogueInv
<1>16. CipherInv'
    <2>1. SameCipher'
        <3> SUFFICES ASSUME masterOpen,
                            at \in {"name", "ask", "confirm", "agreed", "opening", "idle"},
                            stage' \in {"AwaitSelect", "AwaitAuth", "Running"}
                     PROVE  cipherOn = encryption'
            BY <1>1 DEF SameCipher
        <3>1. stage # "AwaitHandshake"
            BY DEF AttemptInv, CipherInv, Dialogue
        <3>2. /\ stage \in {"AwaitSelect", "AwaitAuth", "Running"}
              /\ UNCHANGED encryption
            BY <1>1, <3>1 DEF HandshakeAnswer, NameAnswer, AuthAnswer, Silence
        <3> QED
            BY <3>2 DEF AttemptInv, CipherInv, SameCipher
    <2>2. at' = "reply" /\ stage' \in {"AwaitSelect", "AwaitAuth", "Running"} =>
             \A i \in DOMAIN toMaster' :
                toMaster'[i].kind = "OPDI" => toMaster'[i].announced = encryption'
        BY <1>1, <1>10
    <2> QED
        BY <1>5, <2>1, <2>2 DEF CipherInv
<1> QED
    BY <1>6, <1>7, <1>8, <1>9, <1>15, <1>16 DEF AttemptInv

-----------------------------------------------------------------------------
(* The invariant                                                           *)

\* Before the first attempt the invariant holds.
LEMMA InitConnectionInv == HandshakeInit => ConnectionInv
<1> SUFFICES ASSUME HandshakeInit PROVE ConnectionInv
    OBVIOUS
<1>1. SessionInv /\ LastInv
    BY InitSessionInv DEF HandshakeInit
<1>2. /\ status = "DISCONNECTED" /\ at = "idle" /\ masterOpen = FALSE
      /\ toSlave = <<>> /\ toMaster = <<>>
    BY DEF HandshakeInit
<1>3. MasterTypes
    <2>1. /\ master \in Master /\ offer \in Offer /\ status = "DISCONNECTED" /\ at = "idle"
          /\ failure = "failed" /\ stored \in Password \cup {"none"}
          /\ credentials = "Auth"
        BY DEF HandshakeInit
    <2>2. /\ aborted \in BOOLEAN /\ cipherOn \in BOOLEAN /\ save \in BOOLEAN
          /\ masterOpen \in BOOLEAN /\ disturbed \in BOOLEAN
        BY DEF HandshakeInit
    <2>3. toSlave \in Seq(ToSlaveType) /\ toMaster \in Seq(ToMasterType)
        BY <1>2
    <2> QED
        BY <2>1, <2>2, <2>3 DEF MasterTypes, Place, Password
<1>4. StatusInv
    BY <1>2 DEF StatusInv, EndIsReported, Dialogue
<1>5. AnnouncedInv /\ CredentialsProtected
    BY <1>2 DEF AnnouncedInv, CredentialsProtected
<1>6. DialogueInv /\ CipherInv
    BY <1>2 DEF DialogueInv, CipherInv, SameCipher, Dialogue
<1> QED
    BY <1>1, <1>3, <1>4, <1>5, <1>6 DEF ConnectionInv, AttemptInv

\* Every step keeps the invariant, and is a step of the slave's own specification.
LEMMA NextConnectionInv ==
    ConnectionInv /\ [HandshakeNext]_allVars => ConnectionInv' /\ [Next]_vars
<1> SUFFICES ASSUME ConnectionInv, [HandshakeNext]_allVars
             PROVE  ConnectionInv' /\ [Next]_vars
    OBVIOUS
<1>0. SessionInv /\ LastInv /\ MasterTypes /\ AttemptInv
    BY DEF ConnectionInv
<1>1. [Next]_vars
    BY <1>0, StepIsSessionStep DEF MasterTypes
<1>2. SessionInv' /\ LastInv'
    BY <1>0, <1>1, NextSessionInv
<1>3. AttemptInv' /\ MasterTypes'
    <2>1. CASE StartConnect \/ Initiate \/ Agreed \/ Open \/ Report \/ AbortConnect
        BY <1>0, <2>1, QuietKeeps, QuietTypes
    <2>2. CASE \/ ConnectFails \/ ReadRefusal \/ NoticeAbort \/ Timeout \/ IoFails
               \/ CancelCredentials \/ AbortWithoutAttempt \/ ConnectionEnds
        BY <1>0, <2>2, FailingKeeps
    <2>3. CASE ReadReply
        BY <1>0, <2>3, FailingKeeps, ReplyKeeps
    <2>4. CASE TryConnect
        BY <1>0, <2>4, ConnectKeeps
    <2>5. CASE ReadName \/ EnterCredentials \/ ReadConfirmation
        BY <1>0, <2>5, AuthenticationKeeps
    <2>6. CASE Slave
        BY <1>0, <1>2, <2>6, SlaveKeeps
    <2>7. CASE UNCHANGED allVars
        <3>1. UNCHANGED <<master, offer, at, failure, credentials, save, masterOpen,
                          toSlave, toMaster, status, aborted, cipherOn, stored, disturbed>>
            BY <2>7 DEF allVars, masterVars, settings, threadVars, network
        <3>2. UNCHANGED <<stage, encryption, authenticated, dev>>
            BY <2>7 DEF allVars, vars, sessionVars
        <3>3. MasterTypes'
            BY <1>0, <3>1 DEF MasterTypes
        <3>4. StatusInv' /\ AnnouncedInv' /\ CredentialsProtected'
            BY <1>0, <3>1, <3>2
            DEF AttemptInv, StatusInv, EndIsReported, Honoured, FlagsHonoured,
                DeviceHonoured, AnnouncedInv, CredentialsProtected
        <3>5. DialogueInv' /\ CipherInv'
            BY <1>0, <3>1, <3>2
            DEF AttemptInv, DialogueInv, NoConfirmation, CipherInv, SameCipher
        <3> QED
            BY <3>3, <3>4, <3>5 DEF AttemptInv
    <2> QED
        BY <2>1, <2>2, <2>3, <2>4, <2>5, <2>6, <2>7 DEF HandshakeNext, ConnectThread, User
<1> QED
    BY <1>0, <1>1, <1>2, <1>3 DEF ConnectionInv

\* The two sides agree on the cipher, the flags and the place in the dialogue, at every
\* point of every connection.
THEOREM ConnectionInvariant == HandshakeSpec => []ConnectionInv
BY InitConnectionInv, NextConnectionInv, PTL DEF HandshakeSpec

-----------------------------------------------------------------------------
(* What a connection promises                                              *)

\* The slave at the end of a connection is the slave of SlaveSession: every behaviour
\* of the composition is one of its behaviours, and has the properties proved for it.
THEOREM HandshakeImplementsSession == HandshakeSpec => Spec
<1>1. HandshakeInit => Init
    BY DEF HandshakeInit
<1>2. ConnectionInv /\ [HandshakeNext]_allVars => [Next]_vars
    BY NextConnectionInv
<1> QED
    BY <1>1, <1>2, ConnectionInvariant, PTL DEF HandshakeSpec, Spec

\* All variables of the master and of the connection keep their types.
THEOREM HandshakeTypeCorrect == HandshakeSpec => []HandshakeTypeOK
<1>1. ConnectionInv => HandshakeTypeOK
    <2> SUFFICES ASSUME MasterTypes PROVE HandshakeTypeOK
        BY DEF ConnectionInv
    <2>1. {aborted, cipherOn, save, masterOpen, disturbed} \subseteq BOOLEAN
        BY DEF MasterTypes
    <2>2. \A i \in DOMAIN toSlave : toSlave[i] \in ToSlaveType
        BY ElementOfSeq, LenProperties DEF MasterTypes
    <2>3. \A i \in DOMAIN toMaster : toMaster[i] \in ToMasterType
        BY ElementOfSeq, LenProperties DEF MasterTypes
    <2> QED
        BY <2>1, <2>2, <2>3 DEF MasterTypes, HandshakeTypeOK, Place, ToSlaveType, ToMasterType
<1> QED
    BY <1>1, ConnectionInvariant, PTL

\* A device is not left CONNECTING when its attempt is over, whichever way it ended.
THEOREM AttemptsAreReported == HandshakeSpec => []EndIsReported
<1>1. ConnectionInv => EndIsReported
    BY DEF ConnectionInv, AttemptInv, StatusInv
<1> QED
    BY <1>1, ConnectionInvariant, PTL

\* What the user sees as a connection has the encryption both sides may have, for every
\* combination of flags and keys.
THEOREM ConnectionsHonourFlags == HandshakeSpec => []BothFlagsHonoured
<1>1. ConnectionInv => BothFlagsHonoured
    BY DEF ConnectionInv, AttemptInv, StatusInv, BothFlagsHonoured, Honoured,
           FlagsHonoured, DeviceHonoured
<1> QED
    BY <1>1, ConnectionInvariant, PTL

\* No password is under way to a device that does not ask for one, or in the clear where
\* a side requires encryption.
THEOREM PasswordsAreProtected == HandshakeSpec => []CredentialsProtected
<1>1. ConnectionInv => CredentialsProtected
    BY DEF ConnectionInv, AttemptInv
<1> QED
    BY <1>1, ConnectionInvariant, PTL

\* The two ciphers are switched on at the same point of the dialogue.
THEOREM BothUseOneCipher == HandshakeSpec => []SameCipher
<1>1. ConnectionInv => SameCipher
    BY DEF ConnectionInv, AttemptInv, CipherInv
<1> QED
    BY <1>1, ConnectionInvariant, PTL

\* No password is ever stored but one the device has accepted in this session.
THEOREM OnlyAcceptedPasswords == HandshakeSpec => OnlyAcceptedStored
<1> DEFINE Accepts ==
        stored' # stored /\ stored' # "none" => stored' = "Auth" /\ authenticated
<1>1. ASSUME ConnectionInv, [HandshakeNext]_allVars
      PROVE  Accepts
    <2> SUFFICES ASSUME stored' # stored
                 PROVE  stored' = "Auth" /\ authenticated
        OBVIOUS
    <2>1. CASE ReadConfirmation
        <3>1. /\ at = "confirm" /\ toMaster # <<>> /\ Head(toMaster).kind = "OK"
              /\ stored' = credentials
            BY <2>1 DEF ReadConfirmation, Receives
        <3>2. 1 \in DOMAIN toMaster /\ toMaster[1].kind = "OK"
            BY <1>1, <3>1, TailElements DEF ConnectionInv, MasterTypes
        <3>3. credentials = "Auth" /\ authenticated
            BY <1>1, <3>1, <3>2
            DEF ConnectionInv, AttemptInv, DialogueInv, NoConfirmation
        <3> QED
            BY <3>1, <3>3
    <2>2. CASE ~ReadConfirmation /\ ~Slave
        BY <1>1, <2>2
        DEF HandshakeNext, ConnectThread, User, Initiate, TryConnect, ConnectFails,
            ReadRefusal, ReadReply, ReadName, NoticeAbort, Timeout, Agreed, Open, Report,
            IoFails, StartConnect, AbortConnect, AbortWithoutAttempt, EnterCredentials,
            StoreLater, CancelCredentials, ConnectionEnds, allVars, masterVars
    <2>3. CASE Slave
        BY <2>3 DEF Slave, SlaveReceives, SlaveGivesUp, SlaveExchange
    <2> QED
        BY <2>1, <2>2, <2>3
<1>2. ConnectionInv /\ [HandshakeNext]_allVars => [Accepts]_allVars
    BY <1>1
<1> QED
    BY <1>2, ConnectionInvariant, PTL DEF HandshakeSpec, OnlyAcceptedStored

-----------------------------------------------------------------------------
(* A connection is served                                                  *)

\* The build without authentication that a demanding master talks to in vain.
CannotAuthenticate == dev.noAuthentication /\ master.flags.authenticationRequired

\* Where the slave waits once its name is under way.
AfterName == IF dev.authenticationRequired THEN "AwaitAuth" ELSE "Running"

\* How far the slave is when nothing has gone wrong: as far as the master believes.
InStep ==
    /\ at = "name" /\ ~NoConfirmation => stage = AfterName
    /\ at = "ask" => stage = "AwaitAuth"
    /\ at = "confirm" =>
          /\ Len(toSlave) <= 1
          /\ toSlave # <<>> => stage = "AwaitAuth"
          /\ ~NoConfirmation => stage = "Running" /\ toSlave = <<>>
    /\ at \in {"agreed", "opening"} \/ (at = "idle" /\ status = "CONNECTED") =>
          stage = "Running" /\ toSlave = <<>>

\* A slave past the choice of the protocol has read a message in its own cipher, and it
\* knows the flags of this master.
ServedInv ==
    /\ stage \in {"AwaitAuth", "Running"} => (encryption => master.keyFits)
    /\ stage = "AwaitSelect" => flags = master.flags
    /\ masterOpen /\ ~disturbed /\ ~CannotAuthenticate => InStep

\* A name or a confirmation that reaches the master is sent by a slave that goes on, unless
\* it cannot authenticate.
Goes ==
    \A i \in DOMAIN Delivered : Delivered[i].kind = "OK" =>
        /\ stage = "AwaitSelect" =>
              \/ dev.noAuthentication /\ flags.authenticationRequired
              \/ stage' = AfterName
        /\ stage = "AwaitAuth" => stage' = "Running"

\* RecvSelect sends the name and waits for the credentials or serves.
LEMMA NameGoes ==
    ASSUME SessionInv, NEW m \in SelectMessage, RecvSelect(m)
    PROVE  Goes
<1>0. stage = "AwaitSelect" /\ encryption \in BOOLEAN /\ useEncryption' \in BOOLEAN
    BY DEF RecvSelect, SessionInv, StageInv, SessionTypes
<1>1. \/ out' = <<>>
      \/ \E o \in NameOutcomes : o.res # "OK" /\ out' = o.out
      \/ dev.noAuthentication /\ flags.authenticationRequired
      \/ stage' = AfterName
    BY DEF RecvSelect, AfterName, StartSession
<1>2. CASE out' = <<>>
    BY <1>2, DeliverNone DEF Goes
<1>3. CASE \E o \in NameOutcomes : o.res # "OK" /\ out' = o.out
    <2>1. PICK o \in NameOutcomes : o.res # "OK" /\ out' = o.out
        BY <1>3
    <2>2. CASE o \in Fail("FUNCTION_UNKNOWN")
        <3>1. out' = <<>>
            BY <2>1, <2>2 DEF Fail, Outcome
        <3> QED
            BY <3>1, DeliverNone DEF Goes
    <2>3. CASE o \in Send(ControlChannel, "OK")
        <3>1. out' = <<Message(ControlChannel, "OK", FALSE)>>
            BY <2>1, <2>3, SentOnce
        <3>2. Delivered = <<>>
            BY <1>0, <3>1, DeliverOne
        <3> QED
            BY <3>2 DEF Goes
    <2> QED
        BY <2>2, <2>3 DEF NameOutcomes
<1>4. CASE (dev.noAuthentication /\ flags.authenticationRequired) \/ stage' = AfterName
    BY <1>0, <1>4 DEF Goes
<1> QED
    BY <1>1, <1>2, <1>3, <1>4

\* RecvAuth confirms and serves.
LEMMA AuthGoes ==
    ASSUME SessionInv, NEW m \in AuthMessage, RecvAuth(m)
    PROVE  Goes
<1>0. /\ stage = "AwaitAuth" /\ encryption \in BOOLEAN /\ useEncryption' \in BOOLEAN
    BY DEF RecvAuth, SessionInv, StageInv, SessionTypes
<1>2. CASE ~Accepted(m)
    <2>1. PICK o \in SendIgnored(ControlChannel, "NOK") : out' = o.out
        BY <1>2 DEF RecvAuth
    <2>2. PICK sent \in BOOLEAN : out' = <<Message(ControlChannel, "NOK", sent)>>
        BY <2>1, SentOnce
    <2>3. \A i \in DOMAIN Delivered : Delivered[i].kind = "NOK"
        BY <1>0, <2>2, DeliverOne
    <2> QED
        BY <2>3 DEF Goes
<1>3. CASE Accepted(m)
    <2>1. PICK o \in Send(ControlChannel, "OK") :
             out' = o.out /\ IF o.res = "OK" THEN StartSession ELSE Abort(o.res)
        BY <1>3 DEF RecvAuth
    <2>2. PICK sent \in BOOLEAN : /\ out' = <<Message(ControlChannel, "OK", sent)>>
                                  /\ o.res = "OK" <=> sent
        BY <2>1, SentOnce
    <2>3. CASE sent
        <3>1. stage' = "Running"
            BY <2>1, <2>2, <2>3 DEF StartSession
        <3> QED
            BY <1>0, <3>1 DEF Goes
    <2>4. CASE ~sent
        <3>1. Delivered = <<>>
            BY <1>0, <2>2, <2>4, DeliverOne
        <3> QED
            BY <3>1 DEF Goes
    <2> QED
        BY <2>3, <2>4
<1> QED
    BY <1>2, <1>3

\* What a step of the slave means for the master: it chooses the flags of the master's
\* message, reads on with the right cipher only, and gives up a dialogue that is under way
\* only after a fault.
LEMMA SlaveServes ==
    ASSUME SessionInv, SessionInv', MasterTypes, Slave
    PROVE  /\ disturbed => disturbed'
           /\ HandshakeAnswer => (stage' = "AwaitSelect" => flags' = master.flags)
           /\ NameAnswer \/ AuthAnswer =>
                 /\ Goes
                 /\ stage' # "Listening" => (encryption => master.keyFits)
           /\ Silence => disturbed' \/ ~masterOpen \/ Quiet \/ toSlave # <<>>
<1>0. disturbed => disturbed'
    BY DEF Slave, SlaveReceives, SlaveGivesUp
<1>1. CASE SlaveGivesUp
    <2>1. stage' = "Listening" /\ out' = <<>> /\ disturbed' = (disturbed \/ (masterOpen /\ ~Quiet))
        BY <1>1 DEF SlaveGivesUp, ReceiveFails, EndSession, Abort
    <2>2. Goes
        BY <2>1, DeliverNone DEF Goes
    <2>3. Silence => disturbed' \/ ~masterOpen \/ Quiet \/ toSlave # <<>>
        BY <2>1
    <2> QED
        BY <1>0, <2>1, <2>2, <2>3
<1>2. CASE SlaveReceives
    <2>0. toSlave # <<>>
        BY <1>2 DEF SlaveReceives
    <2> DEFINE m == Head(toSlave)
               hand == [channel |-> ControlChannel, valid |-> TRUE,
                        flags |-> master.flags, methodListed |-> master.listed]
               select == [channel |-> ControlChannel,
                          kind |-> IF m.kind \in {"Dis", "BP", "EP"} THEN m.kind
                                   ELSE "malformed"]
               auth == [channel |-> ControlChannel,
                        kind |-> IF m.kind \in Password THEN m.kind ELSE "Dis"]
    <2>1. \/ ReceiveFails
          \/ Readable(m, encryption) /\ SlaveReads(m)
        BY <1>2 DEF SlaveReceives
    <2>2. CASE ReceiveFails
        <3>1. stage' = "Listening" /\ out' = <<>>
            BY <2>2 DEF ReceiveFails, EndSession, Abort
        <3>2. Goes
            BY <3>1, DeliverNone DEF Goes
        <3> QED
            BY <1>0, <2>0, <3>1, <3>2
    <2>3. CASE RecvHandshake(hand) /\ Readable(m, encryption)
        <3>1. stage = "AwaitHandshake" /\ flags' = master.flags
            BY <2>3 DEF RecvHandshake
        <3> QED
            BY <1>0, <2>0, <3>1 DEF NameAnswer, AuthAnswer
    <2>4. CASE RecvSelect(select) /\ Readable(m, encryption)
        <3>1. select \in SelectMessage
            BY DEF SelectMessage
        <3>2. encryption => master.keyFits
            BY <2>4 DEF Readable
        <3> HIDE DEF select
        <3>3. Goes /\ stage = "AwaitSelect"
            BY <2>4, <3>1, NameGoes DEF RecvSelect
        <3> QED
            BY <1>0, <2>0, <3>2, <3>3 DEF HandshakeAnswer
    <2>5. CASE RecvAuth(auth) /\ Readable(m, encryption)
        <3>1. auth \in AuthMessage
            BY DEF AuthMessage, Password
        <3>2. encryption => master.keyFits
            BY <2>5 DEF Readable
        <3> HIDE DEF auth
        <3>3. Goes /\ stage = "AwaitAuth"
            BY <2>5, <3>1, AuthGoes DEF RecvAuth
        <3> QED
            BY <1>0, <2>0, <3>2, <3>3 DEF HandshakeAnswer
    <2>6. CASE RecvControl("Dis") /\ Readable(m, encryption)
        <3>1. stage = "Running"
            BY <2>6 DEF RecvControl
        <3> QED
            BY <1>0, <2>0, <3>1 DEF HandshakeAnswer, NameAnswer, AuthAnswer
    <2> QED
        BY <2>1, <2>2, <2>3, <2>4, <2>5, <2>6 DEF SlaveReads
<1> QED
    BY <1>1, <1>2 DEF Slave

\* The slave stays as far as the master believes.
LEMMA SlaveKeepsStep ==
    ASSUME SessionInv, SessionInv', MasterTypes, AttemptInv, ServedInv, Slave
    PROVE  ServedInv'
<1>1. /\ toSlave' = IF stage' = "Listening" THEN <<>> ELSE Tail(toSlave)
      /\ toMaster' = IF masterOpen THEN toMaster \o Delivered ELSE toMaster
      /\ UNCHANGED <<master, at, masterOpen, status, dev>>
      /\ Delivered \in Seq(ToMasterType)
      /\ HandshakeAnswer \/ NameAnswer \/ AuthAnswer \/ Silence
    BY SlaveSteps DEF MasterTypes, settings, threadVars
<1>2. /\ disturbed => disturbed'
      /\ HandshakeAnswer => (stage' = "AwaitSelect" => flags' = master.flags)
      /\ NameAnswer \/ AuthAnswer =>
            /\ Goes
            /\ stage' # "Listening" => (encryption => master.keyFits)
      /\ Silence => disturbed' \/ ~masterOpen \/ Quiet \/ toSlave # <<>>
    BY SlaveServes
<1>3. stage' \in {"AwaitAuth", "Running"} => (encryption' => master'.keyFits)
    BY <1>1, <1>2 DEF HandshakeAnswer, NameAnswer, AuthAnswer, Silence
<1>4. stage' = "AwaitSelect" => flags' = master'.flags
    BY <1>1, <1>2 DEF HandshakeAnswer, NameAnswer, AuthAnswer, Silence
<1>5. ASSUME masterOpen', ~disturbed', ~CannotAuthenticate'
      PROVE  InStep'
    <2>1. masterOpen /\ ~disturbed /\ ~CannotAuthenticate /\ InStep
        BY <1>1, <1>2, <1>5 DEF CannotAuthenticate, ServedInv
    <2> DEFINE D == Delivered
    <2> HIDE DEF D
    <2>2. /\ toMaster = <<>> => toMaster' = D
          /\ D = <<>> => toMaster' = toMaster
          /\ \A i \in DOMAIN toMaster' :
                \/ i \in DOMAIN toMaster /\ toMaster'[i] = toMaster[i]
                \/ \E j \in DOMAIN D : toMaster'[i] = D[j]
        BY <1>1, <2>1, JoinedElements DEF D, MasterTypes
    <2>3. Len(toSlave) <= 1 => toSlave' = <<>>
        <3>1. CASE stage' = "Listening"
            BY <1>1, <3>1
        <3>2. CASE stage' # "Listening"
            <4>1. toSlave # <<>> /\ toSlave' = Tail(toSlave)
                BY <1>1, <3>2 DEF HandshakeAnswer, NameAnswer, AuthAnswer, Silence
            <4>2. toSlave' \in Seq(ToSlaveType) /\ Len(toSlave') = Len(toSlave) - 1
                BY <4>1, TailElements DEF MasterTypes
            <4> QED
                BY <4>1, <4>2, LenProperties, EmptySeq DEF MasterTypes
        <3> QED
            BY <3>1, <3>2
    <2>4. at \in Dialogue \cup {"idle"} => stage # "AwaitHandshake"
        BY <2>1 DEF AttemptInv, CipherInv
    <2>5. Silence => D = <<>> /\ toMaster' = toMaster
        BY <2>2 DEF D, Silence
    <2>6. at = "name" /\ ~NoConfirmation' => stage' = AfterName
        <3> HAVE at = "name" /\ ~NoConfirmation'
        <3>1. /\ toSlave # <<>> => stage = "AwaitSelect"
              /\ stage = "AwaitSelect" => toMaster = <<>>
            BY DEF AttemptInv, DialogueInv
        <3>2. CASE Silence
            <4>1. toMaster # <<>>
                BY <2>5, <3>2 DEF NoConfirmation
            <4>2. Quiet \/ toSlave # <<>>
                BY <1>2, <1>5, <2>1, <3>2
            <4> QED
                BY <3>1, <4>1, <4>2 DEF Quiet
        <3>3. CASE NameAnswer
            <4>1. stage = "AwaitSelect" /\ toMaster' = D
                BY <2>2, <3>1, <3>3 DEF NameAnswer
            <4>2. PICK i \in DOMAIN D : D[i].kind = "OK"
                BY <4>1 DEF NoConfirmation
            <4>3. flags = master.flags
                BY <4>1 DEF ServedInv
            <4> QED
                BY <1>2, <2>1, <3>3, <4>1, <4>2, <4>3 DEF Goes, D, CannotAuthenticate
        <3>4. ~HandshakeAnswer /\ ~AuthAnswer
            BY <2>4, <3>1 DEF Dialogue, HandshakeAnswer, AuthAnswer
        <3> QED
            BY <1>1, <3>2, <3>3, <3>4
    <2>7. at # "ask"
        <3> SUFFICES ASSUME at = "ask" PROVE FALSE
            OBVIOUS
        <3>1. toSlave = <<>>
            BY DEF AttemptInv, DialogueInv
        <3>2. Silence /\ ~Quiet
            BY <1>1, <3>1 DEF HandshakeAnswer, NameAnswer, AuthAnswer, Quiet, Waiting
        <3> QED
            BY <1>2, <1>5, <2>1, <3>1, <3>2
    <2>8. at = "confirm" =>
             toSlave' = <<>> /\ (~NoConfirmation' => stage' = "Running")
        <3> HAVE at = "confirm"
        <3>1. /\ Len(toSlave) <= 1 /\ (toSlave # <<>> => stage = "AwaitAuth")
              /\ ~NoConfirmation => stage = "Running" /\ toSlave = <<>>
            BY <2>1 DEF InStep
        <3>2. toSlave' = <<>>
            BY <2>3, <3>1
        <3>3. CASE Silence
            <4>1. NoConfirmation
                <5> SUFFICES ASSUME ~NoConfirmation PROVE FALSE
                    OBVIOUS
                <5>1. toSlave = <<>> /\ toMaster # <<>>
                    BY <3>1 DEF NoConfirmation
                <5> QED
                    BY <1>2, <1>5, <2>1, <3>3, <5>1 DEF Quiet
            <4> QED
                BY <2>5, <3>2, <3>3, <4>1 DEF NoConfirmation
        <3>4. CASE AuthAnswer
            <4>1. stage = "AwaitAuth" /\ NoConfirmation
                BY <3>1, <3>4 DEF AuthAnswer
            <4>2. ASSUME ~NoConfirmation'
                  PROVE  stage' = "Running"
                <5>1. PICK i \in DOMAIN D : D[i].kind = "OK"
                    BY <2>2, <4>1, <4>2 DEF NoConfirmation
                <5> QED
                    BY <1>2, <3>4, <4>1, <5>1 DEF Goes, D
            <4> QED
                BY <3>2, <4>2
        <3>5. ~HandshakeAnswer /\ ~NameAnswer
            BY <3>1 DEF HandshakeAnswer, NameAnswer
        <3> QED
            BY <1>1, <3>3, <3>4, <3>5
    <2>9. ~(at \in {"agreed", "opening"} \/ (at = "idle" /\ status = "CONNECTED"))
        <3> SUFFICES ASSUME at \in {"agreed", "opening"} \/ (at = "idle" /\ status = "CONNECTED")
                     PROVE  FALSE
            OBVIOUS
        <3>1. toSlave = <<>> /\ stage = "Running"
            BY <2>1 DEF InStep
        <3>2. Silence /\ ~Quiet
            BY <1>1, <3>1 DEF HandshakeAnswer, NameAnswer, AuthAnswer, Quiet, Waiting
        <3> QED
            BY <1>2, <1>5, <2>1, <3>1, <3>2
    <2>10. AfterName' = AfterName
        BY <1>1 DEF AfterName
    <2>11. Len(<<>>) <= 1
        OBVIOUS
    <2> QED
        BY <1>1, <2>6, <2>7, <2>8, <2>9, <2>10, <2>11 DEF InStep
<1> QED
    BY <1>3, <1>4, <1>5 DEF ServedInv

\* The steps of the master and the user leave the slave where it is; each goes on only
\* when the slave has.
LEMMA MasterKeepsStep ==
    ASSUME SessionInv, MasterTypes, AttemptInv, ServedInv, ConnectThread \/ IoFails \/ User
    PROVE  ServedInv'
<1>1. CASE TryConnect
    <2>1. /\ stage' = "AwaitHandshake"
          /\ at' \in {"idle", "reply"} /\ (at' = "idle" => masterOpen' = FALSE)
        BY <1>1 DEF TryConnect, Connect
    <2> QED
        BY <2>1 DEF ServedInv, InStep
<1>2. CASE ~TryConnect
    <2>0. UNCHANGED <<master, dev, stage, encryption, flags>>
        BY <1>2
        DEF ConnectThread, User, Initiate, ConnectFails, ReadRefusal, ReadReply, ReadName,
            ReadConfirmation, Receives, NoticeAbort, Timeout, Agreed, Open, Report, IoFails,
            StartConnect, AbortConnect, AbortWithoutAttempt, EnterCredentials,
            CancelCredentials, ConnectionEnds, settings, vars, sessionVars
    <2>1. SUFFICES ASSUME masterOpen', ~disturbed', ~CannotAuthenticate
                   PROVE  InStep'
        BY <2>0 DEF ServedInv, CannotAuthenticate
    <2>2. /\ at = "failed" => ~masterOpen
          /\ at = "name" => /\ toSlave # <<>> => stage = "AwaitSelect"
                            /\ stage = "AwaitSelect" => toMaster = <<>>
                            /\ \A i \in DOMAIN toMaster : toMaster[i].kind = "OK" => i = 1
          /\ at = "ask" => toSlave = <<>> /\ NoConfirmation
          /\ at = "reply" => Len(toMaster) <= 1 /\ masterOpen
        BY DEF AttemptInv, DialogueInv
    <2>3. toMaster # <<>> /\ Head(toMaster).kind = "OK" => ~NoConfirmation
        BY TailElements DEF MasterTypes, NoConfirmation
    <2>4. CASE StartConnect \/ Initiate \/ Report
        BY <2>1, <2>2, <2>4 DEF StartConnect, Initiate, Report, network, InStep
    <2>5. CASE ConnectFails \/ ReadRefusal \/ NoticeAbort \/ Timeout \/ IoFails
               \/ CancelCredentials \/ AbortWithoutAttempt \/ ConnectionEnds
        BY <2>1, <2>5
        DEF ConnectFails, ReadRefusal, NoticeAbort, Timeout, IoFails, CancelCredentials,
            AbortWithoutAttempt, ConnectionEnds, RaiseProtocol, Raise, CloseSocket
    <2>6. CASE ReadReply
        <3>1. /\ at = "reply" /\ at' = "name" /\ toMaster # <<>>
              /\ toMaster' = Tail(toMaster)
            BY <2>1, <2>6 DEF ReadReply, Receives, RaiseProtocol, Raise, CloseSocket
        <3>2. toMaster' = <<>>
            BY <2>0, <2>2, <3>1, ReadOn
        <3> QED
            BY <3>1, <3>2 DEF InStep, NoConfirmation
    <2>7. CASE ReadName
        <3>1. /\ at = "name" /\ toMaster # <<>> /\ toMaster' = Tail(toMaster)
              /\ Head(toMaster).kind = "OK" /\ UNCHANGED <<masterOpen, disturbed>>
              /\ \/ at' = "agreed" /\ ~AuthenticationRequired /\ UNCHANGED toSlave
                 \/ at' = "ask" /\ AuthenticationRequired
                 \/ /\ at' = "confirm" /\ AuthenticationRequired /\ stored # "none"
                    /\ Transmit(<<ToSlave(stored, cipherOn)>>)
            BY <2>7 DEF ReadName, Receives
        <3>2. stage = AfterName
            BY <2>1, <2>3, <3>1 DEF ServedInv, InStep
        <3>3. toSlave = <<>> /\ NoConfirmation'
            BY <2>0, <2>2, <3>1, <3>2, ReadOn DEF AfterName
        <3>4. CASE at' = "confirm"
            <4>1. stored \in Password /\ cipherOn \in BOOLEAN
                BY <3>1, <3>4 DEF MasterTypes
            <4>2. Len(toSlave') <= 1
                BY <3>1, <3>3, <3>4, <4>1, SendsOne
            <4> QED
                BY <2>0, <3>1, <3>2, <3>3, <3>4, <4>2
                DEF InStep, AfterName, AuthenticationRequired
        <3> QED
            BY <2>0, <3>1, <3>2, <3>3, <3>4 DEF InStep, AfterName, AuthenticationRequired
    <2>8. CASE EnterCredentials
        <3>1. /\ at = "ask" /\ at' = "confirm" /\ credentials' \in Password
              /\ UNCHANGED <<toMaster, masterOpen, disturbed>>
              /\ Transmit(<<ToSlave(credentials', cipherOn)>>)
            BY <2>8 DEF EnterCredentials
        <3>2. stage = "AwaitAuth"
            BY <2>1, <3>1 DEF ServedInv, InStep
        <3>3. Len(toSlave') <= 1
            BY <2>2, <3>1, SendsOne DEF MasterTypes
        <3> QED
            BY <2>0, <2>2, <3>1, <3>2, <3>3 DEF InStep, NoConfirmation
    <2>9. CASE ReadConfirmation
        <3>1. /\ at = "confirm" /\ at' = "agreed" /\ toMaster # <<>>
              /\ Head(toMaster).kind = "OK" /\ UNCHANGED <<toSlave, masterOpen, disturbed>>
            BY <2>9 DEF ReadConfirmation, Receives
        <3> QED
            BY <2>0, <2>1, <2>3, <3>1 DEF ServedInv, InStep
    <2>10. CASE Agreed \/ Open
        <3>1. /\ at \in {"agreed", "opening"} /\ at' \in {"opening", "idle"}
              /\ UNCHANGED <<toSlave, masterOpen, disturbed>>
            BY <2>10 DEF Agreed, Open, network
        <3> QED
            BY <2>0, <2>1, <3>1 DEF ServedInv, InStep
    <2>11. CASE AbortConnect
        <3>1. at # "idle" /\ UNCHANGED <<at, toSlave, toMaster, masterOpen, disturbed>>
            BY <2>11 DEF AbortConnect, threadVars, network
        <3> QED
            BY <2>0, <2>1, <3>1 DEF ServedInv, InStep, NoConfirmation, AfterName
    <2> QED
        BY <1>2, <2>4, <2>5, <2>6, <2>7, <2>8, <2>9, <2>10, <2>11 DEF ConnectThread, User
<1> QED
    BY <1>1, <1>2

\* The two sides are in step at every point of a connection that nothing has disturbed.
THEOREM BothStayInStep == HandshakeSpec => []ServedInv
<1>1. HandshakeInit => ServedInv
    BY DEF HandshakeInit, Init, ServedInv, InStep
<1>2. ConnectionInv /\ ConnectionInv' /\ ServedInv /\ [HandshakeNext]_allVars => ServedInv'
    <2> SUFFICES ASSUME ConnectionInv, ConnectionInv', ServedInv, [HandshakeNext]_allVars
                 PROVE  ServedInv'
        OBVIOUS
    <2>1. SessionInv /\ SessionInv' /\ MasterTypes /\ AttemptInv
        BY DEF ConnectionInv
    <2>2. CASE Slave
        BY <2>1, <2>2, SlaveKeepsStep
    <2>3. CASE ConnectThread \/ IoFails \/ User
        BY <2>1, <2>3, MasterKeepsStep
    <2>4. CASE UNCHANGED allVars
        BY <2>4
        DEF ServedInv, InStep, NoConfirmation, AfterName, CannotAuthenticate, allVars,
            masterVars, settings, threadVars, network, vars, sessionVars
    <2> QED
        BY <2>2, <2>3, <2>4 DEF HandshakeNext
<1> QED
    BY <1>1, <1>2, ConnectionInvariant, PTL DEF HandshakeSpec

\* What the master reports as a connection is served by a slave that has completed its
\* half of the handshake and has the master's key, for every device and every master.
THEOREM ConnectionsAreServed == HandshakeSpec => []ConnectedMeansServed
<1>1. ConnectionInv /\ ServedInv => ConnectedMeansServed
    <2> SUFFICES ASSUME ConnectionInv, ServedInv, status = "CONNECTED", masterOpen,
                        ~disturbed, ~CannotAuthenticate
                 PROVE  stage = "Running" /\ (cipherOn => master.keyFits)
        BY DEF ConnectedMeansServed, CannotAuthenticate
    <2>1. at \in {"opening", "idle"} /\ SameCipher
        BY DEF ConnectionInv, AttemptInv, StatusInv, CipherInv
    <2>2. stage = "Running"
        BY <2>1 DEF ServedInv, InStep
    <2> QED
        BY <2>1, <2>2 DEF SameCipher, ServedInv
<1> QED
    BY <1>1, BothStayInStep, ConnectionInvariant, PTL

=============================================================================
