----------------------------- MODULE Handshake -----------------------------
(***************************************************************************)
(* A connection of the Java master with the slave of SlaveSession, from    *)
(* connect to the end of the session: the connect thread of IODevice, the  *)
(* handshake it performs, and the slave's own steps, joined by the two     *)
(* directions of a TCP connection.  The user may abort an attempt at any   *)
(* time, is asked for credentials, and may connect again.                  *)
(*                                                                         *)
(* Of the slave only the handshake and the master's disconnect are used;   *)
(* what both sides do in between is the subject of SlaveSession and        *)
(* MasterProtocol.  The connect thread runs from one wait to the next.     *)
(* One connection attempt is made at a time: connect() while an older      *)
(* connect thread still runs is not modelled.                              *)
(***************************************************************************)
EXTENDS SlaveSession

CONSTANTS Master,   \* settings of the masters to consider
          Offer     \* what the handshake reply of the slave offers

\* listed: tryToUseEncryption, a pre-shared key is set, so that the method is
\* listed in the handshake message.  keyFits: it is the key of the slave.
MasterType == [flags : FlagsType, listed : BOOLEAN, keyFits : BOOLEAN]

\* encodingKnown: the master supports the encoding.  protocol: the first offered
\* protocol the master has an implementation for.
OfferType == [encodingKnown : BOOLEAN, protocol : {"BP", "EP", "none"}]

ASSUME HandshakeAssumption ==
    /\ Master \subseteq MasterType
    /\ Offer \subseteq OfferType
    /\ {m.flags : m \in Master} \subseteq MasterFlags

Password == {"Auth", "BadAuth"}

VARIABLES
    master, offer,   \* the settings, fixed
    status,          \* status of the device, as the user sees it
    at,              \* where the connect thread is
    failure,         \* what the exception the thread caught is reported as
    aborted,         \* ConnectThread.aborted
    cipherOn,        \* encryption of MessageQueueDevice
    stored,          \* user and password of the device: none, right or wrong
    credentials,     \* locals of handshake: the credentials in use ...
    save,            \* ... and whether they are to be stored
    masterOpen,      \* the master has not closed its socket
    toSlave,         \* bytes under way, as messages
    toMaster,
    disturbed        \* history: a fault occurred during this attempt

settings == <<master, offer>>
threadVars == <<at, failure, credentials, save>>
network == <<masterOpen, toSlave, toMaster>>
masterVars == <<settings, threadVars, network, status, aborted, cipherOn, stored,
                disturbed>>
allVars == <<vars, masterVars>>

\* done is set exactly when the thread is back at "idle".
Waiting == at \in {"reply", "name", "confirm"}

\* Neither side will send anything more of its own accord.
Quiet == Waiting /\ toSlave = <<>> /\ toMaster = <<>>

-----------------------------------------------------------------------------
(* The connection                                                          *)

ToSlave(kind, cipher) == [kind |-> kind, encrypted |-> cipher]

\* What is written after the slave has closed the connection is lost.
Transmit(messages) ==
    toSlave' = IF stage = "Listening" THEN <<>> ELSE toSlave \o messages

\* The messages the slave has sent, as the master will read them: the handshake is
\* over with the first one it could not send.  announced is the encryption a reply names.
Delivered ==
    [i \in {i \in DOMAIN out' : out'[i].sent} |->
        [kind |-> out'[i].kind, encrypted |-> out'[i].encrypted,
         announced |-> useEncryption']]

\* A receiver makes sense of a message only with the cipher it was sent with.
Readable(m, cipher) == m.encrypted = cipher /\ (cipher => master.keyFits)

CloseSocket == masterOpen' = FALSE /\ toMaster' = <<>>

-----------------------------------------------------------------------------
(* The connect thread                                                      *)

\* Fault: the encryption of the last connection is kept.
ContinueEncryption == UNCHANGED cipherOn

clearEncryption == cipherOn' = FALSE

\* connect(): a device that is still CONNECTING without a thread is closed, which
\* it is already.
StartConnect ==
    /\ at = "idle" /\ status # "CONNECTED"
    /\ clearEncryption
    /\ at' = "start"
    /\ aborted' = FALSE /\ disturbed' = FALSE
    /\ UNCHANGED <<vars, settings, network, failure, credentials, save, status, stored>>

\* connectionInitiated, the first thing the thread does.
Initiate ==
    /\ at = "start"
    /\ at' = "connect"
    /\ status' = "CONNECTING"
    /\ UNCHANGED <<vars, settings, network, failure, credentials, save, aborted,
                   cipherOn, stored, disturbed>>

\* tryConnect: the slave accepts, and the master sends its handshake message
\* unless the attempt was aborted meanwhile.
TryConnect ==
    /\ at = "connect"
    /\ Connect
    /\ masterOpen' = ~aborted
    /\ at' = IF aborted THEN "idle" ELSE "reply"
    /\ toSlave' = IF aborted THEN <<>> ELSE <<ToSlave("OPDI", cipherOn)>>
    /\ toMaster' = <<>>
    /\ UNCHANGED <<settings, failure, credentials, save, status, aborted, cipherOn,
                   stored, disturbed>>

\* An exception: its handler closes the device first.
Raise(f) ==
    /\ at' = "failed"
    /\ failure' = f
    /\ CloseSocket
    /\ UNCHANGED <<credentials, save>>

\* The handler of a ProtocolException sends a Disconnect before it closes.
RaiseProtocol(first, cipher) ==
    /\ Raise("failed")
    /\ Transmit([i \in DOMAIN first |-> ToSlave(first[i], cipher)]
                  \o <<ToSlave("Dis", cipher)>>)

ConnectFails ==
    /\ at = "connect"
    /\ Raise("failed")
    /\ disturbed' = TRUE
    /\ UNCHANGED <<vars, settings, toSlave, status, aborted, cipherOn, stored>>

\* receiveHandshakeMessage and getHandshakeMessage: a message is returned while the
\* attempt is not aborted.  In the handshake the slave sends neither Disconnect nor
\* Error messages.  A message in another cipher would be skipped; SameCipher is why
\* there is none.
Receives(place) ==
    /\ at = place /\ status = "CONNECTING"
    /\ toMaster # <<>>
    /\ Readable(Head(toMaster), cipherOn)
    /\ UNCHANGED <<vars, settings, status, aborted, disturbed>>

\* A disagreement, or a message on another channel.
ReadRefusal ==
    /\ \E place \in {"reply", "name", "confirm"} : Receives(place)
    /\ Head(toMaster).kind = "NOK"
    /\ RaiseProtocol(<<>>, cipherOn)
    /\ UNCHANGED <<cipherOn, stored>>

\* Fault: the master encrypts when it asked for it.
EncryptAsListed(announced) == master.listed

\* The encryption the reply names is used from here on.  The slave names only a
\* method the master has listed, so that the key is there.
setEncryption(announced) == announced

\* Fault: the second check of the flags is missing.
RequiredFlagHonoured(cipher) == master.flags.encryptionRequired => cipher

FlagsHonoured(cipher) ==
    /\ master.flags.encryptionRequired => cipher
    /\ master.flags.encryptionNotAllowed => ~cipher

\* The handshake reply.  An encoding the master does not know is refused before the
\* encryption is switched on; all other messages are sent as the reply announced.
ReadReply ==
    /\ Receives("reply")
    /\ Head(toMaster).kind = "OPDI"
    /\ LET cipher == setEncryption(Head(toMaster).announced)
       IN \/ /\ ~offer.encodingKnown
             /\ RaiseProtocol(<<"NOK">>, cipherOn)
             /\ UNCHANGED cipherOn
          \/ /\ offer.encodingKnown /\ ~FlagsHonoured(cipher)
             /\ RaiseProtocol(<<>>, cipher)
             /\ cipherOn' = cipher
          \/ /\ offer.encodingKnown /\ FlagsHonoured(cipher)
             /\ offer.protocol = "none"
             /\ RaiseProtocol(<<"NOK">>, cipher)
             /\ cipherOn' = cipher
          \/ /\ offer.encodingKnown /\ FlagsHonoured(cipher)
             /\ offer.protocol # "none"
             /\ at' = "name"
             /\ cipherOn' = cipher
             /\ Transmit(<<ToSlave(offer.protocol, cipher)>>)
             /\ toMaster' = Tail(toMaster)
             /\ UNCHANGED <<failure, credentials, save, masterOpen>>
    /\ UNCHANGED stored

\* Fault: the flags of the reply are not looked at.
NeverAsked == FALSE

AuthenticationRequired == dev.authenticationRequired

\* The slave's name.  Stored credentials are used and will be stored again.
ReadName ==
    /\ Receives("name")
    /\ Head(toMaster).kind = "OK"
    /\ toMaster' = Tail(toMaster)
    /\ \/ /\ ~AuthenticationRequired
          /\ at' = "agreed"
          /\ UNCHANGED <<toSlave, credentials, save>>
       \/ /\ AuthenticationRequired /\ stored = "none"
          /\ at' = "ask"
          /\ UNCHANGED <<toSlave, credentials, save>>
       \/ /\ AuthenticationRequired /\ stored # "none"
          /\ at' = "confirm"
          /\ credentials' = stored /\ save' = TRUE
          /\ Transmit(<<ToSlave(stored, cipherOn)>>)
    /\ UNCHANGED <<failure, masterOpen, cipherOn, stored>>

\* Fault: new credentials are stored before the slave has confirmed them.
StoreAtOnce(password, wanted) == stored' = IF wanted THEN password ELSE stored

StoreLater(password, wanted) == UNCHANGED stored

\* The user answers the callback, however long it takes.
EnterCredentials ==
    /\ at = "ask"
    /\ \E password \in Password, wanted \in BOOLEAN :
          /\ credentials' = password /\ save' = wanted
          /\ Transmit(<<ToSlave(password, cipherOn)>>)
          /\ StoreLater(password, wanted)
    /\ at' = "confirm"
    /\ UNCHANGED <<vars, settings, failure, masterOpen, toMaster, status, aborted,
                   cipherOn, disturbed>>

CancelCredentials ==
    /\ at = "ask"
    /\ Raise("cancelled")
    /\ UNCHANGED <<vars, settings, toSlave, status, aborted, cipherOn, stored, disturbed>>

\* The confirmation.  A refusal is a ProtocolException like any other: the handler
\* that would clear a stored password (IODevice.java:529) is never reached.
ReadConfirmation ==
    /\ Receives("confirm")
    /\ Head(toMaster).kind = "OK"
    /\ toMaster' = Tail(toMaster)
    /\ stored' = IF save THEN credentials ELSE stored
    /\ at' = "agreed"
    /\ UNCHANGED <<failure, credentials, save, masterOpen, toSlave, cipherOn>>

\* handshake has returned; aborted is not looked at any more.
Agreed ==
    /\ at = "agreed"
    /\ at' = "opening"
    /\ status' = "CONNECTED"
    /\ UNCHANGED <<vars, settings, network, failure, credentials, save, aborted,
                   cipherOn, stored, disturbed>>

\* connectionOpened starts the messaging of MasterProtocol and sets the status again.
Open ==
    /\ at = "opening"
    /\ at' = "idle"
    /\ status' = "CONNECTED"
    /\ UNCHANGED <<vars, settings, network, failure, credentials, save, aborted,
                   cipherOn, stored, disturbed>>

\* The loop of receiveHandshakeMessage sees that the device is no longer connecting.
NoticeAbort ==
    /\ Waiting /\ status # "CONNECTING"
    /\ Raise("failed")
    /\ UNCHANGED <<vars, settings, toSlave, status, aborted, cipherOn, stored, disturbed>>

\* Fault: the master waits until an answer comes.
WaitOn == FALSE

\* The loop has run for HANDSHAKE_TIMEOUT.  Where the cipher may not fit, a timeout
\* is an error.
GivesUp == Waiting /\ status = "CONNECTING"

Timeout ==
    /\ GivesUp
    /\ Raise(IF at = "name" /\ cipherOn THEN "error" ELSE "failed")
    /\ disturbed' = (disturbed \/ ~Quiet)
    /\ UNCHANGED <<vars, settings, toSlave, status, aborted, cipherOn, stored>>

IoFails ==
    /\ Waiting
    /\ Raise("failed")
    /\ disturbed' = TRUE
    /\ UNCHANGED <<vars, settings, toSlave, status, aborted, cipherOn, stored>>

\* Fault: the failure itself becomes the status.
FailureAsStatus == failure

\* Fault: a cancelled attempt is not reported.
ReportedStatus == CASE failure = "error" -> "ERROR"
                    [] failure = "failed" -> "DISCONNECTED"
                    [] OTHER -> status

FailureStatus == IF failure = "error" THEN "ERROR" ELSE "DISCONNECTED"

\* The handler of the exception tells the listener unless the attempt was aborted.
Report ==
    /\ at = "failed"
    /\ at' = "idle"
    /\ status' = IF aborted THEN status ELSE FailureStatus
    /\ UNCHANGED <<vars, settings, network, failure, credentials, save, aborted,
                   cipherOn, stored, disturbed>>

ConnectThread ==
    \/ Initiate \/ TryConnect \/ ConnectFails
    \/ ReadRefusal \/ ReadReply \/ ReadName \/ ReadConfirmation
    \/ NoticeAbort \/ Timeout
    \/ Agreed \/ Open \/ Report

-----------------------------------------------------------------------------
(* The user, and the end of a connection                                   *)

\* abortConnect while the connect thread runs.
AbortConnect ==
    /\ at # "idle"
    /\ aborted' = TRUE
    /\ status' = "DISCONNECTED"
    /\ UNCHANGED <<vars, settings, threadVars, network, cipherOn, stored, disturbed>>

\* abortConnect without a connection attempt closes the device, connected or not.
AbortWithoutAttempt ==
    /\ at = "idle" /\ masterOpen
    /\ CloseSocket
    /\ UNCHANGED <<vars, settings, threadVars, toSlave, status, aborted, cipherOn,
                   stored, disturbed>>

\* The end of MasterProtocol's connection: by the user or on an error, with or
\* without a Disconnect message.
ConnectionEnds ==
    /\ at = "idle" /\ status = "CONNECTED"
    /\ status' \in {"DISCONNECTED", "ERROR"}
    /\ \/ masterOpen /\ Transmit(<<ToSlave("Dis", cipherOn)>>)
       \/ UNCHANGED toSlave
    /\ CloseSocket
    /\ UNCHANGED <<vars, settings, threadVars, aborted, cipherOn, stored, disturbed>>

User ==
    \/ StartConnect \/ AbortConnect \/ AbortWithoutAttempt
    \/ EnterCredentials \/ CancelCredentials
    \/ ConnectionEnds

-----------------------------------------------------------------------------
(* The slave                                                               *)

\* A callback of the device or a send has failed.
SlaveFault ==
    \/ result' = "FUNCTION_UNKNOWN"
    \/ \E i \in DOMAIN out' : ~out'[i].sent

\* What the slave sends reaches the master, and when it stops listening to the
\* connection, what is still under way is lost.
SlaveExchange(rest) ==
    /\ toSlave' = IF stage' = "Listening" THEN <<>> ELSE rest
    /\ toMaster' = IF masterOpen THEN toMaster \o Delivered ELSE toMaster
    /\ UNCHANGED <<settings, threadVars, masterOpen, status, aborted, cipherOn, stored>>

\* The message as the handler of each stage sees it.
SlaveReads(m) ==
    \/ RecvHandshake([channel |-> ControlChannel, valid |-> TRUE,
                      flags |-> master.flags, methodListed |-> master.listed])
    \/ RecvSelect([channel |-> ControlChannel,
                   kind |-> IF m.kind \in {"Dis", "BP", "EP"} THEN m.kind
                            ELSE "malformed"])
    \/ RecvAuth([channel |-> ControlChannel,
                 kind |-> IF m.kind \in Password THEN m.kind ELSE "Dis"])
    \/ m.kind = "Dis" /\ RecvControl("Dis")

SlaveReceives ==
    /\ stage # "Listening" /\ toSlave # <<>>
    /\ LET m == Head(toSlave)
       IN IF Readable(m, encryption) THEN SlaveReads(m) ELSE ReceiveFails
    /\ SlaveExchange(Tail(toSlave))
    /\ disturbed' = (disturbed \/ SlaveFault)

\* The slave's wait ends without a message: the master has closed the connection,
\* or nothing came in time.
SlaveGivesUp ==
    /\ ReceiveFails
    /\ SlaveExchange(<<>>)
    /\ disturbed' = (disturbed \/ (masterOpen /\ ~Quiet))

Slave == SlaveReceives \/ SlaveGivesUp

-----------------------------------------------------------------------------
HandshakeInit ==
    /\ Init
    /\ master \in Master
    /\ offer \in Offer
    /\ offer.protocol = "EP" => dev.getProtocol
    /\ status = "DISCONNECTED"
    /\ at = "idle"
    /\ failure = "failed"
    /\ aborted = FALSE
    /\ cipherOn = FALSE
    /\ stored \in Password \cup {"none"}
    /\ credentials = "Auth"
    /\ save = FALSE
    /\ masterOpen = FALSE
    /\ toSlave = <<>>
    /\ toMaster = <<>>
    /\ disturbed = FALSE

HandshakeNext == ConnectThread \/ IoFails \/ User \/ Slave

\* The connect thread is never stopped: its waits and the opening of the socket are
\* bounded by timeouts.  The dialog that asks for credentials is answered or
\* cancelled.  Nothing is assumed of the slave.
HandshakeSpec ==
    /\ HandshakeInit /\ [][HandshakeNext]_allVars
    /\ WF_allVars(ConnectThread)
    /\ WF_allVars(EnterCredentials \/ CancelCredentials)

-----------------------------------------------------------------------------
(* Properties                                                              *)

\* The variables of the master and of the connection have their types.
HandshakeTypeOK ==
    /\ master \in Master
    /\ offer \in Offer
    /\ status \in {"DISCONNECTED", "CONNECTING", "CONNECTED", "ERROR"}
    /\ at \in {"idle", "start", "connect", "reply", "name", "ask", "confirm", "agreed",
               "opening", "failed"}
    /\ failure \in {"failed", "error", "cancelled"}
    /\ {aborted, cipherOn, save, masterOpen, disturbed} \subseteq BOOLEAN
    /\ stored \in Password \cup {"none"}
    /\ credentials \in Password
    /\ \A i \in DOMAIN toSlave :
          toSlave[i] \in [kind : {"OPDI", "NOK", "Dis", "BP", "EP"} \cup Password,
                          encrypted : BOOLEAN]
    /\ \A i \in DOMAIN toMaster :
          toMaster[i] \in [kind : {"OPDI", "OK", "NOK"}, encrypted : BOOLEAN,
                           announced : BOOLEAN]

\* Both sides switch the encryption on at the same point of the dialogue or not at
\* all: while they talk to each other after the reply, they use the same cipher.
SameCipher ==
    /\ masterOpen /\ at \in {"name", "ask", "confirm", "agreed", "opening", "idle"}
    /\ stage \in {"AwaitSelect", "AwaitAuth", "Running"}
    => cipherOn = encryption

\* A connection the user sees as established honours what both sides demand of its
\* encryption, whichever of them had to refuse (handshake of IODevice, opdi_slave_start).
BothFlagsHonoured ==
    status = "CONNECTED" =>
        /\ master.flags.encryptionRequired \/ dev.encryptionRequired => cipherOn
        /\ master.flags.encryptionNotAllowed \/ dev.encryptionNotAllowed => ~cipherOn

\* The user's password is sent to no device that does not ask for it, and never in the
\* clear when one of the sides requires encryption.
CredentialsProtected ==
    \A i \in DOMAIN toSlave : toSlave[i].kind \in Password =>
        /\ dev.authenticationRequired
        /\ master.flags.encryptionRequired \/ dev.encryptionRequired
              => toSlave[i].encrypted

\* The master stores no password before the device has accepted it.  To forget the
\* stored one is always allowed.
OnlyAcceptedStored ==
    [][stored' # stored /\ stored' # "none" => stored' = "Auth" /\ authenticated]_allVars

\* "On error clear password" (IODevice.java:530): a stored password the device refuses
\* is forgotten, so that the next attempt asks the user for one instead of sending the
\* same one for ever.
RefusedPasswordCleared ==
    at = "confirm" /\ credentials = "BadAuth" /\ stored = "BadAuth"
    ~> stored = "none" \/ disturbed \/ aborted

\* When the master reports a connection, the slave serves it: it has got through its
\* half of the handshake, with the master's key.  A build without authentication is the
\* known exception: it ends the handshake after the message that completes the master's.
ConnectedMeansServed ==
    /\ status = "CONNECTED" /\ masterOpen /\ ~disturbed
    /\ ~(dev.noAuthentication /\ master.flags.authenticationRequired)
    => stage = "Running" /\ (cipherOn => master.keyFits)

\* An attempt that is over has told its listener how it ended, unless the user has
\* aborted it: the device is not left CONNECTING.
EndIsReported == at = "idle" /\ status = "CONNECTING" => aborted

\* A master and a slave that can agree: the encoding and a protocol are known, the
\* encryption both allow or one requires is possible with the key the master has, and
\* the password is stored.  A master that does not allow encryption but has a key
\* does not agree with a slave that allows it (opdi_slave_protocol.c:1507).
Compatible ==
    LET encrypt == master.listed /\ ~dev.noEncryption /\ ~dev.encryptionNotAllowed
    IN /\ offer.encodingKnown /\ offer.protocol # "none"
       /\ encrypt => master.keyFits /\ ~master.flags.encryptionNotAllowed
       /\ master.flags.encryptionRequired \/ dev.encryptionRequired => encrypt
       /\ master.flags.authenticationRequired => ~dev.noAuthentication
       /\ dev.authenticationRequired => stored = "Auth"

\* A master and a slave that can agree do: if nothing goes wrong and the user does not
\* interfere, an attempt ends in a connection, whatever happened in earlier ones.
CompatibleConnects ==
    at = "start" /\ Compatible ~> status = "CONNECTED" \/ disturbed \/ aborted

\* Every attempt ends, whatever the slave does: it connects, fails or notices that it
\* was aborted.
AttemptEnds == at # "idle" ~> at = "idle"

=============================================================================
