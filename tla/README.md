# Verification of the OPDI core

OPDI lets a master (a user interface) discover and operate the ports of a slave (a device) over a byte
stream. This directory holds TLA+ modules that model the slave core in `src/code/c` and the master in
`src/code/java/common`, the TLC configurations that check them, alone and connected to each other, and
theorems that the TLA+ proof system checks. `PROJECT.json` maps every definition to the lines it models and
lists the runs, the deliberately faulty variants that every property is tested with, the hazards and the
findings.

## 1. Inventory

| Component | State it keeps | Operations | Talks to |
|---|---|---|---|
| Port registry, `code/c/common/opdi_port.c` | linked list of ports, `portCount`, `sPortBinds` and its count, the `channel` field of every streaming port | add, clear, find, bind, unbind, dispatch, reset | called by the session's handlers and by the device |
| Slave session, `opdi_slave_protocol.c`, `opdi_protocol.c` | `connected`, `opdi_msg_parts`, the locals of `opdi_slave_start` | handshake, message loop, request handlers, `opdi_disconnect`, `opdi_refresh`, `opdi_reconfigure`, `opdi_send_debug` | reads and sends through the transport, calls the device's getters and setters, which call back into it |
| Extended protocol, same file | the same buffers | bulk queries, groups, extended infos | as above |
| Transport, `opdi_message.c` | `encryption`, `message_timeout`, two buffers `msgBuf`, `msgPayload` | setup, get, put, encryption and timeout switches | the receive and send functions of the host |
| Part strings, `opdi_strings.c` | none | split, join | everything that builds or reads a payload |
| Host, `configs/LinOPDI/LinOPDI.cpp` with `configs/test/test.c` | socket, `last_activity`, sample ports, the chosen menu | accept loop, byte receive with timeout, streaming while waiting, idle timeout, menu switch | starts sessions; is called back while the transport waits and after every message |
| Java master protocol, `BasicProtocol.java`, `AbstractProtocol.java` | channel counter, bound streaming ports, capability cache, control messages put aside | request and reply on a channel, dispatch, bind, ping | queues of the device; several UI threads |
| Java message queue device, `MessageQueueDevice.java` | `inQueue`, `outQueue`, status, `stop`, `done` | message processor thread, terminator thread | protocol dispatch, listeners |
| Java IO device, `IODevice.java` | connect thread, encryption, credentials | connect, abort, handshake | slave handshake |
| C++ master, `code/c/common/master` | the same as the Java one, unfinished | the same, mostly stubs | |
| Other configurations, platforms, drivers, AndroPDI | hardware, GUI | | |

### What is hard

* The slave is single threaded, but it is re-entered: while it waits for a message the host streams on
  bound channels, a setter may refresh, reconfigure, disconnect or replace the whole port list before the
  request is answered, and a session can end at every receive and every send.
* Static state outlives a session: bindings, encryption, timeout, `connected`. What one session leaves
  behind must not reach the next.
* Bindings are kept twice, in a packed array and in the ports.
* On the master several threads share the channel counter, the queues, the capability cache and the
  bindings, with several different locks or none.
* Encryption changes on both sides between two messages; credentials have a timeout of their own.

### What makes each component correct

* Registry: the array never overflows, a channel has at most one port, dispatch and streaming agree, a
  port taken off the list is not bound, and a bound port knows it.
* Session: nothing is served before the required credentials; encryption honours both sides' flags and is
  used from exactly the announced message on; every surviving request is answered once on its channel;
  nothing follows a disconnect; a session inherits nothing; the slave always listens again.
* Transport: what is decoded is what was encoded; a partly received message is never overwritten.
* Strings: splitting a joined list returns it, within the array.
* Master: a reply reaches the request it belongs to; no control message is lost; caches are dropped when
  the device says so; a terminated connection has sent its last messages; of two connection attempts only
  one lives.

## 2. What is modelled

```
ChannelMap  <- implemented by -  PortBindings
                                  |          \
                              SlaveSession   MasterProtocol      Strings
                                  |                                 |
                              Handshake                          Framing
                                                                    |
                                                                 BulkQuery
```

A line downwards is `EXTENDS`. `SlaveSession` is the slave with an arbitrary master, `Handshake` the same
slave with the Java master's connect thread, `MasterProtocol` the threads of a connected master with a
simplified slave, and `BulkQuery` the two ends of the byte stream with the one conversation in which the
slave answers a request with many messages.

### `PortBindings`, the registry

One action per function of `opdi_port.c`. The linked list is the sequence `ports`; the array with its
count is the sequence `sPortBinds`, so that a write beyond the array shows as a sequence longer than
`OPDI_STREAMING_PORTS`; `spChannel` is the `channel` field of each streaming port, 0 when unbound. Each
function is split into the status it returns and its effect (`BindStatus`, `BindEffect`, ...), because the
session's handlers run the effect and send a message that depends on the status in the same step. First
matches are `First` of the positions that match. Binding and unbinding take listed ports, as every caller
looks the port up first; adding takes unlisted ports, as every caller in the repository does.

### `ChannelMap`, what the registry promises

One variable: the owner of each channel. A channel is given only while it is free and fewer than `Room`
channels are given, and is taken back singly or with all others. `PortBindings` implements it with the
refinement mapping `Owner`: the owner of a channel is what `opdi_try_dispatch_stream` finds for it. A bind
that is refused or repeated, adding ports, and unbinding an unbound port are stutters.

### `SlaveSession`, one slave and its host

Extends `PortBindings`. Between two waits for a message the slave is not interrupted, so an action is all
that happens from the return of one `opdi_get_message` to the next call of it; `stage` says in which of
the calls it waits:

| `stage` | Waits in |
|---|---|
| `Listening` | `accept` |
| `AwaitHandshake` | `HandleTCPConnection`, first message |
| `AwaitSelect` | `expect_control_message` in `opdi_slave_start` |
| `AwaitAuth` | the authentication receive, with the long timeout |
| `Running` | `message_loop` |

The messages an action sends are the sequence `out`, each with its channel, whether it was encrypted and
whether the send function accepted it. Functions that send return *outcomes*, pairs of a status and the
messages sent by then, so that a failing send stops exactly what it stops in the code: `Send` passes the
status on, `SendIgnored` is for the calls whose status is dropped, `Then` runs a second part only after OK.
`handle_message_result` is applied to the outcome of every request.

`dev` is the build and its flags and is chosen once; the master is arbitrary. A message is what the code
tells apart: a handshake message is valid or not, has flags and lists the device's method or not; requests
are queries, state queries, state changes, menu switches, binds and unbinds, unknown ones, and stream data.
All refusals of a request have one status, as `handle_message_result` treats them alike.

History variables: `authenticated`, `granted` (the bindings this session made and did not undo), `userIdle`
(ticks since a message on a channel of 20 or higher), `received`. No guard reads them.

### `Handshake`, a master that connects to that slave

Extends `SlaveSession` with the connect thread of `IODevice.java` and the two directions of a TCP connection
(`toSlave`, `toMaster`). `at` is the wait the thread is in:

| `at` | Where the thread is |
|---|---|
| `idle` | there is none |
| `start`, `connect` | before `connectionInitiated`, before `tryConnect` |
| `reply`, `name`, `confirm` | waiting for the handshake reply, the device's name, the agreement |
| `ask` | in the callback that asks for credentials |
| `agreed`, `opening` | `handshake` has returned; before and in `connectionOpened` |
| `failed` | in an exception handler, the device closed |

An action of the master runs from one of these points to the next. What fails throws: `Raise` closes the
socket, `RaiseProtocol` sends a Disconnect before, and `Report` is the handler's call of the listener with
the status that belongs to the exception. The user may abort at any point, enters right or wrong
credentials, may have them stored, and connects again. The slave's actions are those of `SlaveSession` with
the message taken from the line; what they put into `out` reaches the line. A message in another cipher
than the reader's, or of another key, is not `Readable`. `master` and `offer` are the settings: flags, key,
whether it fits, what the slave offers.

`disturbed` records that a connection failed, a wait timed out while something was under way, or the slave
failed for reasons of its own; the liveness property `CompatibleConnects` excuses such attempts.

### `MasterProtocol`, the threads of a connected master

`call[c].at` is the point of the protocol functions a caller stands at, and names only points where another
thread can come between: before the counter's monitor is entered, inside it, before `send`, before
`expectingMessage` is set, in the wait, before the flag is cleared, before and after the look at
`messagesToDispatch`, and where the reply is used. The message processor holds the monitor of `inQueue` from
reading a message until it is dispatched; the one point in between that matters is `mp = "aside"`, after it
has found the flag set. Every `disconnect` starts a terminator thread with the steps announce, stop, wait
and close. The slave's end of the line handles one message per action with the registry of `PortBindings`;
it may reconfigure, stream, refuse, disconnect or end without a word.

All getters and setters are one kind of operation, a request with one reply; the capabilities are a request
followed by one per port on the same channel. `lock` is the `Integer` object whose monitor
`getSynchronousChannel` enters, which is not the one another thread enters when the counter was replaced in
between. `CHANNEL_ROLLOVER` is a constant, so that a run wraps around after two channels.

History variables: `collided`, `drainFailed`, `delivered`, `unsentAtStop`, and two about bindings:
`channelShared`, two bindings under way at once have chosen the same channel of a streaming port, and
`portShared`, an operation on a port was begun while another one was under way or a bind while it was bound.
No guard reads them.

### `Strings`, `Framing` and `BulkQuery`, the byte stream and the long answers

`Strings` has both implementations of join and split: the slave's, which trims, and cuts off at an array;
the master's, which escapes. `Framing` has encoding, checksum and padding and the two readers: the slave's
takes one byte, or one block, at a time into `msgBuf` and hands over a message at the terminator; the
master's takes whatever has arrived. The wire carries characters; an encrypted block is written as its
plaintext, and a disturbed one as `Noise`. The loops over the characters of a text are recursive functions
that go through it once, as the code does: `Scan` with the state `Scanned` between two characters, the sum of
`Checksum` with its 16 bits (`SumLimit`), the digits of `ChannelNumber`, and `ProcessClear` with one step
`Processed` for every byte. The four hexadecimal digits of a checksum are one character, `SumName` of the sum;
`SumAssumption` says that it is neither of the two marks.

`BulkQuery` runs the query of a device over that wire. `reader` is the slave's receive function with the
static buffer that streaming from inside it reuses; handlers assemble messages in the global array
`opdi_msg_parts`, whose contents survive from one message to the next; the master counts the messages and
assigns them to the ports of its list. `phase` is where the querying thread stands:

| Phases | Code |
|---|---|
| `query`, `caps` | `BasicProtocol.getDeviceCapabilities`: `gDC` |
| `infos`, `info`, `extendedInfo` | the first loop of `getAllPortInfos`: `gAPI` |
| `askLabels`, `label` | `getSelectPortLabels`, called by `SelectPort`'s constructor on a channel of its own: `gASL` |
| `groups`, `askGroup`, `group`, `assign`, `endless` | the second loop of `getAllPortInfos`, `getGroupInfo`, `setParentGroup`: `gGI`; `path` is the recursion's stack |
| `askDeviceInfo`, `deviceInfo` | `ExtendedProtocol.getDeviceCapabilities`: `gEDI` |
| `states`, `state`, `extendedState` | `getAllPortStates`: `gAPS` |

`QueryAgain` is the user's next attempt after one that has failed with the connection intact; `deviceCaps`
and `groupCache` are what the protocol object keeps between attempts, and the answers to the first attempt
may still be under way. `config` fixes the device, the connection, what may be disturbed, and a message that
precedes the queries and has arbitrary parts: with it the run is also the test of join and split against each
other, since a message must arrive as it was sent.

`SentToSlave` and `SentToMaster` say what each side has to receive: of the requests those that fit the slave's
buffers (`Fits`), taken apart and trimmed as the slave does it, and of the answers all. `MessagesFaithful`
is `RequestsFaithful` and `AnswersFaithful`, one for each direction.

## 3. Runs

| Run | Shows | Size |
|---|---|---|
| `PortBindings` | the registry's invariants and that it implements `ChannelMap` | 3 streaming ports, 1 other, channels 2 to 5, list and array of 3; 26 643 states |
| `SlaveSession` | sessions in any sequence, safety | 3 devices, all master flags, 2 streaming ports, array of 2, channels 2 to 4; 514 197 states |
| `SlaveLiveness` | the slave is released; idle disconnects are justified | 2 devices, 1 streaming port, one low and one user channel; 9 460 states |
| `Handshake` | both sides agree on the cipher and honour each other's flags, passwords are protected, a pair that can connect does | 4 devices, 12 masters, 4 offers; 219 264 states |
| `MasterProtocol` | callers get their own answers, streams reach their ports, both tables agree | 2 callers with 2 and 1 operations, both binding, 2 streaming ports, 2 channels each; 2.33 million states |
| `MasterEnds` | every operation returns, what was queued is sent unless the connection is cut, a terminated connection is closed | 1 caller with 2 operations, both disconnects, every failure; 179 000 states |
| `BulkQuery` | messages arrive as sent or not at all, every port and group gets what is its own, the first query accepts no cycle of groups, queries end but for what finding 5 says of a third one | 206 configurations, 3 attempts; 91 244 states |
| `BoundChannel` | finding 1 | as `PortBindings` |
| `StaleCapabilities` | finding 2 | 1 caller with 2 operations |
| `RemainingMessages` | finding 3 | 1 caller, 1 streaming port, the user disconnects once, nothing else fails |
| `RefusedPassword` | finding 4 | as `Handshake` |
| `GroupCycles` | finding 5 | 8 devices with groups, 2 attempts |

Bounds and why they suffice:

* `OPDI_MAX_DEVICE_PORTS` is 3 with 4 ports, and `MayAdd` lets one add more than fits happen, so the
  refusal and the drift of `portCount` occur. The session runs need room for the longest menu.
* `OPDI_STREAMING_PORTS` is 3 with 4 channels in the registry run: the array fills up, an entry is removed
  at the beginning, in the middle and at the end, and one more bind is refused. The session runs have 2, as
  the Linux host does, and 3 channels, so that `TOO_MANY_BINDINGS` is answered.
* `IdleLimit` is 1 tick; the clock stops one tick after the limit (guard of `Tick`), because the code only
  compares with the limit.
* One synchronous channel in the session runs: the slave never compares two of them. One low channel where
  it matters (idle).
* `SlaveSession` uses three devices: a plain one, one that forbids encryption and offers other protocols,
  one that requires encryption and authentication. The build without encryption is in `SlaveLiveness` and
  `Handshake`.
* `Handshake`: one attempt at a time, any number of them one after the other; the line holds what the two
  sides send without waiting, which is bounded by itself. The masters have at most one flag set.
* `MasterProtocol`: two synchronous channels (`CHANNEL_ROLLOVER` 22), so that the counter wraps around while
  an operation is under way and `collided` occurs; the caller with two operations reuses a channel. One
  change of the port list and one message of stream data, at any time. `MayFail` is off there, and on in
  `MasterEnds`, which has one caller: a second one multiplies the interleavings beyond the time there is.
* `Binder` is both callers, which bind and unbind two ports in any order and at the same time, as the views
  of AndroPDI do (`ShowPortDetails` binds in a thread of its own, the query thread of `ShowDevicePorts` binds
  ports on their own account). Reached are two bindings under way at once that choose the same channel, a binding
  and an unbinding at the same point without a clash, and both ports bound. `Reader` is one caller,
  `c1`: only it queries and reads the capabilities, since both reading them at once multiplies the states
  beyond the time there is. What two queries at once do to each other is therefore not in the run, but is in
  the theorems.
* `BulkQuery`: a buffer of 20 characters with blocks of 4 keeps the divisibility of the real 256 and 16, and
  payloads of 10 to 16 characters lie on both sides of every limit. 4 parts let too many parts happen. Two
  ports and three groups give a chain two ports share, a group that is not known, a group above itself and a
  cycle with a group below it; three ports, one in a group above itself, one in a group below that and one
  below both, are what it takes for the third attempt to go round in the cycle (`BelowCycle`), and so three attempts are
  made; `ChunkSizes` is how much the master takes when it does not take all, 7, a
  number that does not divide the messages.

Deadlock is checked except in the runs of `MasterProtocol`, where the one connection ends. In `BulkQuery` the
querying thread's polling is a stuttering disjunct, so a deadlock there means that nobody can move a query
that has not ended.

The registry run and `MasterProtocol` use symmetry over the streaming ports, which no definition tells apart;
they check invariants and a step property only. The session runs use none, as the order of streaming is
fixed.

### Fairness

`FairSpec` of `SlaveSession` has weak fairness on `GetMessageReturns` and on `Tick`. The first is the receive
timeout: every receive function of the configurations gives up on a byte after `message_timeout`
(`io_receive`, `LinOPDI.cpp` 97 and 138), so with a master that is gone `opdi_get_message` returns. With a
live master it assumes that complete, well-formed messages arrive or none: `opdi_get_message` goes on after a
malformed or overlong one, and a master that sends only those for ever would hold it. The second says that
time goes on. Nothing is assumed about connections, the master's requests or successful sends.
`InactiveMasterReleased` is about a master that sends keepalives only; its premise leaves the code no other
reason to stay than its own clock.

`HandshakeSpec` has weak fairness on `ConnectThread`, whose waits are all bounded by timeouts, and on the end
of the credentials dialogue. Nothing is assumed of the slave: with a slave that never answers the attempt
still ends, and where `CompatibleConnects` promises a connection, a timeout that strikes although something
is under way counts as a disturbance.

`FairSpec` of `MasterProtocol` schedules the master's own threads (the message processor, every terminator,
every caller that has begun) and assumes nothing of the slave. `Spec` of `BulkQuery` schedules the reader of
either side and the querying thread; there the timeout expires only when nothing is under way, because early
timeouts are the subject of `MasterProtocol`.

## 4. Proofs

Eight modules hold theorems, for every value of the constants the named assumptions admit. `PROJECT.json`
lists them with the properties they state.

### `PortBindings_proofs`

From `PortAssumption` (streaming and other ports are disjoint, channels are positive numbers, sizes are
numbers):

* `PortInvariant`: the inductive invariant `PortInv`, and from it `PortTypeCorrect`, `TableIsWellFormed`,
  `BoundPortsStayListed` and `DispatchIsRight`;
* `RegistryImplementsChannelMap`: the initial states and every step of the registry map to those of
  `ChannelMap`.

`DispatchMatchesChannel` is not inductive: unbinding a port clears its field and removes its *first*
binding, which need not be the one the field names. What holds in every step is `ChannelIsBinding` (the
channel field of a port, unless 0, is in the table with that port) together with distinct channels in the
table; `PortInv` is their conjunction with the types and with `BoundPortsListed`. Distinct channels make
the first match the only one (`DispatchIsBound`), which gives dispatching and the refinement mapping.
`ChannelIsBinding` is also what makes `opdi_reset_bindings` complete although it only clears the fields of
ports in the table (`ClearUnbinds`). The converse, that every bound port has its field set, is false: run
`BoundChannel`. `RemoveAtProperties` is the shift loop of `opdi_unbind_port`; `FirstIsLeast` rests on the
well-foundedness of finite sets under inclusion, since induction over an operator is not available; that
the abstract room is never exceeded is a surjection from the positions onto the bound channels.

### `SlaveSession_proofs`

`SessionInvariant` proves `SessionInv`, the registry's `PortInv` with two more parts. `StageInv` is about the
stage of the connection: the types, the properties of the run, and what makes them inductive. `FlagsInv` says
that the flags are honoured from the handshake reply on, not only in a running session: while the slave waits
for the protocol or the credentials the reply is out already, and what it promised must still hold when the
session starts. `IdleInv` says that the host's clock is never ahead of the user's, as `last_activity` is
reset by more messages than `userIdle`. `StreamInv` adds that nothing is bound between the reply and the
session. From it follow `TypeOK`, `AuthenticatedWhenRequired`, `EncryptionHonoursFlags`,
`LongTimeoutOnlyForAuth`, `StreamsAreGranted`, `TableWellFormed` and the step property `SentAsAgreed`.

The properties of what one handler sends need more than a state: `LastInv` relates `out` to the message
that was handled last. It is proved with a calculus of outcomes, lemmas that say of `Send`, `SendIgnored`
and `Then` which of three forms they preserve: nothing after a Disconnect (`Proper`), only on the control
channel (`ControlOnly`), answered exactly once on a channel (`Answered`). From it follow
`NothingAfterDisconnect`, `AnsweredOnRequestChannel` and `IdleDisconnectJustified`.

`HandshakeOnControlChannel` is false for builds without encryption or authentication (see section 5).
`FullHandshakeOnControlChannel` proves it from the assumption that the build has both, which is exactly the
case that is left. `SessionImplementsChannelMap` carries the registry's refinement over to the session: handshakes and
menus release all channels, requests bind and unbind one, and every other step is a stutter.

### `Handshake_proofs`

`HandshakeImplementsSession`: every step of the composition is a step of the slave of `SlaveSession` or
leaves it alone, so that each theorem above holds of a slave that talks to the Java master.

`ConnectionInvariant` proves `ConnectionInv`: the session's two invariants, the types of the master, and
`AttemptInv`. Its core is `DialogueInv`, which says where both sides can be at the same time and what is
then under way in either direction, and `CipherInv`, which says of every message under way in which cipher it
was sent and that its reader will be in the same one by then. Neither is a property one would state of the
code; they are why the properties hold: the agreement on the cipher is never visible in one state, as the
two sides switch at different times. The slave's answers are classified once (`HandshakeAnswer`,
`NameAnswer`, `AuthAnswer`, `Silence`), and the proof of each of its steps goes through that classification.
From the invariant follow `HandshakeTypeOK`, `SameCipher`, `BothFlagsHonoured`, `CredentialsProtected`,
`EndIsReported` and the step property `OnlyAcceptedStored`.

`BothStayInStep` adds `ServedInv`, from which `ConnectedMeansServed` follows (`ConnectionsAreServed`). While
nothing has gone wrong the stage of the slave is determined by the point of the connect thread: once the
name is on its way to the master the slave waits for credentials or serves, and once the confirmation is, it
serves. `DialogueInv` alone allows a slave that has sent its answer and left. Each answer that the master may
wait for is therefore shown to be sent by a slave that goes on (`Goes`), with the one exception the property
names: a build without authentication that is asked for it.

### `MasterProtocol_proofs`

From `PortAssumption` and `MasterAssumption` (`NoPort` and `NoCaller` are nobody, the channels of bindings are
none of the master's own, sizes are numbers). `MasterInvariant` proves `MasterInv` for any number of callers,
operations, ports, channels and terminators, with failures and user disconnects. It has two parts.

`TypeInv` is the types with what makes them inductive: `CallInv` says which fields of an operation are
meaningful at which point, `WellFormed` what a message of each kind carries, and `QueueInv` relates the
queue to its flag: a queue that is not empty is marked as having messages to send, so the processor cannot
leave its loop past it, and what was queued at the stop is at the head. So the condition of the loop never lets it go with messages
unsent. `FailedInv` is about the other way out, the return of an exception handler: it is taken only when
another thread has closed the streams or the slave has ended (`Cut`). Both ways together are
`SentBeforeTheEnd`.

`AnswerInv` holds while no channel has been given out twice: callers that have a channel have different
ones (`ChannelsDiffer`), a request or an answer in any of the four queues is awaited by its caller with its
number and its channel (`Awaited`), and there is one of each caller (`OneEach`). `AnsweredAsAsked` alone is
not inductive: what keeps a caller from taking another's answer is that `expect` goes by the channel, that
the channels differ, and that the caller has no older answer under way (`FoundIsOwn`). A message on its way
is moved from one queue to the next, once by each action (`MoveMessage`, `MoveIn`), and the processor never
sees one it has not moved. A caller that gives up while its request is under way terminates the connection,
after which nothing is claimed about the queues. From it follow `AnswersAreRight` and `NothingLeftBehind`.

### `MasterBindings_proofs`

The bindings are kept in three places: the protocol's `boundStreamingPorts`, the channels of the master's
ports, and the slave's table. Any number of threads may bind and unbind. What the theorems exclude are the
clashes that the code does not prevent, each by the name of the history variable that records it; section 5
says what TLC finds without them.

Two bindings under way at once have different channels as long as none has ever chosen the channel of another
(`ApartInv` on `~channelShared`: such a channel is also free in the master's table, since who enters it has
chosen it before), and a port is in the hands of one operation at a time (`PortsApart` on `~portShared`). A
step can break either only where an operation begins, and there it is recorded (`SharedStep`, `NextShared`).

`BindingInvariant` proves `BindingInv`, from which `DataIsDelivered` states `DeliveredToItsPort`. A port has a
*claim* to a channel (`Claim`) when the slave has no other port on it, is not asked for another one, and no
data of another port is on its way. `ClaimInv` says who has one: the ports in the master's table, the port a
caller has the answer for and is going to enter, and the port of an OK that is still under way, for the data
behind it (`AnswerClaims`). So the claim is handed on from the slave's table through the queues to the
master's table without a gap, although the table lags behind. `BinderInv` and `MatchInv` say that an answer
speaks of the operation it is taken for; they rest on `AnswerInv` of the previous module, and so on
`~collided`. Without that premise the property is false: with a counter of one channel, TLC shows a caller
that takes the late answer to its first binding for that to its second one.

`AgreementInvariant` proves `AgreeInv`, from which `TablesAgree` states `BindingsAgree`. The tables differ most
of the time; `Agreement` says by what. For every port but that of a binding or unbinding that is done the
slave's channel is the master's, and for that one the slave is ahead: it has the channel the binder asked
for. *Done* (`Done`) means that the slave's answer exists, in a queue or in the hands of the caller, and is
neither lost nor doubled while it is moved. `BindingsAgree` is about a device that has not reconfigured
(`listVersion = 0`): one that has drops bindings the master may only then enter (`BasicProtocol.java` 706).

Both invariants see the actions only through what they do: `Effect`, `MasterMoves` and `SlaveMoves` say
how a step may change the queues, the operations and the tables. One group of lemmas shows that every action
has such an effect, another that every such effect keeps the invariants.

### `BulkQuery_proofs`

From `FramingAssumption` and `BulkAssumption`, which only bound the parameters. `BulkInvariant` proves
`BulkInv` for every device, every disturbance of the connection, all ways the threads take turns, and any
number of attempts:

* `ReaderInv`: what the slave's reader holds stays below the buffer, with whole blocks and with single bytes,
  and also after streaming has overwritten the buffer (`ReadWithinBuffer`, `OverwrittenWithinBuffer`);
* `CounterInv`: the master never takes a message for a port behind the end of its list;
* `GroupInv` with `PathInv`: the stack of `getGroupInfo` is a chain of cached groups, each the parent of the one
  before, whose last one is not in the cache while its information is awaited; so every link is to a group in
  the cache;
* `ForestInv`: as long as the first query has not failed, the links in the cache have no cycle.

The first three and the flags give `BulkTypeCorrect`, the last one `NoCycleAccepted`: a first query accepts no
group that is above itself, and the walk of `setParentGroup` ends, whatever the device says of its groups.
It is the one statement here that is about a loop of unbounded length. `IsForest` is formulated without paths
(every set of groups that is not empty has one with no parent in the set), so that the step that adds a link
is a matter of sets (`AssignedForest`). That the code's walk, which looks only for the group it started from,
ends nevertheless needs the walk itself: it exists as a function on the numbers (`WalkExists`), cannot stay in
a finite cache without meeting a group twice, and in a forest with one more link every cycle leads through
that link (`AssignedWalkEnds`). Induction over numbers, which the library offers for an operator only, is
replaced by a least element of a set of numbers (`LeastNumber`, `Induction`), from the well-foundedness of
finite sets.

### `Strings_proofs`

Splitting undoes joining, in both directions, for parts of any length over any set of characters:
`MasterSplitsWhatSlaveJoins` and `SlaveSplitsWhatMasterJoins`. The one assumption is that the parts are not
ambiguous (`Unambiguous`): a part that begins with a separator runs into the one before it, `a` and `:b` being
joined to `a:::b` as `a:` and `b` are.

The library's induction theorems cannot be used, as they take an operator. The module therefore proves two of
its own, which take a set or a function instead: `Induction` over numbers, from a least element
(`LeastNumber`), and `SequenceInduction` over the elements of a sequence. That a recursive function exists with
the values its definition gives is proved with them too (`Recursion`): tlapm takes such a definition
for a `CHOOSE`. The argument is then the one of a programmer. `ScanAppend` says what one character more does to
a scan; behind a part that was escaped the scan has the part, with nothing open (`ScanContinued`); a separator
that is followed by another character ends it; and so the pieces of parts that were escaped and separated are
these parts (`PiecesOfParts`). What remains is what each side does with blanks and empty parts.

### `Messages_proofs`

What `BulkQuery` does with the bytes, for every device, every configuration of the connection and every number
of queries: `AnswersArrive` proves `AnswersFaithful` and `RequestsArrive` proves `RequestsFaithful`, and
`MessagesArrive` has both, under one condition on the requests. The steps:

1. *Decoding undoes encoding* (`DecodingUndoesEncoding`). The marks in an encoded message are where they belong
   because neither digits nor checksums contain one; digits give back their number (`ChannelNumberIs`). The
   theorem is the same for the slave, except that it wants a text that is not empty and fits its buffer.
2. *Frames.* A message on the wire is its body, a terminator and, with a cipher, padding (`FrameType`), and
   `Wire` is the frames of some messages one behind the other. Where the first terminator is, the first message
   ends (`FirstTerminator`, `FirstFrame`).
3. *The master's reader.* `Takes(done, part, bytes, sent, cipher)` says that `sent` is `done` followed by messages
   whose frames are exactly `part \o bytes`. It is kept by taking any number of bytes, which may end in the
   middle of a message and may contain several (`MoreTaken`), and with a cipher by taking a block.
4. *Answers.* `AnswersInv` is `Takes` of what the slave has sent, together with the types of what it sends. That
   every handler sends messages that can be encoded goes through all answers of the extended protocol
   (`AllInfosType` and `AllStatesType` are inductions over the list of ports). A text with a terminator in it,
   which a device might have, is refused by the encoder and ends the session, and is not sent.
5. *The slave's reader* takes one byte at a time, or whole blocks, and its buffer is limited. `ReadingOf(reader,
   rest, pending, cipher)` says that what it has assembled and what is under way are the frames of `pending`;
   with one byte it goes on, or it returns the first message, or it drops it because it is not one the slave
   takes (`ByteRead`). Streaming, which overwrites the buffer, happens only between messages and leaves an
   empty reader as it is. The same fact is why `MessagesFaithful` breaks when `MaySend` lets it happen at any time.
6. *Requests.* What the master puts into a request is partly what it took out of answers, so the requests can be
   encoded only because the answers could: `TextsInv` says so of the queue, of the ports and their groups, and
   of the stack of `getGroupInfo`. `RequestsInv` is the counterpart of `AnswersInv`: the slave has got those of
   the first messages that it accepts, and the others are in its reader or under way.
7. From either invariant the property follows with the theorems of `Strings_proofs` (`AnswersFollow`,
   `RequestsFollow`).

`RequestsArrive` and `MessagesArrive` are about states in which the frames of all requests were shorter than the
slave's buffer (`RequestsBuffered`). Which texts a master sends is up to the user and to the device, whose ids it
sends back. A longer frame is dropped when the buffer is full, but what is left of it is read as the beginning
of the next message. That is harmless as long as it does not happen to end with a checksum that is right for
what is before it. For arbitrary buffer sizes and texts that cannot be excluded; TLC checks
`MessagesFaithful` without the condition, with texts that are too long by one character and more.

What the master puts together from the answers belongs where it puts it. `NothingMisattributed` has two halves:

* `RepliesAreRequested`: while nothing is disturbed and no request overflows the slave's buffer, every reply in
  the master's queue is on a channel it has used. `ChannelsInv` says so of everything the slave has sent
  (streamed data and reports of errors apart); it follows from `RequestsInv`, as the message the slave handles
  is one of the requests (`HandledIsRequested`), and from what the handlers send on (`HandleAnswersOn`).
* `NothingIsSwapped`: no port has the information, labels, state or group of another one, and no group another
  one's parent, however the device answers and whatever the slave takes a request for. An answer is *true*
  (`IsTrue`) if what it says of an id is what the device says of the one with this id. The slave says nothing
  else (`TruthInv`, handler by handler: the information behind a streaming port is another port's, but so is the
  id it comes with; the id behind a refused state is arbitrary, but so is the state). The answers are still true
  when they have been joined, split and rid of a leading blank (`TruthHeard`), so everything in the queue is
  true, and so is what the master makes of it, since it compares ids before it stores (`TakeTruePorts`,
  `TakeTrueGroups`, and `GroupOfInfo` for the group in the extended information): `KnownInv`. Without the
  comparison, `IsFor`, it does not hold, which is the mutant of the run.

Both are about devices whose ids of ports and groups do not begin with a blank, whose port ids do not contain
`group=`, and whose answers can be taken apart (`Distinct`). For others the property is false: an id that begins
with a blank arrives as the id without it, which may be that of another port, and an extended information with
`group=` in the id says a group that the device does not mean. That is how the protocol encodes them and not
something the documents exclude; every configuration of the run is `Distinct`.

### Only model-checked

The liveness properties (`MasterGoneReleases`, `InactiveMasterReleased`, `CompatibleConnects`, `AttemptEnds`,
`OperationsEnd`, `TerminationCompletes`, `QueryEnds`), since fairness is outside the prover's reach.

Of `BulkQuery`:

* `MessagesFaithful` where a frame overflows the slave's buffer (see above);
* `FaultConfined`: whether a disturbed message is detected depends on its characters. The checksum is a sum,
  two texts with the same one are as good as each other, and all characters that are not in `Alphabet` weigh the
  same. The property is about the alphabet of the run, whose characters have different weights;
* `QueryComplete`, except `FirstQueryWithoutCycle`: that nothing false is known is proved (see above), but not that
  everything is known in the end. It needs an invariant that says for every phase which answers are still to
  come, in which order, on both channels of the query;
* `NothingMisattributed` after a disturbance, for the same reason as `FaultConfined`.

No module that is proved about reaches a RECURSIVE operator.

## 5. Findings

Each of the first five is what a run shows.

1. `opdi_bind_port` does not look whether the port is bound elsewhere, so a port bound twice and unbound
   once stays in the table without a channel field (`BoundChannel`).
2. `getDeviceCapabilities` stores what it read after its last answer, also if a Reconfigure has cleared the
   cache in between; the stale capabilities stay (`StaleCapabilities`).
3. `done` is true after the first pass of the message processor's loop (`MessageQueueDevice.java` 189), so
   the thread that disconnects waits for nothing and closes the streams with messages in the queue. The
   comments at 73 ("flag to ensure that remaining messages are sent before stopping") and 312 ("to give it time
   to finish the protocol") are about preventing that (`RemainingMessages`). What does hold is
   `SentBeforeStopping`: only a cut connection loses messages.
4. The branch of `handshake` marked "on error clear password" (`IODevice.java` 530) is never reached, as
   `getHandshakeMessage` has made a ProtocolException of the refusal. A stored password that is refused is
   sent again at every attempt (`RefusedPassword`). If `ReadRefusal` clears it, the property holds.
5. The check for cycles in `setParentGroup` comes after the assignment, and `getGroupInfo` has cached the
   groups by then. The query that meets a cycle fails, but the next one finds the groups in the cache and
   accepts them (`GroupCycles`), and `getPortGroups`, which follows the parents, does not return. At a third
   attempt, with a port two groups below such a cycle, the walk of `setParentGroup` itself does not end. The
   run `BulkQuery` reaches that state, `endless`, and `QueryEnds` names it as the one exception. The conjunct of
   `QueryComplete` about cycles, `FirstQueryWithoutCycle`, is about the first attempt, for which it is proved.

Where the code also differs from what the repository says, without a run of its own:

* Two `send_disagreement` calls have channel and code swapped (`opdi_slave_protocol.c` 1446 and 1634), so
  that builds without encryption or authentication refuse on channels 12 and 15; `src/README.md` 109 says "The
  channel 0 is the control channel that is used for the initial handshake". `HandshakeOnControlChannel` is
  checked and proved for the full build and fails for the others.
* The inactivity counter is reset by every channel but 0 (`LinOPDI.cpp` 266); `src/README.md` 119 says "The slave
  resets its inactivity counter only when it receives a message on such a channel", which means 20 and higher.
  A refresh on channel 1 keeps the session alive. `InactiveMasterReleased` is about a master that sends on
  channel 0 only.
* Data for a bound streaming port goes to the request handler (`opdi_slave_protocol.c` 1344), and
  `opdi_try_dispatch_stream` is called from commented-out code only; `opdi_port.h` 204 says it "Tries to
  dispatch the message payload to a bound streaming port".
* `getSynchronousChannel` enters the monitor of an object that it replaces, so that two callers can take the
  same channel (`collided`); `BasicProtocol.java` 71 says "Returns a new unique channel for a new protocol", 79
  "calculate new unique channel number for synchronous protocol run". Two automatic refreshes at once share
  channel 1 by design and count as a collision too. `AnsweredAsAsked`, `DeliveredToItsPort` and `BindingsAgree` exclude
  a collision by name.
* One refused state ends the whole `gAPS` query (`ExtendedProtocol.java` 447), as the refusal carries its code
  where the id of the port is compared; 449 says "do not set the state of the port (after all, it's Access
  Denied)" and means the query to go on. `QueryComplete` is about devices that refuse no state (`Plain`).
* `abortConnect` without an attempt closes an established connection; `IDevice.java` 98 says "If no connection
  attempt is running, this has no effect." `ConnectedMeansServed` is about connections that are open
  (`masterOpen`).

What a property excludes or the code leaves open, where the repository makes no such statement:

* Two threads that bind at once find the same channel free (`BasicProtocol.java` 682), and if the device
  reconfigures in between, both ports get it and the data of one goes to the other (`channelShared`,
  excluded by `DeliveredToItsPort` and `BindingsAgree`). A port in two hands at once or bound twice
  (`portShared`), and a device that has reconfigured, are excluded by `BindingsAgree`.
* Two callers that empty `messagesToDispatch` at the same time: one of them leaves `expect` with an exception
  in place of its answer (`drainFailed`), which `BindingsAgree` excludes.
* A master that forbids encryption and has a key, with a slave that allows it, gets an encrypted session and
  breaks it off (`opdi_slave_protocol.c` 1507); `CompatibleConnects` does not count the pair as compatible.
* A device without ports lets the extended query time out, where the basic one skips the empty id; a streaming
  port in a `gAPI` reply gets the information of the port before it, or reads from NULL.

The run of `MasterProtocol` reaches states in which a channel was given out twice and in which a caller was
thrown out, and fails without `~collided`, `~channelShared`, `~portShared` or `listVersion = 0` where a property
names them, but for `DeliveredToItsPort` without `~collided`, which takes one more operation than the run has.
`~drainFailed` is named because a caller that is thrown out does not enter its binding; in the run
`listVersion = 0` already excludes those states, since it takes Refresh messages, which the model leaves out, to
put something aside without a Reconfigure.

## 6. Not modelled

* Of the slave: custom protocol handlers that a device registers (`get_protocol`); an idle timeout of 0 and
  hosts without `opdi_message_handled`; serial connections, which run the same calls; the hardware of the
  configurations. Conversions of numbers in requests succeed or fail. Devices with exactly
  `OPDI_MAX_DEVICE_PORTS` ports, where the code writes behind an array.
* Of the Java master: the ping thread, Refresh and Debug messages (passed to listeners), two connect threads
  at once, the locks and threads of `DeviceManager`, the cached values and drivers of the ports.
* Of the extended protocol: the single requests `gEPI` and `gEPS`, each one request with one reply as in
  `MasterProtocol`, and `gEGI`, which the Java master never sends. `ExtendedProtocol.java` 106 and 184 also
  accept a message without its last part; the model wants all parts, which the slave always sends.
* Of the byte stream: bytes lost while encrypted (the readers never find the block boundaries again), more
  than one disturbance, texts beginning with a single separator (no join makes one).
* The C++ master in `code/c/common/master` is an unfinished port of the Java one, most of whose requests are
  commented out; AES, POCO, OpenSSL's headers and libctb are third-party; AndroPDI is a GUI.

## 7. Plan

1. `ChannelMap`, `PortBindings`, `SlaveSession` and the proofs of the registry (done).
2. The threads of the master over its queues, with the channel counter, the capability cache and the early
   stream data: `MasterProtocol` (done, with `SyncChannels` as a part of it).
3. Connect, abort, restart and credentials, composed with the slave's handshake: `Handshake` (done).
4. The byte loop, joining and splitting, the long answers: `Strings`, `Framing`, `BulkQuery` (done).
5. Proofs of the safety of the session, of the handshake, of the master's channels, queues and bindings, and of
   the buffers, counters and groups of the long answers (done).
6. Proofs that joining and splitting undo each other and that every message arrives as it was sent, in both
   directions (done).
7. Proofs that the slave says only what is true of its device, on the channels it is asked on, and that the
   master keeps it where it belongs (done).
8. What is left: `QueryComplete`, from `MessagesArrive` and an invariant about which request the answers under way
   belong to; the checksum's part of `FaultConfined`, for one wrong character.
