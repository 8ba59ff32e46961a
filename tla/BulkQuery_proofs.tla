-------------------------- MODULE BulkQuery_proofs --------------------------
(***************************************************************************)
(* Proofs about the long answers, for every device, every disturbance and  *)
(* any number of attempts: the slave's reader keeps within its buffer, the *)
(* master reads no element its lists do not have, and the groups the first *)
(* query accepts have no cycle.                                            *)
(***************************************************************************)
EXTENDS BulkQuery, Strings_proofs

-----------------------------------------------------------------------------
(* The invariant                                                           *)

\* s is a sequence of anything.
Sequence(s) == s \in Seq(Range(s))

\* What has been assembled of a message, and of the next block, fits the buffer.
WithinBuffer(r) ==
    /\ Sequence(r.assembled) /\ Sequence(r.block)
    /\ Len(r.assembled) + Len(r.block) < BufferSize
    /\ Len(r.block) < BlockSize

ReaderInv == WithinBuffer(reader)

FlagInv ==
    /\ config \in Configuration
    /\ {serving, streamed, online, fault, deviceCaps} \subseteq BOOLEAN
    /\ phase \in Phase
    /\ attempt \in 1 .. MaxAttempts

\* The ports are counted from the first one, and there is another one when its state is
\* expected.
CounterInv ==
    /\ Sequence(ports)
    /\ counter \in 0 .. Len(ports)
    /\ phase = "caps" => counter = 0
    /\ phase \in {"state", "extendedState"} => counter < Len(ports)

\* The stack of the recursion: every group is below the next one and in the cache, but
\* for the last one while its information is awaited.
PathInv ==
    /\ Sequence(path) /\ path # <<>>
    /\ \A i \in DOMAIN path : path[i] # <<>>
    /\ \A i \in 1 .. Len(path) - 1 :
          path[i] \in DOMAIN groupCache /\ groupCache[path[i]].parent = path[i + 1]
    /\ phase \in {"askGroup", "group"} => Last(path) \notin DOMAIN groupCache
    /\ phase = "assign" =>
          /\ Last(path) \in DOMAIN groupCache
          /\ groupCache[Last(path)].parent \in DOMAIN groupCache

GroupInv ==
    /\ groupCache = [g \in DOMAIN groupCache |->
                        [parent |-> groupCache[g].parent, link |-> groupCache[g].link]]
    /\ IsFiniteSet(DOMAIN groupCache)
    /\ <<>> \notin DOMAIN groupCache
    /\ \A g \in DOMAIN groupCache : groupCache[g].link \in {<<>>} \cup DOMAIN groupCache
    /\ phase \in {"askGroup", "group", "assign"} => PathInv

\* A cycle ends the first query before its capabilities are complete; after that no
\* parents are assigned.
ForestInv ==
    /\ deviceCaps => phase \in {"askDeviceInfo", "deviceInfo", "states", "state",
                                "extendedState", "done", "failed"}
    /\ attempt = 1 =>
          /\ phase # "endless"
          /\ deviceCaps \/ phase # "failed" => IsForest(DOMAIN groupCache, LinkOf)

BulkInv == ReaderInv /\ FlagInv /\ CounterInv /\ GroupInv /\ ForestInv

-----------------------------------------------------------------------------
(* Sequences of anything                                                   *)

\* The domain and the elements of a sequence.
LEMMA SequenceFacts ==
    ASSUME NEW s, Sequence(s)
    PROVE  /\ Len(s) \in Nat /\ DOMAIN s = 1 .. Len(s)
           /\ s # <<>> => Len(s) > 0
           /\ \A i \in DOMAIN s : s[i] \in Range(s)
    BY DEF Sequence, Range

\* Every sequence is one of its own elements.
LEMMA IsSequence ==
    ASSUME NEW T, NEW t \in Seq(T)
    PROVE  Sequence(t)
<1>1. DOMAIN t = 1 .. Len(t) /\ Len(t) \in Nat /\ t = [i \in 1 .. Len(t) |-> t[i]]
    OBVIOUS
<1>2. \A i \in 1 .. Len(t) : t[i] \in Range(t)
    BY <1>1 DEF Range
<1> QED
    BY <1>1, <1>2 DEF Sequence

\* An element is appended.
LEMMA AppendSequence ==
    ASSUME NEW s, Sequence(s), NEW e
    PROVE  /\ Sequence(Append(s, e)) /\ Len(Append(s, e)) = Len(s) + 1
           /\ Append(s, e) # <<>> /\ Last(Append(s, e)) = e
           /\ \A i \in DOMAIN s : Append(s, e)[i] = s[i]
<1> DEFINE T == Range(s) \cup {e}
           t == Append(s, e)
<1>1. s \in Seq(T) /\ e \in T
    BY DEF Sequence
<1> HIDE DEF T
<1>2. /\ t \in Seq(T) /\ Len(t) = Len(s) + 1 /\ t[Len(s) + 1] = e
      /\ \A i \in 1 .. Len(s) : t[i] = s[i]
    BY <1>1
<1>3. Sequence(t)
    BY <1>2, IsSequence
<1>4. DOMAIN s = 1 .. Len(s)
    BY <1>1
<1>5. t # <<>>
    <2> HIDE DEF t
    <2> QED
        BY <1>1, <1>2
<1> QED
    BY <1>2, <1>3, <1>4, <1>5 DEF Last

\* Two sequences are joined.
LEMMA JoinSequences ==
    ASSUME NEW s, NEW t, Sequence(s), Sequence(t)
    PROVE  Sequence(s \o t) /\ Len(s \o t) = Len(s) + Len(t)
<1> DEFINE T == Range(s) \cup Range(t)
           u == s \o t
<1>1. s \in Seq(T) /\ t \in Seq(T)
    BY DEF Sequence
<1> HIDE DEF T
<1>2. u \in Seq(T) /\ Len(u) = Len(s) + Len(t)
    BY <1>1
<1>3. Sequence(u)
    BY <1>2, IsSequence
<1> QED
    BY <1>2, <1>3

\* A function on the positions of a sequence is a sequence of the same length.
LEMMA SameLength ==
    ASSUME NEW s, Sequence(s), NEW t, DOMAIN t = DOMAIN s, t = [i \in DOMAIN t |-> t[i]]
    PROVE  Sequence(t) /\ Len(t) = Len(s)
<1>1. DOMAIN t = 1 .. Len(s) /\ Len(s) \in Nat
    BY SequenceFacts
<1>2. t \in Seq(Range(t))
    BY <1>1 DEF Range
<1> QED
    BY <1>1, <1>2 DEF Sequence

\* The last element is taken off.
LEMMA FrontSequence ==
    ASSUME NEW s, Sequence(s), s # <<>>
    PROVE  /\ Sequence(Front(s)) /\ Len(Front(s)) = Len(s) - 1
           /\ \A i \in 1 .. Len(s) - 1 : Front(s)[i] = s[i]
<1>1. s \in Seq(Range(s)) /\ Len(s) \in Nat /\ Len(s) > 0
    BY SequenceFacts DEF Sequence
<1>2. Front(s) = [i \in 1 .. Len(s) - 1 |-> s[i]]
    BY <1>1 DEF Front
<1>3. Front(s) \in Seq(Range(Front(s))) /\ Len(Front(s)) = Len(s) - 1
    BY <1>1, <1>2 DEF Range
<1> QED
    BY <1>2, <1>3 DEF Sequence

-----------------------------------------------------------------------------
(* The reader of the slave                                                 *)

\* An empty reader is within its buffer.
LEMMA EmptyWithinBuffer == WithinBuffer(EmptyReader)
<1>1. <<>> \in Seq({}) /\ Len(<<>>) = 0
    OBVIOUS
<1>2. Sequence(<<>>)
    BY <1>1, IsSequence
<1>3. EmptyReader.assembled = <<>> /\ EmptyReader.block = <<>>
    BY DEF EmptyReader
<1> QED
    BY <1>1, <1>2, <1>3, FramingAssumption DEF WithinBuffer, FramingAssumption

\* What is being read is within the buffer if its parts are small enough.
LEMMA ReadingWithinBuffer ==
    ASSUME NEW assembled, NEW block, Sequence(assembled), Sequence(block),
           Len(assembled) + Len(block) < BufferSize, Len(block) < BlockSize
    PROVE  WithinBuffer(Reading(assembled, block).reader)
    BY DEF WithinBuffer, Reading

\* No byte, and no block, brings the slave's reader beyond the end of its buffer, in the
\* clear and with a cipher.
LEMMA ReadWithinBuffer ==
    ASSUME NEW r, WithinBuffer(r), NEW byte, NEW cipher
    PROVE  WithinBuffer(ReadByte(r, byte, cipher).reader)
<1>1. Sequence(<<>>) /\ Len(<<>>) = 0 /\ 0 < BufferSize /\ 0 < BlockSize
    BY EmptyWithinBuffer, FramingAssumption
       DEF WithinBuffer, EmptyReader, FramingAssumption
<1>2. BufferSize \in Nat /\ BlockSize \in Nat
    BY FramingAssumption DEF FramingAssumption
<1>3. ASSUME NEW bytes
      PROVE  WithinBuffer(Returning(bytes).reader)
    BY EmptyWithinBuffer DEF Returning
<1>4. WithinBuffer(Reading(<<>>, <<>>).reader)
    BY <1>1, ReadingWithinBuffer
<1>5. Sequence(r.assembled) /\ Sequence(r.block)
    BY DEF WithinBuffer
<1>6. WithinBuffer(ReadClear(r, byte).reader)
    <2> DEFINE assembled == Append(r.assembled, byte)
    <2>1. Sequence(assembled)
        BY <1>5, AppendSequence
    <2>2. Len(assembled) \in Nat
        BY <2>1, SequenceFacts
    <2> HIDE DEF assembled
    <2>3. CASE byte = Terminator
        BY <1>3, <2>3 DEF ReadClear
    <2>4. CASE byte # Terminator /\ Full(Len(assembled), BufferSize - 1)
        BY <1>4, <2>4 DEF ReadClear, assembled
    <2>5. CASE byte # Terminator /\ ~Full(Len(assembled), BufferSize - 1)
        <3>1. ReadClear(r, byte) = Reading(assembled, <<>>)
            BY <2>5 DEF ReadClear, assembled
        <3>2. Len(assembled) + Len(<<>>) < BufferSize
            BY <1>1, <1>2, <2>2, <2>5 DEF Full
        <3> QED
            BY <1>1, <2>1, <3>1, <3>2, ReadingWithinBuffer
    <2> QED
        BY <2>3, <2>4, <2>5
<1>7. WithinBuffer(ReadEncrypted(r, byte).reader)
    <2> DEFINE block == Append(r.block, byte)
               assembled == r.assembled \o block
    <2>1. Sequence(block)
        BY <1>5, AppendSequence
    <2> HIDE DEF block
    <2>2. Sequence(assembled) /\ Len(assembled) = Len(r.assembled) + Len(block)
        BY <1>5, <2>1, JoinSequences
    <2>3. Len(assembled) \in Nat /\ Len(block) \in Nat
        BY <2>1, <2>2, SequenceFacts
    <2> HIDE DEF assembled
    <2>4. CASE Full(Len(assembled), BufferSize)
        <3>1. ReadEncrypted(r, byte) = Reading(<<>>, <<>>)
            BY <2>4 DEF ReadEncrypted, block, assembled
        <3> QED
            BY <1>4, <3>1
    <2>5. CASE ~Full(Len(assembled), BufferSize) /\ Len(block) < BlockSize
        <3>1. ReadEncrypted(r, byte) = Reading(r.assembled, block)
            BY <2>5 DEF ReadEncrypted, block, assembled
        <3>2. Len(r.assembled) + Len(block) < BufferSize
            BY <1>2, <2>2, <2>3, <2>5 DEF Full
        <3> QED
            BY <1>5, <2>1, <2>5, <3>1, <3>2, ReadingWithinBuffer
    <2>6. CASE ~Full(Len(assembled), BufferSize) /\ ~(Len(block) < BlockSize)
        <3>1. \/ ReadEncrypted(r, byte) = Returning(Part(assembled))
              \/ ReadEncrypted(r, byte) = Reading(assembled, <<>>)
            BY <2>6 DEF ReadEncrypted, block, assembled
        <3>2. Len(assembled) + Len(<<>>) < BufferSize
            BY <1>1, <1>2, <2>3, <2>6 DEF Full
        <3>3. WithinBuffer(Reading(assembled, <<>>).reader)
            BY <1>1, <2>2, <3>2, ReadingWithinBuffer
        <3> QED
            BY <1>3, <3>1, <3>3
    <2> QED
        BY <2>4, <2>5, <2>6
<1> QED
    BY <1>6, <1>7 DEF ReadByte

\* What sending overwrites has the length it had.
LEMMA OverwrittenWithinBuffer ==
    ASSUME NEW bytes, NEW cipher
    PROVE  WithinBuffer(Overwritten(EmptyReader, bytes, cipher))
<1>1. CASE ~cipher
    BY <1>1, EmptyWithinBuffer DEF Overwritten
<1>2. CASE cipher
    <2> DEFINE a == [i \in DOMAIN <<>> |-> IF i <= Len(bytes) THEN bytes[i] ELSE <<>>[i]]
    <2>1. Overwritten(EmptyReader, bytes, cipher) = [assembled |-> a, block |-> <<>>]
        BY <1>2 DEF Overwritten, EmptyReader
    <2>2. Sequence(<<>>) /\ Len(<<>>) < BufferSize
        BY EmptyWithinBuffer, FramingAssumption DEF WithinBuffer, EmptyReader, FramingAssumption
    <2>3. Sequence(a) /\ Len(a) = Len(<<>>)
        BY <2>2, SameLength
    <2> HIDE DEF a
    <2> QED
        BY <2>1, <2>2, <2>3, FramingAssumption DEF WithinBuffer, FramingAssumption
<1> QED
    BY <1>1, <1>2

-----------------------------------------------------------------------------
(* The steps of the query that leave the groups alone                      *)

Late == {"askDeviceInfo", "deviceInfo", "states", "state", "extendedState", "done", "failed"}

QueryInv == FlagInv /\ CounterInv /\ GroupInv /\ ForestInv

\* The query goes from one message to the next.
GoesFrom(place, places) ==
    /\ phase = place /\ phase' \in places \cup {"failed"}
    /\ UNCHANGED groupCache /\ UNCHANGED path /\ UNCHANGED deviceCaps /\ UNCHANGED attempt

\* From where to where that may be.
PlainMove ==
    \/ GoesFrom("first", {"query"}) \/ GoesFrom("query", {"caps"})
    \/ GoesFrom("caps", {"infos"}) \/ GoesFrom("infos", {"info"})
    \/ GoesFrom("info", {"askLabels", "extendedInfo"})
    \/ GoesFrom("askLabels", {"label", "extendedInfo"})
    \/ GoesFrom("label", {"label", "extendedInfo"})
    \/ GoesFrom("extendedInfo", {"info", "groups"})
    \/ GoesFrom("askGroup", {"group"}) \/ GoesFrom("group", {})
    \/ GoesFrom("askDeviceInfo", {"deviceInfo"}) \/ GoesFrom("deviceInfo", {"states"})
    \/ GoesFrom("states", {"state", "done"}) \/ GoesFrom("state", {"extendedState"})
    \/ GoesFrom("extendedState", {"state", "done"})

\* Such a step keeps the groups as they are.
LEMMA PlainKeepsGroups ==
    ASSUME GroupInv, ForestInv, PlainMove
    PROVE  GroupInv' /\ ForestInv'
<1>1. /\ UNCHANGED groupCache /\ UNCHANGED path /\ UNCHANGED deviceCaps /\ UNCHANGED attempt
      /\ phase # "failed" /\ phase' # "endless" /\ phase' # "assign"
      /\ phase \in Late => phase' \in Late
      /\ phase' \in {"askGroup", "group"} => phase = "askGroup"
    BY DEF PlainMove, GoesFrom, Late
<1>2. phase' \in {"askGroup", "group", "assign"} => PathInv'
    <2> SUFFICES ASSUME phase' \in {"askGroup", "group"}
                 PROVE  PathInv'
        BY <1>1
    <2>1. PathInv
        BY <1>1 DEF GroupInv
    <2> QED
        BY <1>1, <2>1 DEF PathInv
<1>3. GroupInv'
    BY <1>1, <1>2 DEF GroupInv
<1>4. ForestInv'
    BY <1>1 DEF ForestInv, Late, IsForest, LinkOf
<1> QED
    BY <1>3, <1>4

\* The first message.
LEMMA SendFirstMoves ==
    ASSUME FlagInv, CounterInv, SendFirst
    PROVE  PlainMove /\ FlagInv' /\ CounterInv'
<1>1. /\ GoesFrom("first", {"query"})
      /\ UNCHANGED ports /\ UNCHANGED counter
      /\ UNCHANGED config /\ UNCHANGED serving /\ UNCHANGED streamed /\ UNCHANGED fault
      /\ online' \in {online, FALSE}
    BY DEF SendFirst, GoesFrom, slaveVars, deviceVars, groupVars, channelVars
<1> QED
    BY <1>1 DEF PlainMove, GoesFrom, FlagInv, CounterInv, Phase

\* A request is sent, and its answer is expected.
LEMMA RequestMoves ==
    ASSUME FlagInv, CounterInv, SendRequest
    PROVE  PlainMove /\ FlagInv' /\ CounterInv'
<1>1. ASSUME NEW place, NEW ch, NEW parts, NEW next, Request(place, ch, parts, next)
      PROVE  /\ GoesFrom(place, {next})
             /\ UNCHANGED ports
             /\ UNCHANGED config /\ UNCHANGED serving /\ UNCHANGED streamed
             /\ UNCHANGED fault /\ UNCHANGED online
    BY <1>1 DEF Request, GoesFrom, slaveVars, deviceVars, groupVars
<1>2. ASSUME NEW place, NEW parts, NEW next, RequestAnew(place, parts, next)
      PROVE  /\ GoesFrom(place, {next}) /\ counter' = 0
             /\ UNCHANGED ports
             /\ UNCHANGED config /\ UNCHANGED serving /\ UNCHANGED streamed
             /\ UNCHANGED fault /\ UNCHANGED online
    BY <1>1, <1>2 DEF RequestAnew
<1>3. /\ \/ GoesFrom("query", {"caps"}) /\ counter' = 0
         \/ GoesFrom("infos", {"info"}) /\ counter' = 0
         \/ GoesFrom("askLabels", {"label", "extendedInfo"}) /\ UNCHANGED counter
         \/ GoesFrom("askGroup", {"group"}) /\ UNCHANGED counter
         \/ GoesFrom("askDeviceInfo", {"deviceInfo"}) /\ counter' = 0
         \/ /\ GoesFrom("states", {"state", "done"}) /\ counter' = 0
            /\ phase' = "state" => ports # <<>>
      /\ UNCHANGED ports
      /\ UNCHANGED config /\ UNCHANGED serving /\ UNCHANGED streamed
      /\ UNCHANGED fault /\ UNCHANGED online
    <2>1. CASE RequestAnew("query", << <<"gDC">> >>, "caps")
        BY <2>1, <1>2
    <2>2. CASE Request("infos", channel, << <<"gAPI">> >>, "info") /\ counter' = 0
        BY <2>2, <1>1
    <2>3. CASE /\ Request("askLabels", NextChannel, << <<"gASL">>, NewestPort.id >>,
                          IF NewestPort.posCount = 0 THEN "extendedInfo" ELSE "label")
               /\ UNCHANGED counter
        <3>1. GoesFrom("askLabels", {IF NewestPort.posCount = 0 THEN "extendedInfo" ELSE "label"})
            BY <2>3, <1>1
        <3>2. GoesFrom("askLabels", {"label", "extendedInfo"})
            BY <3>1 DEF GoesFrom
        <3> QED
            BY <2>3, <3>2, <1>1
    <2>4. CASE Request("askGroup", channel, << <<"gGI">>, Last(path) >>, "group")
               /\ UNCHANGED counter
        BY <2>4, <1>1
    <2>5. CASE RequestAnew("askDeviceInfo", << <<"gEDI">> >>, "deviceInfo")
        BY <2>5, <1>2
    <2>6. CASE RequestAnew("states", << <<"gAPS">> >>, IF ports = <<>> THEN "done" ELSE "state")
        <3>1. GoesFrom("states", {IF ports = <<>> THEN "done" ELSE "state"})
            BY <2>6, <1>2
        <3>2. GoesFrom("states", {"state", "done"}) /\ (phase' = "state" => ports # <<>>)
            BY <3>1 DEF GoesFrom
        <3> QED
            BY <2>6, <3>2, <1>2
    <2> QED
        BY <2>1, <2>2, <2>3, <2>4, <2>5, <2>6 DEF SendRequest
<1>4. PlainMove
    BY <1>3 DEF PlainMove
<1>5. phase' \in Phase /\ UNCHANGED attempt /\ UNCHANGED deviceCaps
    BY <1>3 DEF GoesFrom, Phase
<1>6. FlagInv'
    BY <1>3, <1>5 DEF FlagInv
<1>7. CounterInv'
    <2>1. Len(ports) \in Nat /\ (ports # <<>> => Len(ports) > 0)
        BY SequenceFacts DEF CounterInv
    <2> QED
        BY <1>3, <2>1 DEF CounterInv, GoesFrom
<1> QED
    BY <1>4, <1>6, <1>7

\* A part of a port is replaced: there are as many ports as before.
LEMMA SamePorts ==
    ASSUME CounterInv, DOMAIN ports' = DOMAIN ports, ports' = [i \in DOMAIN ports' |-> ports'[i]]
    PROVE  Sequence(ports') /\ Len(ports') = Len(ports)
    BY SameLength DEF CounterInv

\* What an answer that is no group's may do.
Taken ==
    \/ GoesFrom("caps", {"infos"}) /\ ports' \in {<<>>, ports} /\ UNCHANGED counter
    \/ /\ GoesFrom("info", {"askLabels", "extendedInfo"}) /\ UNCHANGED counter
       /\ ports' = ports \/ \E port : ports' = Append(ports, port)
    \/ /\ \/ GoesFrom("label", {"label", "extendedInfo"})
          \/ GoesFrom("extendedInfo", {"info", "groups"})
          \/ GoesFrom("deviceInfo", {"states"})
          \/ GoesFrom("state", {"extendedState"})
          \/ GoesFrom("group", {})
       /\ DOMAIN ports' = DOMAIN ports /\ ports' = [i \in DOMAIN ports' |-> ports'[i]]
       /\ UNCHANGED counter
    \/ /\ GoesFrom("extendedState", {"state", "done"})
       /\ DOMAIN ports' = DOMAIN ports /\ ports' = [i \in DOMAIN ports' |-> ports'[i]]
       /\ counter' = counter + 1
       /\ phase' = IF counter' = Len(ports) THEN "done" ELSE "state"

\* It keeps the count of the ports.
LEMMA TakenKeepsCount ==
    ASSUME CounterInv, Taken
    PROVE  CounterInv'
<1>1. Sequence(ports) /\ Len(ports) \in Nat /\ counter \in 0 .. Len(ports)
    BY SequenceFacts DEF CounterInv
<1>2. CASE GoesFrom("caps", {"infos"}) /\ ports' \in {<<>>, ports} /\ UNCHANGED counter
    <2>1. Sequence(<<>>) /\ Len(<<>>) = 0
        BY EmptyWithinBuffer DEF WithinBuffer, EmptyReader
    <2>2. Sequence(ports') /\ counter' = 0 /\ Len(ports') \in Nat
        BY <1>1, <1>2, <2>1 DEF CounterInv, GoesFrom
    <2>3. phase' \in {"infos", "failed"}
        BY <1>2 DEF GoesFrom
    <2> QED
        BY <2>2, <2>3 DEF CounterInv
<1>3. CASE /\ GoesFrom("info", {"askLabels", "extendedInfo"}) /\ UNCHANGED counter
           /\ ports' = ports \/ \E port : ports' = Append(ports, port)
    <2>1. Sequence(ports') /\ Len(ports') \in {Len(ports), Len(ports) + 1}
        BY <1>1, <1>3, AppendSequence
    <2>2. phase' \in {"askLabels", "extendedInfo", "failed"}
        BY <1>3 DEF GoesFrom
    <2> QED
        BY <1>1, <1>3, <2>1, <2>2 DEF CounterInv
<1>4. ASSUME DOMAIN ports' = DOMAIN ports, ports' = [i \in DOMAIN ports' |-> ports'[i]]
      PROVE  Sequence(ports') /\ Len(ports') = Len(ports)
    BY <1>4, SamePorts
<1>5. CASE /\ \/ GoesFrom("label", {"label", "extendedInfo"})
              \/ GoesFrom("extendedInfo", {"info", "groups"})
              \/ GoesFrom("deviceInfo", {"states"})
              \/ GoesFrom("state", {"extendedState"})
              \/ GoesFrom("group", {})
           /\ DOMAIN ports' = DOMAIN ports /\ ports' = [i \in DOMAIN ports' |-> ports'[i]]
           /\ UNCHANGED counter
    <2>1. phase' # "caps" /\ (phase' \in {"state", "extendedState"} => phase = "state")
        BY <1>5 DEF GoesFrom
    <2> QED
        BY <1>1, <1>4, <1>5, <2>1 DEF CounterInv
<1>6. CASE /\ GoesFrom("extendedState", {"state", "done"})
           /\ DOMAIN ports' = DOMAIN ports /\ ports' = [i \in DOMAIN ports' |-> ports'[i]]
           /\ counter' = counter + 1
           /\ phase' = IF counter' = Len(ports) THEN "done" ELSE "state"
    <2>1. counter < Len(ports)
        BY <1>6 DEF CounterInv, GoesFrom
    <2> QED
        BY <1>1, <1>4, <1>6, <2>1 DEF CounterInv
<1> QED
    BY <1>2, <1>3, <1>5, <1>6 DEF Taken

\* ... and is a plain move.
LEMMA TakenMoves ==
    ASSUME Taken
    PROVE  PlainMove /\ phase' \in Phase /\ UNCHANGED attempt /\ UNCHANGED deviceCaps
    BY DEF Taken, PlainMove, GoesFrom, Phase

\* The answers to the queries for capabilities, information and states.
LEMMA TakeIsTaken ==
    ASSUME FlagInv, CounterInv, NEW parts, UNCHANGED attempt,
           \/ TakeCaps(parts) \/ TakeInfo(parts) \/ TakeLabel(parts) \/ TakeExtendedInfo(parts)
           \/ TakeDeviceInfo(parts) \/ TakeState(parts) \/ TakeExtendedState(parts)
    PROVE  Taken
<1>0. ports = [i \in DOMAIN ports |-> ports[i]]
    BY DEF CounterInv, Sequence
<1>1. CASE TakeCaps(parts)
    BY <1>1 DEF TakeCaps, Fail, Goto, Keep, Taken, GoesFrom, groupVars
<1>2. CASE TakeInfo(parts)
    <2>1. /\ GoesFrom("info", {"askLabels", "extendedInfo"}) /\ UNCHANGED counter
          /\ ports' = ports \/ \E port : ports' = Append(ports, port)
        <3>1. CASE IsA(parts, "DP", 3)
            BY <1>2, <3>1 DEF TakeInfo, GoesFrom, groupVars
        <3>2. CASE ~IsA(parts, "DP", 3) /\ IsA(parts, "SLP", 4)
            BY <1>2, <3>2 DEF TakeInfo, GoesFrom, groupVars
        <3>3. CASE ~IsA(parts, "DP", 3) /\ ~IsA(parts, "SLP", 4)
            BY <1>2, <3>3 DEF TakeInfo, GoesFrom, groupVars, Fail, Goto, Keep
        <3> QED
            BY <3>1, <3>2, <3>3
    <2> QED
        BY <2>1 DEF Taken
<1>3. CASE TakeLabel(parts)
    BY <1>0, <1>3 DEF TakeLabel, Fail, Goto, Keep, Taken, GoesFrom, groupVars
<1>4. CASE TakeExtendedInfo(parts)
    BY <1>0, <1>4 DEF TakeExtendedInfo, Fail, Goto, Keep, Taken, GoesFrom, groupVars
<1>5. CASE TakeDeviceInfo(parts)
    BY <1>0, <1>5 DEF TakeDeviceInfo, Fail, Goto, Keep, Taken, GoesFrom, groupVars
<1>6. CASE TakeState(parts)
    <2>1. GoesFrom("state", {"extendedState"}) /\ UNCHANGED counter
        BY <1>6 DEF TakeState, GoesFrom, groupVars
    <2>2. \/ UNCHANGED ports
          \/ \E value : ports' = [ports EXCEPT ![counter + 1].state = value,
                                               ![counter + 1].error = FALSE]
          \/ ports' = [ports EXCEPT ![counter + 1].error = TRUE]
        BY <1>6 DEF TakeState
    <2>3. DOMAIN ports' = DOMAIN ports /\ ports' = [i \in DOMAIN ports' |-> ports'[i]]
        BY <1>0, <2>2
    <2> QED
        BY <2>1, <2>3 DEF Taken
<1>7. CASE TakeExtendedState(parts)
    BY <1>0, <1>7 DEF TakeExtendedState, NextState, Taken, GoesFrom, groupVars
<1> QED
    BY <1>1, <1>2, <1>3, <1>4, <1>5, <1>6, <1>7

\* No answer comes, or the connection has ended.
LEMMA ExpectFailsMoves ==
    ASSUME FlagInv, CounterInv, ExpectFails
    PROVE  Taken /\ FlagInv'
<1>0. ports = [i \in DOMAIN ports |-> ports[i]]
    BY DEF CounterInv, Sequence
<1>1. /\ UNCHANGED attempt /\ online' = FALSE
      /\ UNCHANGED config /\ UNCHANGED serving /\ UNCHANGED streamed /\ UNCHANGED fault
    BY DEF ExpectFails, slaveVars
<1>2. Taken
    <2>1. CASE phase = "extendedState"
        BY <1>0, <1>1, <2>1 DEF ExpectFails, NextState, Taken, GoesFrom, groupVars
    <2>2. CASE phase = "deviceInfo"
        BY <1>0, <1>1, <2>2 DEF ExpectFails, Taken, GoesFrom, groupVars
    <2>3. CASE phase \in {"caps", "info", "label", "extendedInfo", "group", "state"}
        <3>1. /\ phase' = "failed" /\ UNCHANGED ports /\ UNCHANGED counter
              /\ UNCHANGED groupCache /\ UNCHANGED path /\ UNCHANGED deviceCaps
            BY <2>3 DEF ExpectFails, Fail, Goto, Keep, groupVars
        <3> QED
            BY <1>0, <1>1, <2>3, <3>1 DEF Taken, GoesFrom
    <2> QED
        BY <2>1, <2>2, <2>3 DEF ExpectFails, Expecting
<1>3. FlagInv'
    BY <1>1, <1>2, TakenMoves DEF FlagInv
<1> QED
    BY <1>2, <1>3

\* The user's next attempt starts where the capabilities are known or not.
LEMMA QueryAgainKept ==
    ASSUME QueryInv, QueryAgain
    PROVE  QueryInv'
<1>1. /\ phase = "failed" /\ attempt < MaxAttempts /\ attempt' = attempt + 1
      /\ phase' = IF deviceCaps THEN "states" ELSE "query"
      /\ UNCHANGED ports /\ UNCHANGED counter
      /\ UNCHANGED groupCache /\ UNCHANGED deviceCaps
      /\ UNCHANGED config /\ UNCHANGED serving /\ UNCHANGED streamed
      /\ UNCHANGED fault /\ UNCHANGED online
    BY DEF QueryAgain, Keep, groupVars, slaveVars
<1>2. attempt \in Nat \ {0} /\ MaxAttempts \in Nat /\ attempt <= MaxAttempts
    BY BulkAssumption DEF QueryInv, FlagInv, BulkAssumption
<1>3. FlagInv'
    BY <1>1, <1>2 DEF QueryInv, FlagInv, Phase
<1>4. CounterInv'
    BY <1>1 DEF QueryInv, CounterInv
<1>5. GroupInv'
    BY <1>1 DEF QueryInv, GroupInv
<1>6. ForestInv'
    BY <1>1, <1>2 DEF QueryInv, ForestInv
<1> QED
    BY <1>3, <1>4, <1>5, <1>6 DEF QueryInv

-----------------------------------------------------------------------------
(* The groups                                                              *)

\* The groups of the ports are looked up in the cache.
LEMMA GoThroughGroupsKept ==
    ASSUME QueryInv, GoThroughGroups
    PROVE  QueryInv'
<1>1. /\ phase = "groups"
      /\ UNCHANGED attempt /\ UNCHANGED groupCache
      /\ UNCHANGED config /\ UNCHANGED serving /\ UNCHANGED streamed
      /\ UNCHANGED fault /\ UNCHANGED online
    BY DEF GoThroughGroups, slaveVars, deviceVars
<1>2. /\ Sequence(ports) /\ Len(ports) \in Nat /\ counter \in 0 .. Len(ports)
      /\ ports = [i \in DOMAIN ports |-> ports[i]]
    BY SequenceFacts DEF QueryInv, CounterInv, Sequence
<1>3. CASE counter = Len(ports)
    <2>1. phase' = "askDeviceInfo" /\ deviceCaps' = TRUE /\ UNCHANGED ports /\ UNCHANGED counter
        BY <1>3 DEF GoThroughGroups
    <2>2. FlagInv' /\ CounterInv'
        BY <1>1, <2>1 DEF QueryInv, FlagInv, CounterInv, Phase
    <2>3. GroupInv'
        BY <1>1, <2>1 DEF QueryInv, GroupInv
    <2>4. ForestInv'
        BY <1>1, <2>1 DEF QueryInv, ForestInv, IsForest, LinkOf
    <2> QED
        BY <2>2, <2>3, <2>4 DEF QueryInv
<1>4. CASE counter # Len(ports)
    <2> DEFINE group == GroupOf(ports[counter + 1].info)
    <2>1. CASE group = <<>> \/ group \in DOMAIN groupCache
        <3>1. /\ ports' = [ports EXCEPT ![counter + 1].group = group]
              /\ counter' = counter + 1 /\ UNCHANGED phase /\ UNCHANGED deviceCaps
            BY <1>4, <2>1 DEF GoThroughGroups
        <3>2. DOMAIN ports' = DOMAIN ports /\ ports' = [i \in DOMAIN ports' |-> ports'[i]]
            BY <1>2, <3>1
        <3>3. Sequence(ports') /\ Len(ports') = Len(ports)
            BY <3>2, SamePorts DEF QueryInv
        <3>4. counter' \in 0 .. Len(ports')
            BY <1>2, <1>4, <3>1, <3>3
        <3>5. FlagInv' /\ CounterInv'
            BY <1>1, <3>1, <3>3, <3>4 DEF QueryInv, FlagInv, CounterInv
        <3>6. GroupInv'
            BY <1>1, <3>1 DEF QueryInv, GroupInv
        <3>7. ForestInv'
            BY <1>1, <3>1 DEF QueryInv, ForestInv, IsForest, LinkOf
        <3> QED
            BY <3>5, <3>6, <3>7 DEF QueryInv
    <2>2. CASE group # <<>> /\ group \notin DOMAIN groupCache
        <3>1. /\ phase' = "askGroup" /\ path' = <<group>> /\ UNCHANGED deviceCaps
              /\ UNCHANGED ports /\ UNCHANGED counter
            BY <1>4, <2>2 DEF GoThroughGroups
        <3>2. PathInv'
            <4> HIDE DEF group
            <4>1. <<group>> \in Seq({group}) /\ Len(<<group>>) = 1 /\ <<group>>[1] = group
                OBVIOUS
            <4>2. Sequence(path') /\ Len(path') = 1 /\ path'[1] = group
                BY <3>1, <4>1, IsSequence
            <4>3. DOMAIN path' = {1}
                BY <4>2, SequenceFacts
            <4>4. path' # <<>> /\ Last(path') = group
                BY <4>2 DEF Last
            <4>5. 1 .. Len(path') - 1 = {}
                BY <4>2
            <4> QED
                BY <1>1, <2>2, <3>1, <4>2, <4>3, <4>4, <4>5 DEF PathInv
        <3>3. FlagInv' /\ CounterInv'
            BY <1>1, <3>1 DEF QueryInv, FlagInv, CounterInv, Phase
        <3>4. GroupInv'
            BY <1>1, <3>2 DEF QueryInv, GroupInv
        <3>5. ForestInv'
            BY <1>1, <3>1 DEF QueryInv, ForestInv, IsForest, LinkOf
        <3> QED
            BY <3>3, <3>4, <3>5 DEF QueryInv
    <2> QED
        BY <2>1, <2>2
<1> QED
    BY <1>3, <1>4

\* The last group is taken off the stack: the one before it has its parent in the cache.
LEMMA ReturnKeepsPath ==
    ASSUME PathInv, NEW next, Return(next), next = "assign",
           DOMAIN groupCache \subseteq DOMAIN groupCache', Last(path) \in DOMAIN groupCache',
           \A g \in DOMAIN groupCache : groupCache'[g].parent = groupCache[g].parent
    PROVE  phase' \in {"groups", "assign"} /\ (phase' = "assign" => PathInv')
<1>1. /\ Sequence(path) /\ path # <<>> /\ Len(path) \in Nat /\ Len(path) > 0
      /\ DOMAIN path = 1 .. Len(path)
    BY SequenceFacts DEF PathInv
<1>2. /\ path' = Front(path) /\ Sequence(path') /\ Len(path') = Len(path) - 1
      /\ DOMAIN path' = 1 .. Len(path) - 1
      /\ \A i \in 1 .. Len(path) - 1 : path'[i] = path[i]
    BY <1>1, FrontSequence, SequenceFacts DEF Return
<1>3. phase' = IF Len(path) = 1 THEN "groups" ELSE "assign"
    BY DEF Return
<1>4. ASSUME phase' = "assign"
      PROVE  PathInv'
    <2>1. Len(path) > 1
        BY <1>1, <1>3, <1>4
    <2>2. path' # <<>>
        BY <1>1, <1>2, <2>1
    <2>3. \A i \in DOMAIN path' : path'[i] # <<>>
        BY <1>1, <1>2 DEF PathInv
    <2>4. ASSUME NEW i \in 1 .. Len(path') - 1
          PROVE  path'[i] \in DOMAIN groupCache' /\ groupCache'[path'[i]].parent = path'[i + 1]
        <3>1. i \in 1 .. Len(path) - 1 /\ i + 1 \in 1 .. Len(path) - 1
            BY <1>1, <1>2, <2>4
        <3>2. path[i] \in DOMAIN groupCache /\ groupCache[path[i]].parent = path[i + 1]
            BY <3>1 DEF PathInv
        <3> QED
            BY <1>2, <3>1, <3>2
    <2>5. Last(path') \in DOMAIN groupCache' /\ groupCache'[Last(path')].parent \in DOMAIN groupCache'
        <3>1. Len(path) - 1 \in 1 .. Len(path) - 1 /\ (Len(path) - 1) + 1 = Len(path)
            BY <1>1, <2>1
        <3>2. /\ path[Len(path) - 1] \in DOMAIN groupCache
              /\ groupCache[path[Len(path) - 1]].parent = Last(path)
            BY <3>1 DEF PathInv, Last
        <3>3. Last(path') = path[Len(path) - 1]
            BY <1>2, <3>1 DEF Last
        <3> QED
            BY <3>2, <3>3
    <2> QED
        BY <1>2, <1>4, <2>2, <2>3, <2>4, <2>5 DEF PathInv
<1> QED
    BY <1>3, <1>4

\* A group without a link makes no cycle.
LEMMA ExtendedForest ==
    ASSUME GroupInv, NEW group, group \notin DOMAIN groupCache, group # <<>>,
           DOMAIN groupCache' = DOMAIN groupCache \cup {group},
           groupCache'[group].link = <<>>,
           \A g \in DOMAIN groupCache : groupCache'[g] = groupCache[g],
           IsForest(DOMAIN groupCache, LinkOf)
    PROVE  IsForest(DOMAIN groupCache, LinkOf)'
<1> SUFFICES ASSUME NEW S \in SUBSET DOMAIN groupCache', S # {}
             PROVE  \E g \in S : groupCache'[g].link \notin S
    BY DEF IsForest, LinkOf
<1>1. <<>> \notin S
    BY DEF GroupInv
<1>2. CASE group \in S
    BY <1>1, <1>2
<1>3. CASE group \notin S
    <2>1. S \in SUBSET DOMAIN groupCache
        BY <1>3
    <2>2. PICK g \in S : groupCache[g].link \notin S
        BY <2>1 DEF IsForest, LinkOf
    <2> QED
        BY <2>1, <2>2
<1> QED
    BY <1>2, <1>3

\* The information about a group is put into the cache, and the recursion goes on to its
\* parent or returns.
LEMMA TakeGroupKept ==
    ASSUME QueryInv, NEW parts, TakeGroup(parts), UNCHANGED attempt
    PROVE  /\ CounterInv' /\ GroupInv' /\ ForestInv'
           /\ phase' \in Phase /\ UNCHANGED deviceCaps
<1>0. phase = "group" /\ PathInv /\ GroupInv /\ ForestInv /\ CounterInv
    BY DEF TakeGroup, QueryInv, GroupInv
<1>1. CASE ~(IsA(parts, "GI", 5) /\ IsFor(parts, Last(path)))
    <2>1. phase' = "failed" /\ Keep
        BY <1>1 DEF TakeGroup, Fail, Goto
    <2>2. /\ UNCHANGED ports /\ UNCHANGED counter /\ UNCHANGED groupCache /\ UNCHANGED path
          /\ UNCHANGED deviceCaps
        BY <2>1 DEF Keep, groupVars
    <2>3. GoesFrom("group", {})
        BY <1>0, <2>1, <2>2 DEF GoesFrom
    <2>4. GroupInv' /\ ForestInv'
        BY <1>0, <2>3, PlainKeepsGroups DEF PlainMove
    <2>5. CounterInv'
        BY <1>0, <2>1, <2>2 DEF CounterInv
    <2> QED
        BY <2>1, <2>2, <2>4, <2>5 DEF Phase
<1>2. CASE IsA(parts, "GI", 5) /\ IsFor(parts, Last(path))
    <2> DEFINE group == Last(path)
               parent == parts[4]
    <2>0. /\ groupCache' = [g \in DOMAIN groupCache \cup {group} |->
                               IF g = group THEN [parent |-> parent, link |-> <<>>]
                               ELSE groupCache[g]]
          /\ CASE parent = <<>> -> Return("assign")
               [] parent \in DOMAIN groupCache' -> phase' = "assign" /\ UNCHANGED path
               [] OTHER -> phase' = "askGroup" /\ path' = Append(path, parent)
          /\ UNCHANGED ports /\ UNCHANGED counter /\ UNCHANGED deviceCaps
        BY <1>2 DEF TakeGroup
    <2> HIDE DEF parent
    <2>2. /\ Sequence(path) /\ path # <<>> /\ Len(path) \in Nat /\ Len(path) > 0
          /\ DOMAIN path = 1 .. Len(path) /\ Len(path) \in DOMAIN path
        BY <1>0, SequenceFacts DEF PathInv
    <2>3. group \notin DOMAIN groupCache /\ group # <<>> /\ group = path[Len(path)]
        BY <1>0, <2>2 DEF PathInv, Last
    <2>4. /\ DOMAIN groupCache' = DOMAIN groupCache \cup {group}
          /\ groupCache'[group] = [parent |-> parent, link |-> <<>>]
          /\ \A g \in DOMAIN groupCache : groupCache'[g] = groupCache[g]
          /\ groupCache' = [g \in DOMAIN groupCache' |->
                [parent |-> groupCache'[g].parent, link |-> groupCache'[g].link]]
        <3> HIDE DEF group
        <3>1. \A g \in DOMAIN groupCache :
                  groupCache[g] = [parent |-> groupCache[g].parent, link |-> groupCache[g].link]
            BY <1>0 DEF GroupInv
        <3>2. /\ DOMAIN groupCache' = DOMAIN groupCache \cup {group}
              /\ groupCache'[group] = [parent |-> parent, link |-> <<>>]
              /\ \A g \in DOMAIN groupCache : groupCache'[g] = groupCache[g]
            BY <2>0, <2>3
        <3>3. groupCache' = [g \in DOMAIN groupCache' |-> groupCache'[g]]
            BY <2>0
        <3>4. \A g \in DOMAIN groupCache' :
                  groupCache'[g] = [parent |-> groupCache'[g].parent, link |-> groupCache'[g].link]
            BY <3>1, <3>2
        <3> QED
            BY <3>2, <3>3, <3>4
    <2>1. /\ \/ parent = <<>> /\ Return("assign")
             \/ parent # <<>> /\ parent \in DOMAIN groupCache' /\ phase' = "assign" /\ UNCHANGED path
             \/ /\ parent # <<>> /\ parent \notin DOMAIN groupCache'
                /\ phase' = "askGroup" /\ path' = Append(path, parent)
          /\ UNCHANGED ports /\ UNCHANGED counter /\ UNCHANGED deviceCaps
        <3>1. <<>> \notin DOMAIN groupCache'
            BY <1>0, <2>3, <2>4 DEF GroupInv
        <3>2. CASE parent = <<>>
            <4>1. parent \notin DOMAIN groupCache'
                BY <3>1, <3>2
            <4>2. Return("assign")
                BY <2>0, <3>2, <4>1 DEF Return
            <4> QED
                BY <2>0, <3>2, <4>2
        <3>3. CASE parent # <<>> /\ parent \in DOMAIN groupCache'
            BY <2>0, <3>3
        <3>4. CASE parent # <<>> /\ parent \notin DOMAIN groupCache'
            BY <2>0, <3>4
        <3> QED
            BY <3>2, <3>3, <3>4
    <2>5. \A i \in 1 .. Len(path) - 1 :
              path[i] \in DOMAIN groupCache' /\ groupCache'[path[i]].parent = path[i + 1]
        BY <1>0, <2>4 DEF PathInv
    <2>6. phase' \in {"askGroup", "assign", "groups"} /\ (phase' # "groups" => PathInv')
        <3>1. CASE parent = <<>> /\ Return("assign")
            <4>1. /\ DOMAIN groupCache \subseteq DOMAIN groupCache' /\ group \in DOMAIN groupCache'
                  /\ \A g \in DOMAIN groupCache : groupCache'[g].parent = groupCache[g].parent
                BY <2>4
            <4> QED
                BY <1>0, <3>1, <4>1, ReturnKeepsPath
        <3>2. CASE parent # <<>> /\ parent \in DOMAIN groupCache' /\ phase' = "assign" /\ UNCHANGED path
            <4>1. PathInv'
                BY <1>0, <2>2, <2>4, <2>5, <3>2 DEF PathInv
            <4> QED
                BY <3>2, <4>1
        <3>3. CASE /\ parent # <<>> /\ parent \notin DOMAIN groupCache'
                   /\ phase' = "askGroup" /\ path' = Append(path, parent)
            <4>1. /\ Sequence(path') /\ Len(path') = Len(path) + 1
                  /\ path' # <<>> /\ Last(path') = parent
                  /\ \A i \in DOMAIN path : path'[i] = path[i]
                BY <2>2, <3>3, AppendSequence
            <4>2. DOMAIN path' = 1 .. Len(path) + 1 /\ path'[Len(path) + 1] = parent
                BY <4>1, SequenceFacts DEF Last
            <4>3. \A i \in DOMAIN path' : path'[i] # <<>>
                BY <1>0, <2>2, <3>3, <4>1, <4>2 DEF PathInv
            <4>4. ASSUME NEW i \in 1 .. Len(path') - 1
                  PROVE  path'[i] \in DOMAIN groupCache' /\ groupCache'[path'[i]].parent = path'[i + 1]
                <5>0. Len(path') - 1 = Len(path) /\ i \in 1 .. Len(path)
                    BY <2>2, <4>1, <4>4
                <5>1. CASE i = Len(path)
                    <6>1. path'[i] = group /\ path'[i + 1] = parent
                        BY <2>2, <2>3, <4>1, <4>2, <5>1
                    <6> HIDE DEF group
                    <6> QED
                        BY <2>4, <6>1
                <5>2. CASE i # Len(path)
                    <6> DEFINE n == Len(path)
                    <6>0. n \in Nat /\ i \in 1 .. n /\ i # n /\ DOMAIN path = 1 .. n
                        BY <2>2, <5>0, <5>2
                    <6> HIDE DEF n
                    <6>1. i \in 1 .. n - 1 /\ i \in DOMAIN path /\ i + 1 \in DOMAIN path
                        BY <6>0
                    <6> QED
                        BY <2>5, <4>1, <6>1 DEF n
                <5> QED
                    BY <5>1, <5>2
            <4>5. PathInv'
                BY <3>3, <4>1, <4>3, <4>4 DEF PathInv
            <4> QED
                BY <3>3, <4>5
        <3> QED
            BY <2>1, <3>1, <3>2, <3>3
    <2>7. GroupInv'
        <3>1. IsFiniteSet(DOMAIN groupCache')
            BY <1>0, <2>4, FS_AddElement DEF GroupInv
        <3>2. \A g \in DOMAIN groupCache' : groupCache'[g].link \in {<<>>} \cup DOMAIN groupCache'
            BY <1>0, <2>4 DEF GroupInv
        <3>3. <<>> \notin DOMAIN groupCache'
            BY <1>0, <2>3, <2>4 DEF GroupInv
        <3> QED
            BY <2>4, <2>6, <3>1, <3>2, <3>3 DEF GroupInv
    <2>8. ForestInv'
        <3>1. ~deviceCaps /\ ~deviceCaps'
            BY <1>0, <2>1 DEF ForestInv
        <3>2. ASSUME attempt = 1
              PROVE  IsForest(DOMAIN groupCache, LinkOf)'
            <4>1. IsForest(DOMAIN groupCache, LinkOf)
                BY <1>0, <3>2 DEF ForestInv
            <4>2. groupCache'[group].link = <<>>
                BY <2>4
            <4> QED
                BY <1>0, <2>3, <2>4, <4>1, <4>2, ExtendedForest
        <3> QED
            BY <2>6, <3>1, <3>2 DEF ForestInv
    <2>9. CounterInv'
        BY <1>0, <2>1, <2>6 DEF CounterInv
    <2> QED
        BY <2>1, <2>6, <2>7, <2>8, <2>9 DEF Phase
<1> QED
    BY <1>1, <1>2

-----------------------------------------------------------------------------
(* The walk to the root of the hierarchy                                   *)

\* The group above a group in a cache.
NextUp(cache, group) == IF group = <<>> THEN <<>> ELSE cache[group].link

\* up goes up from a group, that many times.
GoesUp(up, cache, group, times) ==
    up = [n \in 0 .. times |-> IF n = 0 THEN group ELSE NextUp(cache, up[n - 1])]

\* There is such a walk, however long.
LEMMA WalkExists ==
    ASSUME NEW cache, NEW group, NEW N \in Nat
    PROVE  \E up : GoesUp(up, cache, group, N)
<1> DEFINE S == {n \in Nat : \E up : GoesUp(up, cache, group, n)}
<1>1. 0 \in S
    <2>1. GoesUp([n \in 0 .. 0 |-> group], cache, group, 0)
        BY DEF GoesUp
    <2> QED
        BY <2>1
<1>2. ASSUME NEW n \in Nat, n \in S
      PROVE  n + 1 \in S
    <2>1. PICK up : GoesUp(up, cache, group, n)
        BY <1>2
    <2> DEFINE longer == [k \in 0 .. n + 1 |-> IF k = n + 1 THEN NextUp(cache, up[n]) ELSE up[k]]
    <2>2. \A k \in 0 .. n : up[k] = IF k = 0 THEN group ELSE NextUp(cache, up[k - 1])
        BY <2>1 DEF GoesUp
    <2>3. \A k \in 0 .. n : longer[k] = up[k]
        OBVIOUS
    <2>4. ASSUME NEW k \in 0 .. n + 1
          PROVE  longer[k] = IF k = 0 THEN group ELSE NextUp(cache, longer[k - 1])
        <3>1. CASE k = n + 1
            BY <3>1
        <3>2. CASE k \in 1 .. n
            <4>1. k - 1 \in 0 .. n /\ k \in 0 .. n /\ k # 0
                BY <3>2
            <4> QED
                BY <2>2, <2>3, <4>1
        <3>3. CASE k = 0
            BY <2>2, <2>3, <3>3
        <3> QED
            BY <3>1, <3>2, <3>3
    <2>5. longer = [k \in 0 .. n + 1 |-> longer[k]]
        OBVIOUS
    <2>6. GoesUp(longer, cache, group, n + 1)
        <3> HIDE DEF longer
        <3> QED
            BY <2>4, <2>5 DEF GoesUp
    <2> QED
        BY <2>6
<1>3. N \in 0 .. N
    OBVIOUS
<1> HIDE DEF S
<1>4. 0 .. N \subseteq S
    BY <1>1, <1>2, Induction
<1> QED
    BY <1>3, <1>4 DEF S

\* What the walk of setParentGroup meets.
LEMMA WalkMeets ==
    ASSUME NEW cache, IsFiniteSet(DOMAIN cache), NEW group
    PROVE  LET up == Above(cache, group)
               N == Cardinality(DOMAIN cache)
           IN /\ N \in Nat /\ DOMAIN up = 0 .. N /\ up[0] = group
              /\ \A n \in 1 .. N : up[n] = NextUp(cache, up[n - 1])
<1> DEFINE up == Above(cache, group)
           N == Cardinality(DOMAIN cache)
<1>1. N \in Nat
    BY FS_CardinalityType
<1> HIDE DEF N
<1>2. GoesUp(up, cache, group, N)
    <2>1. \E f : GoesUp(f, cache, group, N)
        BY <1>1, WalkExists
    <2>2. up = CHOOSE f : GoesUp(f, cache, group, N)
        BY DEF Above, GoesUp, NextUp, N
    <2> QED
        BY <2>1, <2>2
<1>3. DOMAIN up = 0 .. N
    BY <1>2 DEF GoesUp
<1>4. \A n \in 0 .. N : up[n] = IF n = 0 THEN group ELSE NextUp(cache, up[n - 1])
    BY <1>2 DEF GoesUp
<1> HIDE DEF up
<1>5. up[0] = group /\ \A n \in 1 .. N : up[n] = NextUp(cache, up[n - 1])
    BY <1>1, <1>4
<1> QED
    BY <1>1, <1>3, <1>5 DEF up, N

\* The walk does not leave a set of groups whose parents are all in the set.
LEMMA WalkStays ==
    ASSUME NEW cache, IsFiniteSet(DOMAIN cache), NEW group, NEW S, group \in S, <<>> \notin S,
           \A g \in S : cache[g].link \in S
    PROVE  \A n \in DOMAIN Above(cache, group) : Above(cache, group)[n] \in S
<1> DEFINE up == Above(cache, group)
           N == Cardinality(DOMAIN cache)
           inside == {n \in Nat : n <= N => up[n] \in S}
<1>1. /\ N \in Nat /\ DOMAIN up = 0 .. N /\ up[0] = group
      /\ \A n \in 1 .. N : up[n] = NextUp(cache, up[n - 1])
    BY WalkMeets
<1> HIDE DEF N, up
<1>2. 0 \in inside
    BY <1>1
<1>3. ASSUME NEW n \in Nat, n < N, n \in inside
      PROVE  n + 1 \in inside
    <2>1. up[n] \in S /\ n + 1 \in 1 .. N /\ (n + 1) - 1 = n
        BY <1>1, <1>3
    <2>2. up[n + 1] = NextUp(cache, up[n])
        BY <1>1, <2>1
    <2> QED
        BY <2>1, <2>2 DEF NextUp
<1> HIDE DEF inside
<1>4. 0 .. N \subseteq inside
    BY <1>1, <1>2, <1>3, Induction
<1>5. \A n \in 0 .. N : up[n] \in S
    BY <1>1, <1>4 DEF inside
<1> QED
    BY <1>1, <1>5 DEF up

\* A parent from which the walk comes to the root makes no cycle.
LEMMA AssignedForest ==
    ASSUME GroupInv, IsForest(DOMAIN groupCache, LinkOf),
           NEW group \in DOMAIN groupCache, NEW parent,
           NEW assigned, assigned = [groupCache EXCEPT ![group].link = parent],
           Walk(Above(assigned, parent)) = "root"
    PROVE  \A S \in (SUBSET DOMAIN groupCache) \ {{}} : \E g \in S : assigned[g].link \notin S
<1> SUFFICES ASSUME NEW S \in SUBSET DOMAIN groupCache, S # {},
                    \A g \in S : assigned[g].link \in S
             PROVE  FALSE
    OBVIOUS
<1>1. /\ \A g \in DOMAIN groupCache : g # group => assigned[g] = groupCache[g]
      /\ assigned[group].link = parent /\ DOMAIN assigned = DOMAIN groupCache
    BY DEF GroupInv
<1>2. group \in S
    <2>1. PICK g \in S : groupCache[g].link \notin S
        BY DEF IsForest, LinkOf
    <2> QED
        BY <1>1, <2>1
<1>3. parent \in S /\ <<>> \notin S /\ IsFiniteSet(DOMAIN assigned)
    BY <1>1, <1>2 DEF GroupInv
<1> DEFINE up == Above(assigned, parent)
<1>4. \A n \in DOMAIN up : up[n] \in S
    BY <1>3, WalkStays
<1> HIDE DEF up
<1>5. \E n \in DOMAIN up : up[n] = <<>>
    BY DEF Walk, up
<1> QED
    BY <1>3, <1>4, <1>5

\* The walk comes to an end: it meets the root or, on a new cycle, the parent again.
LEMMA AssignedWalkEnds ==
    ASSUME GroupInv, IsForest(DOMAIN groupCache, LinkOf),
           NEW group \in DOMAIN groupCache, NEW parent \in DOMAIN groupCache,
           NEW assigned, assigned = [groupCache EXCEPT ![group].link = parent]
    PROVE  Walk(Above(assigned, parent)) # "endless"
<1> DEFINE up == Above(assigned, parent)
           D == DOMAIN groupCache
           N == Cardinality(D)
<1>1. /\ \A g \in D : g # group => assigned[g] = groupCache[g]
      /\ assigned[group].link = parent /\ DOMAIN assigned = D
    BY DEF GroupInv
<1>2. IsFiniteSet(D) /\ <<>> \notin D /\ \A g \in D : assigned[g].link \in {<<>>} \cup D
    BY <1>1 DEF GroupInv
<1>3. /\ N \in Nat /\ DOMAIN up = 0 .. N /\ up[0] = parent
      /\ \A n \in 1 .. N : up[n] = NextUp(assigned, up[n - 1])
    <2> DEFINE M == Cardinality(DOMAIN assigned)
    <2>1. IsFiniteSet(DOMAIN assigned) /\ M = N
        BY <1>1, <1>2
    <2>2. /\ M \in Nat /\ DOMAIN up = 0 .. M /\ up[0] = parent
          /\ \A n \in 1 .. M : up[n] = NextUp(assigned, up[n - 1])
        <3>1. IsFiniteSet(DOMAIN assigned)
            BY <2>1
        <3> QED
            BY ONLY <3>1, WalkMeets
    <2> HIDE DEF M, N, up
    <2> QED
        BY <2>1, <2>2
<1>4. Walk(up) # "endless" \/ /\ \A n \in DOMAIN up \ {0} : up[n] # up[0]
                              /\ \A n \in DOMAIN up : up[n] # <<>>
    <2> HIDE DEF up
    <2> QED
        BY DEF Walk
<1> HIDE DEF D, N, up
<1> SUFFICES ASSUME \A n \in DOMAIN up \ {0} : up[n] # up[0],
                    \A n \in DOMAIN up : up[n] # <<>>
             PROVE  FALSE
    BY <1>4 DEF up
<1>5. \A n \in 0 .. N : up[n] \in D
    <2> DEFINE inside == {n \in Nat : n <= N => up[n] \in D}
    <2>1. 0 \in inside
        BY <1>3 DEF D
    <2>2. ASSUME NEW n \in Nat, n < N, n \in inside
          PROVE  n + 1 \in inside
        <3>1. up[n] \in D /\ n + 1 \in 1 .. N /\ (n + 1) - 1 = n /\ n + 1 \in DOMAIN up
            BY <1>3, <2>2
        <3>2. up[n + 1] = assigned[up[n]].link
            BY <1>2, <1>3, <3>1 DEF NextUp
        <3>3. up[n + 1] # <<>>
            BY <3>1
        <3> QED
            BY <1>2, <3>1, <3>2, <3>3
    <2> HIDE DEF inside
    <2>3. 0 .. N \subseteq inside
        BY <1>3, <2>1, <2>2, Induction
    <2> QED
        BY <1>3, <2>3 DEF inside
<1>6. \A n \in 0 .. N - 1 : up[n + 1] = assigned[up[n]].link
    <2> SUFFICES ASSUME NEW n \in 0 .. N - 1
                 PROVE  up[n + 1] = assigned[up[n]].link
        OBVIOUS
    <2>1. n + 1 \in 1 .. N /\ (n + 1) - 1 = n /\ n \in 0 .. N
        BY <1>3
    <2> QED
        BY <1>2, <1>3, <1>5, <2>1 DEF NextUp
<1>7. PICK i \in 0 .. N, j \in 0 .. N : i < j /\ up[i] = up[j]
    <2> DEFINE f == [n \in 0 .. N |-> up[n]]
    <2>1. f \in [0 .. N -> D]
        BY <1>5
    <2>2. IsFiniteSet(0 .. N) /\ Cardinality(0 .. N) = N + 1
        <3>1. 0 \in Int /\ N \in Int
            BY <1>3
        <3> QED
            BY <1>3, <3>1, FS_Interval
    <2>3. Cardinality(D) < Cardinality(0 .. N)
        BY <1>3, <2>2 DEF N
    <2> DEFINE places == 0 .. N
    <2> HIDE DEF f, places
    <2>4. \E x, y \in places : x # y /\ f[x] = f[y]
        <3>1. f \in [places -> D] /\ IsFiniteSet(places) /\ Cardinality(D) < Cardinality(places)
            BY <2>1, <2>2, <2>3 DEF places
        <3> QED
            BY <1>2, <3>1, FS_PigeonHole
    <2>5. PICK x \in 0 .. N, y \in 0 .. N : x # y /\ up[x] = up[y]
        BY <2>4 DEF f, places
    <2> QED
        BY <1>3, <2>5
<1> DEFINE T == {up[n] : n \in i .. j - 1}
<1>8. T \in SUBSET D /\ T # {}
    BY <1>3, <1>5, <1>7
<1>9. ASSUME NEW n \in i .. j - 1
      PROVE  assigned[up[n]].link \in T
    <2>1. n \in 0 .. N - 1 /\ n + 1 \in i .. j
        BY <1>3, <1>7, <1>9
    <2>2. assigned[up[n]].link = up[n + 1]
        BY <1>6, <2>1
    <2>3. CASE n + 1 = j
        BY <1>3, <1>7, <2>2, <2>3
    <2>4. CASE n + 1 # j
        BY <1>3, <1>7, <2>1, <2>2, <2>4
    <2> QED
        BY <2>3, <2>4
<1>10. PICK n \in i .. j - 1 : groupCache[up[n]].link \notin T
    <2> HIDE DEF T
    <2>1. PICK g \in T : groupCache[g].link \notin T
        BY <1>8 DEF IsForest, LinkOf, D
    <2> QED
        BY <2>1 DEF T
<1>11. n \in 0 .. N - 1 /\ n + 1 \in DOMAIN up \ {0} /\ up[n] \in D
    BY <1>3, <1>5, <1>7, <1>10
<1>12. up[n] = group
    BY <1>1, <1>9, <1>10, <1>11
<1>13. up[n + 1] = up[0]
    BY <1>1, <1>3, <1>6, <1>11, <1>12
<1> QED
    BY <1>11, <1>13

\* A parent is assigned: the recursion returns, or the query ends on a cycle.
LEMMA AssignParentKept ==
    ASSUME QueryInv, AssignParent
    PROVE  QueryInv'
<1> DEFINE group == Last(path)
           parent == groupCache[group].parent
           assigned == [groupCache EXCEPT ![group].link = parent]
           end == Walk(Above(assigned, parent))
<1>1. /\ phase = "assign" /\ groupCache' = assigned
      /\ \/ end = "root" /\ Return("assign")
         \/ end = "cycle" /\ phase' = "failed" /\ UNCHANGED path
         \/ end = "endless" /\ phase' = "endless" /\ UNCHANGED path
      /\ UNCHANGED ports /\ UNCHANGED counter /\ UNCHANGED deviceCaps /\ UNCHANGED attempt
      /\ UNCHANGED config /\ UNCHANGED serving /\ UNCHANGED streamed
      /\ UNCHANGED fault /\ UNCHANGED online
    BY DEF AssignParent, slaveVars, deviceVars
<1>2. GroupInv /\ PathInv /\ ForestInv
    BY <1>1 DEF QueryInv, GroupInv
<1>3. group \in DOMAIN groupCache /\ parent \in DOMAIN groupCache
    BY <1>1, <1>2 DEF PathInv
<1> HIDE DEF group, end
<1>4. /\ DOMAIN groupCache' = DOMAIN groupCache
      /\ \A g \in DOMAIN groupCache :
            /\ groupCache'[g] = [parent |-> groupCache'[g].parent, link |-> groupCache'[g].link]
            /\ groupCache'[g].parent = groupCache[g].parent
            /\ groupCache'[g].link = IF g = group THEN parent ELSE groupCache[g].link
      /\ groupCache' = [g \in DOMAIN groupCache' |-> groupCache'[g]]
    <2>1. \A g \in DOMAIN groupCache :
              groupCache[g] = [parent |-> groupCache[g].parent, link |-> groupCache[g].link]
        BY <1>2 DEF GroupInv
    <2>2. DOMAIN groupCache' = DOMAIN groupCache
        BY <1>1
    <2>3. groupCache'[group] = [groupCache[group] EXCEPT !.link = parent]
        BY <1>1, <1>3
    <2>4. \A g \in DOMAIN groupCache : g # group => groupCache'[g] = groupCache[g]
        BY <1>1
    <2>5. groupCache'[group] = [parent |-> groupCache[group].parent, link |-> parent]
        BY <1>3, <2>1, <2>3
    <2>6. groupCache' = [g \in DOMAIN groupCache' |-> groupCache'[g]]
        BY <1>1
    <2> HIDE DEF parent, assigned
    <2> QED
        BY <2>1, <2>2, <2>4, <2>5, <2>6
<1> HIDE DEF parent
<1>5. phase' = "assign" => PathInv'
    <2>1. CASE Return("assign")
        BY <1>2, <1>3, <1>4, <2>1, ReturnKeepsPath DEF group
    <2>2. CASE phase' \in {"failed", "endless"}
        BY <2>2
    <2> QED
        BY <1>1, <2>1, <2>2
<1>6. phase' \in {"groups", "assign", "failed", "endless"}
    BY <1>1 DEF Return
<1>7. GroupInv'
    <2>1. groupCache' = [g \in DOMAIN groupCache' |->
                            [parent |-> groupCache'[g].parent, link |-> groupCache'[g].link]]
        BY <1>4
    <2>2. \A g \in DOMAIN groupCache' : groupCache'[g].link \in {<<>>} \cup DOMAIN groupCache'
        BY <1>2, <1>3, <1>4 DEF GroupInv
    <2> QED
        BY <1>2, <1>4, <1>5, <1>6, <2>1, <2>2 DEF GroupInv
<1>8. ForestInv'
    <2>1. ~deviceCaps /\ ~deviceCaps'
        BY <1>1, <1>2 DEF ForestInv
    <2>2. ASSUME attempt = 1
          PROVE  phase' # "endless" /\ (phase' # "failed" => IsForest(DOMAIN groupCache, LinkOf)')
        <3>1. IsForest(DOMAIN groupCache, LinkOf)
            BY <1>1, <1>2, <2>2 DEF ForestInv
        <3>2. end # "endless"
            BY <1>2, <1>3, <3>1, AssignedWalkEnds DEF end
        <3>3. phase' # "endless"
            BY <1>1, <3>2 DEF Return
        <3>4. ASSUME end = "root"
              PROVE  \A S \in (SUBSET DOMAIN groupCache) \ {{}} :
                         \E g \in S : assigned[g].link \notin S
            BY <1>2, <1>3, <3>1, <3>4, AssignedForest DEF end
        <3>5. ASSUME phase' # "failed"
              PROVE  IsForest(DOMAIN groupCache, LinkOf)'
            <4>1. end = "root" /\ groupCache' = assigned
                BY <1>1, <3>2, <3>5
            <4> HIDE DEF assigned
            <4> QED
                BY <1>4, <3>4, <4>1 DEF IsForest, LinkOf
        <3> QED
            BY <3>3, <3>5
    <2> QED
        BY <1>1, <1>6, <2>1, <2>2 DEF ForestInv
<1>9. FlagInv' /\ CounterInv'
    BY <1>1, <1>6 DEF QueryInv, FlagInv, CounterInv, Phase
<1> QED
    BY <1>7, <1>8, <1>9 DEF QueryInv

-----------------------------------------------------------------------------
(* The invariant                                                           *)

\* What the query does not do leaves it where it is.
LEMMA QueryStands ==
    ASSUME QueryInv, UNCHANGED queryVars, UNCHANGED config,
           {serving', streamed', online', fault'} \subseteq BOOLEAN
    PROVE  QueryInv'
<1>1. /\ UNCHANGED phase /\ UNCHANGED attempt /\ UNCHANGED deviceCaps
      /\ UNCHANGED ports /\ UNCHANGED counter /\ UNCHANGED groupCache /\ UNCHANGED path
    BY DEF queryVars, deviceVars, groupVars
<1>2. FlagInv' /\ CounterInv'
    BY <1>1 DEF QueryInv, FlagInv, CounterInv
<1>3. GroupInv'
    BY <1>1 DEF QueryInv, GroupInv, PathInv
<1>4. ForestInv'
    BY <1>1 DEF QueryInv, ForestInv, IsForest, LinkOf
<1> QED
    BY <1>2, <1>3, <1>4 DEF QueryInv

\* A step of the querying thread.
LEMMA QueryKept ==
    ASSUME QueryInv, Query
    PROVE  QueryInv' /\ UNCHANGED reader
<1>0. FlagInv /\ CounterInv /\ GroupInv /\ ForestInv
    BY DEF QueryInv
<1>1. CASE SendFirst
    BY <1>0, <1>1, SendFirstMoves, PlainKeepsGroups DEF QueryInv, SendFirst, slaveVars
<1>2. CASE SendRequest
    <2>1. UNCHANGED reader
        BY <1>2 DEF SendRequest, RequestAnew, Request, slaveVars
    <2> QED
        BY <1>0, <1>2, <2>1, RequestMoves, PlainKeepsGroups DEF QueryInv
<1>3. CASE TakeMessage
    <2>1. /\ UNCHANGED attempt /\ UNCHANGED reader /\ UNCHANGED config /\ UNCHANGED serving
          /\ UNCHANGED streamed /\ UNCHANGED fault /\ UNCHANGED online
          /\ \E parts : \/ TakeCaps(parts) \/ TakeInfo(parts) \/ TakeLabel(parts)
                        \/ TakeExtendedInfo(parts) \/ TakeGroup(parts)
                        \/ TakeDeviceInfo(parts) \/ TakeState(parts) \/ TakeExtendedState(parts)
        BY <1>3 DEF TakeMessage, slaveVars
    <2>2. ASSUME NEW parts, TakeGroup(parts)
          PROVE  QueryInv'
        <3>1. /\ CounterInv' /\ GroupInv' /\ ForestInv'
              /\ phase' \in Phase /\ UNCHANGED deviceCaps
            BY <2>1, <2>2, TakeGroupKept
        <3>2. FlagInv'
            BY <1>0, <2>1, <3>1 DEF FlagInv
        <3> QED
            BY <3>1, <3>2 DEF QueryInv
    <2>3. ASSUME Taken
          PROVE  QueryInv'
        <3>1. PlainMove /\ phase' \in Phase /\ UNCHANGED deviceCaps
            BY <2>3, TakenMoves
        <3>2. CounterInv' /\ GroupInv' /\ ForestInv'
            BY <1>0, <2>3, <3>1, TakenKeepsCount, PlainKeepsGroups
        <3>3. FlagInv'
            BY <1>0, <2>1, <3>1 DEF FlagInv
        <3> QED
            BY <3>2, <3>3 DEF QueryInv
    <2> QED
        BY <1>0, <2>1, <2>2, <2>3, TakeIsTaken
<1>4. CASE GoThroughGroups
    BY <1>4, GoThroughGroupsKept DEF GoThroughGroups, slaveVars
<1>5. CASE AssignParent
    BY <1>5, AssignParentKept DEF AssignParent, slaveVars
<1>6. CASE ExpectFails
    <2>1. Taken /\ FlagInv'
        BY <1>0, <1>6, ExpectFailsMoves
    <2>2. CounterInv' /\ GroupInv' /\ ForestInv'
        BY <1>0, <2>1, TakenKeepsCount, TakenMoves, PlainKeepsGroups
    <2>3. UNCHANGED reader
        BY <1>6 DEF ExpectFails, slaveVars
    <2> QED
        BY <2>1, <2>2, <2>3 DEF QueryInv
<1> QED
    BY <1>1, <1>2, <1>3, <1>4, <1>5, <1>6 DEF Query

\* The slave handles a message.
LEMMA HandleServes ==
    ASSUME NEW message, Handle(message)
    PROVE  serving' \in BOOLEAN
<1> DEFINE parts == SplitBySlave(message.text)
<1>1. CASE Len(parts) > OPDI_MAX_MESSAGE_PARTS
    BY <1>1 DEF Handle
<1>2. CASE ~(Len(parts) > OPDI_MAX_MESSAGE_PARTS)
    <2>1. PICK dangling \in {<<"29">>, <<Noise>>} :
              LET reply == IF message.channel = 0 THEN EmptyReply
                           ELSE Reply(message.channel, parts, dangling)
              IN serving' = (reply.status = "OK" /\ Sent(reply) = reply.sent)
        BY <1>2 DEF Handle
    <2> QED
        BY <2>1
<1> QED
    BY <1>1, <1>2

\* A step of the slave.
LEMMA SlaveKept ==
    ASSUME QueryInv, ReaderInv, SlaveReads \/ SlaveStreams
    PROVE  QueryInv' /\ ReaderInv'
<1>0. {serving, streamed, online, fault} \subseteq BOOLEAN
    BY DEF QueryInv, FlagInv
<1>1. CASE SlaveReads
    <2> DEFINE read == ReadByte(reader, Head(toSlave), config.cipher)
    <2>1. /\ reader' = read.reader
          /\ \/ UNCHANGED serving
             \/ Handle(read.message[1])
          /\ UNCHANGED streamed /\ UNCHANGED online /\ UNCHANGED fault
          /\ UNCHANGED config /\ UNCHANGED queryVars
        BY <1>1 DEF SlaveReads
    <2>2. serving' \in BOOLEAN
        BY <1>0, <2>1, HandleServes
    <2>3. QueryInv'
        BY <1>0, <2>1, <2>2, QueryStands
    <2>4. ReaderInv'
        BY <2>1, ReadWithinBuffer DEF ReaderInv
    <2> QED
        BY <2>3, <2>4
<1>2. CASE SlaveStreams
    <2>1. /\ \E bytes : reader' = Overwritten(reader, bytes, config.cipher)
          /\ reader = EmptyReader
          /\ UNCHANGED serving /\ streamed' = TRUE /\ UNCHANGED online /\ UNCHANGED fault
          /\ UNCHANGED config /\ UNCHANGED queryVars
        BY <1>2 DEF SlaveStreams, MaySend
    <2>2. QueryInv'
        BY <1>0, <2>1, QueryStands
    <2>3. ReaderInv'
        BY <2>1, OverwrittenWithinBuffer DEF ReaderInv
    <2> QED
        BY <2>2, <2>3
<1> QED
    BY <1>1, <1>2

\* A disturbance, and a step of the master's message processor.
LEMMA OthersKept ==
    ASSUME QueryInv, Disturb \/ MasterReads
    PROVE  QueryInv' /\ UNCHANGED reader
<1>0. {serving, streamed, online, fault} \subseteq BOOLEAN
    BY DEF QueryInv, FlagInv
<1>1. CASE Disturb
    <2>1. /\ UNCHANGED reader /\ UNCHANGED serving /\ UNCHANGED streamed /\ UNCHANGED online
          /\ fault' = TRUE /\ UNCHANGED config /\ UNCHANGED queryVars
        BY <1>1 DEF Disturb, slaveVars
    <2> QED
        BY <1>0, <2>1, QueryStands
<1>2. CASE MasterReads
    <2>1. /\ UNCHANGED reader /\ UNCHANGED serving /\ UNCHANGED streamed /\ UNCHANGED fault
          /\ UNCHANGED config /\ UNCHANGED queryVars
          /\ online' \in {online, FALSE}
        BY <1>2 DEF MasterReads, slaveVars
    <2> QED
        BY <1>0, <2>1, QueryStands
<1> QED
    BY <1>1, <1>2

-----------------------------------------------------------------------------
(* The theorems                                                            *)

\* The invariant holds when the connection has just been made.
LEMMA InitBulkInv == Init => BulkInv
<1> SUFFICES ASSUME Init
             PROVE  BulkInv
    OBVIOUS
<1>1. /\ phase \in {"query", "first"} /\ attempt = 1 /\ deviceCaps = FALSE
      /\ ports = <<>> /\ counter = 0 /\ groupCache = [g \in {} |-> <<>>]
    BY DEF Init
<1>2. DOMAIN groupCache = {}
    BY <1>1
<1>3. ReaderInv
    BY EmptyWithinBuffer DEF Init, ReaderInv
<1>4. FlagInv
    <2>1. 1 \in 1 .. MaxAttempts
        BY BulkAssumption DEF BulkAssumption
    <2> QED
        BY <1>1, <2>1 DEF Init, FlagInv, Phase
<1>5. CounterInv
    <2>1. Sequence(<<>>) /\ Len(<<>>) = 0
        BY EmptyWithinBuffer DEF WithinBuffer, EmptyReader
    <2> QED
        BY <1>1, <2>1 DEF CounterInv
<1>6. GroupInv
    <2>1. IsFiniteSet({})
        BY FS_EmptySet
    <2> QED
        BY <1>1, <1>2, <2>1 DEF GroupInv
<1>7. ForestInv
    <2>1. IsForest({}, LinkOf)
        BY DEF IsForest
    <2> QED
        BY <1>1, <1>2, <2>1 DEF ForestInv
<1> QED
    BY <1>3, <1>4, <1>5, <1>6, <1>7 DEF BulkInv

\* Every step of the two message processors, of the querying thread and of what happens
\* to the connection keeps the invariant.
LEMMA NextBulkInv == BulkInv /\ [Next]_vars => BulkInv'
<1> SUFFICES ASSUME BulkInv, [Next]_vars
             PROVE  QueryInv' /\ ReaderInv'
    BY DEF BulkInv, QueryInv
<1>0. QueryInv /\ ReaderInv
    BY DEF BulkInv, QueryInv
<1>1. CASE SlaveReads \/ SlaveStreams
    BY <1>0, <1>1, SlaveKept
<1>2. CASE UNCHANGED reader /\ QueryInv'
    BY <1>0, <1>2 DEF ReaderInv
<1>3. CASE MasterReads \/ Disturb
    BY <1>0, <1>2, <1>3, OthersKept
<1>4. CASE Query
    BY <1>0, <1>2, <1>4, QueryKept
<1>5. CASE QueryAgain
    <2>1. UNCHANGED reader
        BY <1>5 DEF QueryAgain, slaveVars
    <2> QED
        BY <1>0, <1>2, <1>5, <2>1, QueryAgainKept
<1>6. CASE UNCHANGED vars
    <2>1. /\ UNCHANGED reader /\ UNCHANGED queryVars /\ UNCHANGED config /\ UNCHANGED serving
          /\ UNCHANGED streamed /\ UNCHANGED online /\ UNCHANGED fault
        BY <1>6 DEF vars, slaveVars
    <2>2. {serving', streamed', online', fault'} \subseteq BOOLEAN
        BY <1>0, <2>1 DEF QueryInv, FlagInv
    <2> QED
        BY <1>0, <1>2, <2>1, <2>2, QueryStands
<1> QED
    BY <1>1, <1>3, <1>4, <1>5, <1>6 DEF Next

\* The inductive invariant, for every device of the configurations, every disturbance,
\* every way the threads take turns and any number of attempts.
THEOREM BulkInvariant == Spec => []BulkInv
<1> QED
    BY InitBulkInv, NextBulkInv, PTL DEF Spec

\* The variables have their types: the slave's reader never fills its buffer, the ports
\* dealt with are never more than there are, and every group that is linked to another
\* one has it in the cache.
THEOREM BulkTypeCorrect == Spec => []BulkTypeOK
<1>1. BulkInv => BulkTypeOK
    BY DEF BulkInv, ReaderInv, WithinBuffer, FlagInv, CounterInv, GroupInv, BulkTypeOK
<1> QED
    BY <1>1, BulkInvariant, PTL

\* Whatever groups the device names, and whatever happens to the answers, a first query
\* accepts none that is above itself, and no walk to the root of the hierarchy is
\* endless.
THEOREM NoCycleAccepted == Spec => []FirstQueryWithoutCycle
<1>1. BulkInv => FirstQueryWithoutCycle
    BY DEF BulkInv, ForestInv, FirstQueryWithoutCycle
<1> QED
    BY <1>1, BulkInvariant, PTL

=============================================================================
