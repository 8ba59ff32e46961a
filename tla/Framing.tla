------------------------------ MODULE Framing ------------------------------
(***************************************************************************)
(* Messages on the wire: a channel number, the payload and a checksum,     *)
(* separated by colons and ended by a line feed, in the clear or in the    *)
(* blocks of a cipher.  opdi_message.c writes and reads them in the slave, *)
(* Message.java and the message processor of MessageQueueDevice in the     *)
(* master.                                                                 *)
(*                                                                         *)
(* The wire carries characters.  Encrypted blocks are written as what they *)
(* decrypt to.  The four digits of a checksum are one character here, and  *)
(* so are the names of message kinds, so that buffers are smaller by as    *)
(* much.                                                                   *)
(***************************************************************************)
EXTENDS Strings

CONSTANTS BufferSize,   \* OPDI_MESSAGE_BUFFER_SIZE
          BlockSize,    \* opdi_encryption_blocksize
          Alphabet      \* the characters of payloads, in an arbitrary order

\* As in every configuration that has encryption, blocks fill the buffer exactly.
ASSUME FramingAssumption ==
    /\ BlockSize \in Nat \ {0}
    /\ BufferSize \in Nat \ {0}
    /\ BufferSize % BlockSize = 0
    /\ Alphabet \in Seq(STRING)

Separator == ":"
Terminator == "\n"
Noise == "#"      \* padding, and what a disturbed block decrypts to

\* The checksum takes one place of the four.
PayloadLength == BufferSize - 9 + 3
CHANNEL_MAXBUF == 3

-----------------------------------------------------------------------------
(* Encoding                                                                *)

Digit == <<"0", "1", "2", "3", "4", "5", "6", "7", "8", "9">>

ChannelDigits(channel) ==
    IF channel < 10 THEN <<Digit[channel + 1]>>
    ELSE <<Digit[(channel \div 10) + 1], Digit[(channel % 10) + 1]>>

\* The digits of a sum are neither of the two.
SumName(n) == "sum" \o ToString(n)

\* A sum has 16 bits.
SumLimit == 65536

ASSUME SumAssumption == \A n \in 0 .. SumLimit - 1 : SumName(n) \notin {Separator, Terminator}

\* One wrong character or a missing one changes the sum.
Weight(c) ==
    IF \E i \in DOMAIN Alphabet : Alphabet[i] = c
    THEN 100 + (CHOOSE i \in DOMAIN Alphabet : Alphabet[i] = c)
    ELSE 100

Checksum(bytes) ==
    LET sum[n \in 0 .. Len(bytes)] ==
            IF n = 0 THEN 0 ELSE (sum[n - 1] + Weight(bytes[n])) % SumLimit
    IN SumName(sum[Len(bytes)])

\* Both encoders refuse a payload with a terminator.
Encodable(text) == ~Contains(text, Terminator)

Encoded(channel, text) ==
    LET content == ChannelDigits(channel) \o <<Separator>> \o text
    IN content \o <<Separator, Checksum(content), Terminator>>

\* put_encrypted and write_blocks fill the last block with random bytes other than the
\* terminator.
Padded(bytes) ==
    LET missing == (BlockSize - (Len(bytes) % BlockSize)) % BlockSize
    IN bytes \o [i \in 1..missing |-> Noise]

OnWire(channel, text, cipher) ==
    IF cipher THEN Padded(Encoded(channel, text)) ELSE Encoded(channel, text)

-----------------------------------------------------------------------------
(* Decoding.  bytes is what came before the terminator.                    *)

Separators(bytes) == {i \in DOMAIN bytes : bytes[i] = Separator}

\* Fault: the checksum is not compared.
AnyChecksum(bytes) == TRUE

ChecksumFits(bytes) ==
    bytes[Len(bytes)] = Checksum(SubSeq(bytes, 1, Max(Separators(bytes)) - 1))

\* What both decoders demand: a channel number, and a checksum that is right.
Decodable(bytes) ==
    /\ Cardinality(Separators(bytes)) > 1
    /\ Min(Separators(bytes)) > 1
    /\ \A i \in 1 .. Min(Separators(bytes)) - 1 : Contains(Digit, bytes[i])
    /\ Max(Separators(bytes)) = Len(bytes) - 1
    /\ ChecksumFits(bytes)

\* Of the slave's decode only: channels have two digits, the payload is not empty and
\* fits its buffer.
DecodableInC(bytes) ==
    /\ Decodable(bytes)
    /\ Min(Separators(bytes)) <= CHANNEL_MAXBUF
    /\ Len(bytes) - 2 - Min(Separators(bytes)) \in 1 .. PayloadLength - 1

\* The number that is written with some digits.
DigitValue(c) == (CHOOSE i \in DOMAIN Digit : Digit[i] = c) - 1

ChannelNumber(digits) ==
    LET number[n \in 0 .. Len(digits)] ==
            IF n = 0 THEN 0 ELSE 10 * number[n - 1] + DigitValue(digits[n])
    IN number[Len(digits)]

Decoded(bytes) ==
    LET first == Min(Separators(bytes))
    IN [channel |-> ChannelNumber(SubSeq(bytes, 1, first - 1)),
        text |-> SubSeq(bytes, first + 1, Max(Separators(bytes)) - 1)]

Part(bytes) == SubSeq(bytes, 1, SelectInSeq(bytes, LAMBDA c : c = Terminator) - 1)

-----------------------------------------------------------------------------
(* Reading in the slave, a byte at a time.  A reader is what has been       *)
(* assembled of a message and, with a cipher, of the next block; message   *)
(* is empty or holds the message that is returned.                          *)

EmptyReader == [assembled |-> <<>>, block |-> <<>>]

Reading(assembled, block) ==
    [reader |-> [assembled |-> assembled, block |-> block], message |-> <<>>]

\* A malformed message is ignored, and reading starts over.
Returning(bytes) ==
    [reader |-> EmptyReader,
     message |-> IF DecodableInC(bytes) THEN <<Decoded(bytes)>> ELSE <<>>]

\* Fault: the buffer is never full.
NeverFull(count, size) == FALSE

Full(count, size) == count >= size

\* opdi_get_message.  Overflowing messages are ignored.
ReadClear(reader, byte) ==
    LET assembled == Append(reader.assembled, byte)
    IN IF byte = Terminator THEN Returning(reader.assembled)
       ELSE IF Full(Len(assembled), BufferSize - 1) THEN Reading(<<>>, <<>>)
       ELSE Reading(assembled, <<>>)

\* get_encrypted.  What follows a terminator in its block is padding.
ReadEncrypted(reader, byte) ==
    LET block == Append(reader.block, byte)
        assembled == reader.assembled \o block
    IN CASE Full(Len(assembled), BufferSize) -> Reading(<<>>, <<>>)
         [] ~Full(Len(assembled), BufferSize) /\ Len(block) < BlockSize
              -> Reading(reader.assembled, block)
         [] OTHER -> IF Contains(block, Terminator) THEN Returning(Part(assembled))
                     ELSE Reading(assembled, <<>>)

ReadByte(reader, byte, cipher) ==
    IF cipher THEN ReadEncrypted(reader, byte) ELSE ReadClear(reader, byte)

\* Fault: the receive function may always send.
AnyTime(reader) == TRUE

\* opdi_get_message lets the receive function send only before a message has begun.
MaySend(reader) == reader = EmptyReader

\* What sending does to a reader: encode writes into the buffer in which get_encrypted
\* assembles; opdi_get_message has a buffer of its own.
Overwritten(reader, bytes, cipher) ==
    IF ~cipher THEN reader
    ELSE [reader EXCEPT !.assembled =
             [i \in DOMAIN @ |-> IF i <= Len(bytes) THEN bytes[i] ELSE @[i]]]

\* The messages that fit the slave's buffer.
FitsSlave(channel, text, cipher) ==
    /\ Len(text) \in 1 .. PayloadLength - 1
    /\ IF cipher THEN Len(Padded(Encoded(channel, text))) < BufferSize
       ELSE Len(Encoded(channel, text)) < BufferSize

-----------------------------------------------------------------------------
(* Reading in the master, as many bytes as there are or a block.            *)

\* One byte; read is the part that has been read of a message, and the messages before it.
Processed(read, byte) ==
    IF byte # Terminator THEN [part |-> Append(read.part, byte), messages |-> read.messages]
    ELSE [part |-> <<>>,
          messages |-> IF Decodable(read.part) THEN Append(read.messages, Decoded(read.part))
                       ELSE read.messages]

ProcessClear(part, chunk) ==
    LET read[n \in 0 .. Len(chunk)] ==
            IF n = 0 THEN [part |-> part, messages |-> <<>>]
            ELSE Processed(read[n - 1], chunk[n])
    IN read[Len(chunk)]

\* The rest of a block is padding.
ProcessBlock(part, block) ==
    LET bytes == part \o block
    IN IF Contains(block, Terminator)
       THEN [part |-> <<>>,
             messages |-> IF Decodable(Part(bytes)) THEN <<Decoded(Part(bytes))>>
                          ELSE <<>>]
       ELSE [part |-> bytes, messages |-> <<>>]

ReadChunk(part, chunk, cipher) ==
    IF cipher THEN ProcessBlock(part, chunk) ELSE ProcessClear(part, chunk)

=============================================================================
