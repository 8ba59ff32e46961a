-------------------------- MODULE Messages_proofs --------------------------
(***************************************************************************)
(* The two streams of bytes, for all devices and in both directions: as    *)
(* long as nothing is disturbed, each side receives what the other one has *)
(* sent, message by message.                                               *)
(*                                                                         *)
(* What one side has read of a message and what is still under way are     *)
(* together the frames of the messages it has not received yet.  The       *)
(* argument needs no induction over steps other than that one: a frame is  *)
(* recognised by its first terminator, what is before it is decoded to     *)
(* what was encoded, and splitting undoes joining (Strings_proofs).        *)
(***************************************************************************)
EXTENDS BulkQuery_proofs

-----------------------------------------------------------------------------
(* Characters                                                              *)

\* The names of checksums.
Sums == {SumName(n) : n \in 0 .. SumLimit - 1}

\* The names of the messages, and the digits.
Names ==
    {"gDC", "gAPI", "gAPS", "gASL", "gGI", "gEDI"}
      \cup {"BDC", "DP", "SLP", "SLL", "EPI", "GI", "EDI", "DPS", "EPS", "NOK", "Err"}
      \cup {"info", "group", "state", "more", "why", "about", "x", "29", "8"}
      \cup {"0", "1", "2", "3", "4", "5", "6", "7", "8", "9"}

\* What may be on the wire, and in a text that can be encoded.
Char == {Alphabet[i] : i \in DOMAIN Alphabet} \cup Names \cup Sums
          \cup {Separator, Terminator, Noise, Blank, ","}

\* Characters that may be in a text, and messages.
Payload == Char \ {Terminator}

Message == [channel : 0 .. 99, text : Seq(Payload)]

-----------------------------------------------------------------------------
(* Sequences                                                               *)

\* The elements of two sequences that are joined.
IsJoin(u, s, t) ==
    /\ Len(u) = Len(s) + Len(t)
    /\ \A i \in 1 .. Len(s) : u[i] = s[i]
    /\ \A i \in 1 .. Len(t) : u[Len(s) + i] = t[i]

\* What is appended comes behind.
LEMMA Joined ==
    ASSUME NEW S, NEW s \in Seq(S), NEW t \in Seq(S)
    PROVE  s \o t \in Seq(S) /\ IsJoin(s \o t, s, t)
<1>1. Len(s) \in Nat /\ Len(t) \in Nat
    OBVIOUS
<1>2. ASSUME NEW i \in 1 .. Len(s)
      PROVE  (s \o t)[i] = s[i]
    <2>1. i \in 1 .. Len(s) + Len(t) /\ i <= Len(s)
        BY <1>1
    <2> QED
        BY <2>1, ConcatProperties
<1>3. ASSUME NEW i \in 1 .. Len(t)
      PROVE  (s \o t)[Len(s) + i] = t[i]
    <2>1. /\ Len(s) + i \in 1 .. Len(s) + Len(t) /\ ~(Len(s) + i <= Len(s))
          /\ (Len(s) + i) - Len(s) = i
        BY <1>1
    <2> QED
        BY <2>1, ConcatProperties
<1> QED
    BY <1>2, <1>3, ConcatProperties DEF IsJoin

\* u has the first n elements of s.
IsBeginning(u, s, n) == Len(u) = n /\ \A i \in 1 .. n : u[i] = s[i]

\* A beginning has the elements of the whole.
LEMMA Beginning ==
    ASSUME NEW S, NEW s \in Seq(S), NEW n \in 0 .. Len(s)
    PROVE  SubSeq(s, 1, n) \in Seq(S) /\ IsBeginning(SubSeq(s, 1, n), s, n)
<1> DEFINE u == SubSeq(s, 1, n)
<1>1. n \in Int /\ n >= 0 /\ \A i \in 1 .. n : s[i] \in S
    OBVIOUS
<1>2. /\ u \in Seq(S) /\ Len(u) = IF 1 <= n THEN n - 1 + 1 ELSE 0
      /\ \A i \in 1 .. n - 1 + 1 : u[i] = s[1 + i - 1]
    BY <1>1, SubSeqProperties
<1> HIDE DEF u
<1>3. Len(u) = n /\ n - 1 + 1 = n /\ \A i \in 1 .. n : 1 + i - 1 = i
    BY <1>1, <1>2
<1>4. \A i \in 1 .. n : u[i] = s[i]
    BY <1>2, <1>3
<1> QED
    BY <1>2, <1>3, <1>4 DEF u, IsBeginning

-----------------------------------------------------------------------------
(* The checksum                                                            *)

\* Every character weighs something.
LEMMA WeightType == \A c : Weight(c) \in Nat
<1> SUFFICES ASSUME NEW c
             PROVE  Weight(c) \in Nat
    OBVIOUS
<1>1. CASE \E i \in DOMAIN Alphabet : Alphabet[i] = c
    <2> DEFINE j == CHOOSE i \in DOMAIN Alphabet : Alphabet[i] = c
    <2>1. j \in DOMAIN Alphabet
        BY <1>1
    <2>2. DOMAIN Alphabet \subseteq Nat
        BY FramingAssumption
    <2>3. j \in Nat
        BY <2>1, <2>2
    <2> HIDE DEF j
    <2>4. Weight(c) = 100 + j
        BY <1>1 DEF Weight, j
    <2> QED
        BY <2>3, <2>4
<1>2. CASE ~ \E i \in DOMAIN Alphabet : Alphabet[i] = c
    BY <1>2 DEF Weight
<1> QED
    BY <1>1, <1>2

\* Remainders stay below the limit.
LEMMA Remainder == 0 \in 0 .. SumLimit - 1 /\ \A n \in Nat : n % SumLimit \in 0 .. SumLimit - 1
<1>1. SumLimit \in Nat /\ SumLimit > 0
    BY DEF SumLimit
<1> QED
    BY <1>1

\* A checksum is a sum, and no separator.
LEMMA ChecksumType ==
    ASSUME NEW C, NEW bytes \in Seq(C)
    PROVE  Checksum(bytes) \in Sums
<1> DEFINE N == Len(bytes)
           A == 0 .. SumLimit - 1
           Added(s, n) == (s + Weight(bytes[n])) % SumLimit
           step == [n \in 1 .. N |-> [s \in A |-> Added(s, n)]]
           IsSum(f) == f = [n \in 0 .. N |-> IF n = 0 THEN 0 ELSE Added(f[n - 1], n)]
           sum == CHOOSE f : IsSum(f)
<1>1. Checksum(bytes) = SumName(sum[N])
    BY DEF Checksum
<1> HIDE DEF step, sum
<1>2. N \in Nat
    OBVIOUS
<1>3. \A s \in A, n \in 1 .. N : Added(s, n) \in A
    <2> SUFFICES ASSUME NEW s \in A, NEW n \in 1 .. N
                 PROVE  Added(s, n) \in A
        OBVIOUS
    <2>1. s + Weight(bytes[n]) \in Nat
        BY WeightType
    <2> QED
        BY <2>1, Remainder
<1>4. 0 \in A
    BY Remainder
<1>5. Sums = {SumName(n) : n \in A}
    BY DEF Sums
<1> HIDE DEF N, A, Added
<1>6. step \in [1 .. N -> [A -> A]]
    BY <1>3 DEF step
<1>7. PICK f : Recursive(f, A, 0, N, step)
    BY <1>2, <1>4, <1>6, Recursion
<1>8. f \in [0 .. N -> A] /\ f[0] = 0 /\ \A n \in 1 .. N : f[n] = step[n][f[n - 1]]
    BY <1>7 DEF Recursive
<1>9. \A n \in 1 .. N : f[n] = Added(f[n - 1], n)
    <2> SUFFICES ASSUME NEW n \in 1 .. N
                 PROVE  f[n] = Added(f[n - 1], n)
        OBVIOUS
    <2>1. n - 1 \in 0 .. N
        BY <1>2
    <2>2. f[n - 1] \in A
        BY <1>8, <2>1
    <2>3. step[n][f[n - 1]] = Added(f[n - 1], n)
        BY <2>2 DEF step
    <2> QED
        BY <1>8, <2>3
<1>10. IsSum(f)
    <2>1. f = [n \in 0 .. N |-> f[n]]
        BY <1>8
    <2>2. \A n \in 0 .. N : f[n] = IF n = 0 THEN 0 ELSE Added(f[n - 1], n)
        BY <1>2, <1>8, <1>9
    <2> QED
        BY <2>1, <2>2
<1>11. IsSum(sum)
    <2> HIDE DEF IsSum
    <2> QED
        BY <1>10 DEF sum
<1>12. AreAlike(f, sum, N)
    <2>1. \A n \in 0 .. N : sum[n] = IF n = 0 THEN 0 ELSE Added(sum[n - 1], n)
        BY <1>11
    <2>2. sum[0] = 0 /\ \A n \in 1 .. N : sum[n] = Added(sum[n - 1], n)
        BY <1>2, <2>1
    <2>3. GoOnAlike(f, sum, N)
        BY <1>8, <1>9, <2>2 DEF GoOnAlike
    <2> QED
        BY <1>2, <2>3, Alike
<1>13. sum[N] \in A
    <2>1. N \in 0 .. N
        BY <1>2
    <2> QED
        BY <1>8, <1>12, <2>1 DEF AreAlike
<1> QED
    BY <1>1, <1>5, <1>13

\* A checksum is neither a separator nor the end of a message.
LEMMA SumIsNoMark == \A sum \in Sums : sum # Separator /\ sum # Terminator
<1> SUFFICES ASSUME NEW n \in 0 .. SumLimit - 1
             PROVE  SumName(n) # Separator /\ SumName(n) # Terminator
    BY DEF Sums
<1> QED
    BY SumAssumption

-----------------------------------------------------------------------------
(* The channel number                                                      *)

\* Digits and their values belong together.
LEMMA DigitFacts ==
    /\ \A k \in 0 .. 9 : /\ DigitValue(Digit[k + 1]) = k /\ Contains(Digit, Digit[k + 1])
                         /\ Digit[k + 1] \in Payload /\ Digit[k + 1] # Separator
    /\ \A c : Contains(Digit, c) => DigitValue(c) \in 0 .. 9
<1>1. DOMAIN Digit = 1 .. 10 /\ Len(Digit) = 10
    BY DEF Digit
<1>2. /\ Digit[1] = "0" /\ Digit[2] = "1" /\ Digit[3] = "2" /\ Digit[4] = "3" /\ Digit[5] = "4"
      /\ Digit[6] = "5" /\ Digit[7] = "6" /\ Digit[8] = "7" /\ Digit[9] = "8" /\ Digit[10] = "9"
    BY DEF Digit
<1>3. \A i, j \in 1 .. 10 : Digit[i] = Digit[j] => i = j
    BY <1>2
<1>4. ASSUME NEW i \in 1 .. 10
      PROVE  DigitValue(Digit[i]) = i - 1
    <2>1. (CHOOSE j \in DOMAIN Digit : Digit[j] = Digit[i]) = i
        BY <1>1, <1>3
    <2> QED
        BY <2>1 DEF DigitValue
<1>5. ASSUME NEW i \in 1 .. 10
      PROVE  Digit[i] \in Payload /\ Digit[i] # Separator
    <2>1. Digit[i] \in {"0", "1", "2", "3", "4", "5", "6", "7", "8", "9"}
        BY <1>2
    <2> QED
        BY <2>1 DEF Payload, Char, Names, Terminator, Separator
<1>6. ASSUME NEW k \in 0 .. 9
      PROVE  /\ DigitValue(Digit[k + 1]) = k /\ Contains(Digit, Digit[k + 1])
             /\ Digit[k + 1] \in Payload /\ Digit[k + 1] # Separator
    <2>1. k + 1 \in 1 .. 10 /\ (k + 1) - 1 = k
        OBVIOUS
    <2>2. Contains(Digit, Digit[k + 1])
        BY <1>1, <2>1 DEF Contains
    <2> QED
        BY <1>4, <1>5, <2>1, <2>2
<1>7. ASSUME NEW c, Contains(Digit, c)
      PROVE  DigitValue(c) \in 0 .. 9
    <2>1. PICK i \in 1 .. 10 : Digit[i] = c
        BY <1>1, <1>7 DEF Contains
    <2> QED
        BY <1>4, <2>1
<1> QED
    BY <1>6, <1>7

\* What one or two digits are worth.
LEMMA ChannelNumberIs ==
    ASSUME NEW C, NEW digits \in Seq(C), Len(digits) \in 1 .. 2,
           \A i \in 1 .. Len(digits) : Contains(Digit, digits[i])
    PROVE  ChannelNumber(digits) =
             IF Len(digits) = 1 THEN DigitValue(digits[1])
             ELSE 10 * DigitValue(digits[1]) + DigitValue(digits[2])
<1> DEFINE N == Len(digits)
           V(n) == DigitValue(digits[n])
           IsNumber(f) == f = [n \in 0 .. N |-> IF n = 0 THEN 0 ELSE 10 * f[n - 1] + V(n)]
           number == CHOOSE f : IsNumber(f)
           g == [n \in 0 .. N |-> IF n = 0 THEN 0 ELSE IF n = 1 THEN V(1) ELSE 10 * V(1) + V(2)]
<1>1. ChannelNumber(digits) = number[N]
    BY DEF ChannelNumber
<1>2. N \in 1 .. 2 /\ \A n \in 1 .. N : V(n) \in Nat
    BY DigitFacts
<1> HIDE DEF N, V, number
<1>3. IsNumber(g)
    <2>1. g[0] = 0 /\ (1 \in 1 .. N => g[1] = V(1)) /\ (2 \in 1 .. N => g[2] = 10 * V(1) + V(2))
        BY <1>2
    <2>2. g = [n \in 0 .. N |-> g[n]]
        OBVIOUS
    <2> HIDE DEF g
    <2>3. \A n \in 0 .. N : g[n] = IF n = 0 THEN 0 ELSE 10 * g[n - 1] + V(n)
        BY <1>2, <2>1
    <2> QED
        BY <2>2, <2>3
<1>4. IsNumber(number)
    <2> HIDE DEF IsNumber, g
    <2> QED
        BY <1>3 DEF number
<1>5. \A n \in 0 .. N : number[n] = IF n = 0 THEN 0 ELSE 10 * number[n - 1] + V(n)
    BY <1>4
<1>6. number[0] = 0 /\ number[1] = V(1) /\ (2 \in 1 .. N => number[2] = 10 * V(1) + V(2))
    BY <1>2, <1>5
<1>7. number[N] = IF N = 1 THEN V(1) ELSE 10 * V(1) + V(2)
    BY <1>2, <1>6
<1> QED
    BY <1>1, <1>7 DEF N, V

\* A channel of two digits is what its digits are worth.
LEMMA ChannelDigitsFit ==
    ASSUME NEW ch \in 0 .. 99
    PROVE  /\ ChannelDigits(ch) \in Seq(Payload) /\ Len(ChannelDigits(ch)) \in 1 .. 2
           /\ \A i \in 1 .. Len(ChannelDigits(ch)) :
                 Contains(Digit, ChannelDigits(ch)[i]) /\ ChannelDigits(ch)[i] # Separator
           /\ ChannelNumber(ChannelDigits(ch)) = ch
<1>1. CASE ch < 10
    <2>1. ChannelDigits(ch) = <<Digit[ch + 1]>>
        BY <1>1 DEF ChannelDigits
    <2>2. ch \in 0 .. 9
        BY <1>1
    <2>3. /\ DigitValue(Digit[ch + 1]) = ch /\ Contains(Digit, Digit[ch + 1])
          /\ Digit[ch + 1] \in Payload /\ Digit[ch + 1] # Separator
        BY <2>2, DigitFacts
    <2> DEFINE a == Digit[ch + 1]
    <2>0. ChannelDigits(ch) = <<a>> /\ DigitValue(a) = ch
        BY <2>1, <2>3
    <2> HIDE DEF a
    <2> DEFINE d == <<a>>
    <2>4. d \in Seq(Payload) /\ Len(d) = 1 /\ d[1] = a
        BY <2>3 DEF a
    <2>5. ChannelDigits(ch) = d
        BY <2>0
    <2> HIDE DEF d
    <2>6. \A i \in 1 .. Len(d) : Contains(Digit, d[i]) /\ d[i] # Separator
        BY <2>3, <2>4 DEF a
    <2>7. ChannelNumber(d) = DigitValue(a)
        BY <2>4, <2>6, ChannelNumberIs
    <2>8. Len(d) \in 1 .. 2
        BY <2>4
    <2> QED
        BY <2>0, <2>4, <2>5, <2>6, <2>7, <2>8
<1>2. CASE ~(ch < 10)
    <2> DEFINE a == Digit[(ch \div 10) + 1]
               b == Digit[(ch % 10) + 1]
    <2>1. ChannelDigits(ch) = <<a, b>>
        BY <1>2 DEF ChannelDigits
    <2>2. ch \div 10 \in 0 .. 9 /\ ch % 10 \in 0 .. 9 /\ ch = 10 * (ch \div 10) + (ch % 10)
        <3>1. ch % 10 \in 0 .. 9
            OBVIOUS
        <3>2. ch \div 10 \in Int
            OBVIOUS
        <3>3. ch = 10 * (ch \div 10) + (ch % 10)
            OBVIOUS
        <3>4. ch \div 10 \in 0 .. 9
            BY <3>1, <3>2, <3>3
        <3> QED
            BY <3>1, <3>3, <3>4
    <2>3. /\ DigitValue(a) = ch \div 10 /\ Contains(Digit, a)
          /\ DigitValue(b) = ch % 10 /\ Contains(Digit, b)
          /\ a \in Payload /\ a # Separator /\ b \in Payload /\ b # Separator
        BY <2>2, DigitFacts
    <2> HIDE DEF a, b
    <2> DEFINE d == <<a, b>>
    <2>4. d \in Seq(Payload) /\ Len(d) = 2 /\ d[1] = a /\ d[2] = b
        BY <2>3
    <2>5. ChannelDigits(ch) = d
        BY <2>1
    <2> HIDE DEF d
    <2>6. \A i \in 1 .. Len(d) : Contains(Digit, d[i]) /\ d[i] # Separator
        BY <2>3, <2>4
    <2>7. ChannelNumber(d) = ch
        <3>1. ChannelNumber(d) = 10 * DigitValue(a) + DigitValue(b)
            BY <2>4, <2>6, ChannelNumberIs
        <3> QED
            BY <2>2, <2>3, <3>1
    <2>8. Len(d) \in 1 .. 2
        BY <2>4
    <2> QED
        BY <2>4, <2>5, <2>6, <2>7, <2>8
<1> QED
    BY <1>1, <1>2

-----------------------------------------------------------------------------
(* Decoding undoes encoding                                                *)

\* What the checksum is about, and what stands before the end of the message.
Content(ch, text) == ChannelDigits(ch) \o <<Separator>> \o text
Body(ch, text) == Content(ch, text) \o <<Separator, Checksum(Content(ch, text))>>

\* The characters of a body, by their places.
LEMMA BodyCharacters ==
    ASSUME NEW ch \in 0 .. 99, NEW text \in Seq(Payload)
    PROVE  LET digits == ChannelDigits(ch)
               content == Content(ch, text)
               body == Body(ch, text)
               d == Len(digits)
               t == Len(text)
           IN /\ d \in 1 .. 2 /\ t \in Nat
              /\ content \in Seq(Payload) /\ Len(content) = d + 1 + t
              /\ body \in Seq(Payload) /\ Len(body) = d + t + 3
              /\ \A i \in 1 .. d : body[i] = digits[i]
              /\ body[d + 1] = Separator
              /\ \A i \in 1 .. t : body[d + 1 + i] = text[i]
              /\ \A i \in 1 .. d + 1 + t : body[i] = content[i]
              /\ body[d + t + 2] = Separator
              /\ body[d + t + 3] = Checksum(content) /\ Checksum(content) # Separator
<1> DEFINE digits == ChannelDigits(ch)
           content == Content(ch, text)
           body == Body(ch, text)
           d == Len(digits)
           t == Len(text)
           s == <<Separator>>
           begun == digits \o s
           sum == Checksum(content)
           e == <<Separator, sum>>
<1>1. digits \in Seq(Payload) /\ d \in 1 .. 2 /\ t \in Nat
    <2>1. ChannelDigits(ch) \in Seq(Payload) /\ Len(ChannelDigits(ch)) \in 1 .. 2
        BY ChannelDigitsFit
    <2>2. t \in Nat
        OBVIOUS
    <2> QED
        BY <2>1, <2>2
<1>2. Separator \in Payload
    BY DEF Payload, Char, Separator, Terminator
<1>3. s \in Seq(Payload) /\ Len(s) = 1 /\ s[1] = Separator
    BY <1>2
<1>4. content = begun \o text
    BY DEF Content
<1>5. body = content \o e
    BY DEF Body
<1> HIDE DEF digits, content, body, s
<1>6. /\ begun \in Seq(Payload) /\ Len(begun) = d + 1
      /\ \A i \in 1 .. d : begun[i] = digits[i]
      /\ begun[d + 1] = Separator
    <2>1. begun \in Seq(Payload) /\ IsJoin(begun, digits, s)
        BY <1>1, <1>3, Joined
    <2> QED
        BY <1>1, <1>3, <2>1 DEF IsJoin
<1> HIDE DEF begun
<1>7. /\ content \in Seq(Payload) /\ Len(content) = d + 1 + t
      /\ \A i \in 1 .. d + 1 : content[i] = begun[i]
      /\ \A i \in 1 .. t : content[d + 1 + i] = text[i]
    <2>1. content \in Seq(Payload) /\ IsJoin(content, begun, text)
        BY <1>4, <1>6, Joined
    <2> QED
        BY <1>6, <2>1 DEF IsJoin
<1>8. sum \in Payload /\ sum # Separator
    <2>1. sum \in Sums
        BY <1>7, ChecksumType
    <2> HIDE DEF sum
    <2> QED
        BY <2>1, SumIsNoMark DEF Payload, Char
<1> HIDE DEF sum
<1>9. e \in Seq(Payload) /\ Len(e) = 2 /\ e[1] = Separator /\ e[2] = sum
    BY <1>2, <1>8
<1> HIDE DEF e
<1>10. /\ body \in Seq(Payload) /\ Len(body) = d + t + 3
       /\ \A i \in 1 .. d + 1 + t : body[i] = content[i]
       /\ body[d + t + 2] = Separator
       /\ body[d + t + 3] = sum
    <2>1. body \in Seq(Payload) /\ IsJoin(body, content, e)
        BY <1>5, <1>7, <1>9, Joined
    <2>2. body[Len(content) + 1] = e[1] /\ body[Len(content) + 2] = e[2]
        BY <1>9, <2>1 DEF IsJoin
    <2>3. /\ Len(content) + 1 = d + t + 2 /\ Len(content) + 2 = d + t + 3
        BY <1>1, <1>7
    <2> QED
        BY <1>7, <1>9, <2>1, <2>2, <2>3 DEF IsJoin
<1>11. /\ \A i \in 1 .. d : body[i] = digits[i]
       /\ body[d + 1] = Separator
       /\ \A i \in 1 .. t : body[d + 1 + i] = text[i]
    <2>1. /\ \A i \in 1 .. d : i \in 1 .. d + 1 /\ i \in 1 .. d + 1 + t
          /\ d + 1 \in 1 .. d + 1 /\ d + 1 \in 1 .. d + 1 + t
          /\ \A i \in 1 .. t : d + 1 + i \in 1 .. d + 1 + t
        BY <1>1
    <2> QED
        BY <1>6, <1>7, <1>10, <2>1
<1> QED
    BY <1>1, <1>7, <1>8, <1>10, <1>11 DEF digits, content, body, sum

\* What both decoders find in a body.
LEMMA BodySeparators ==
    ASSUME NEW ch \in 0 .. 99, NEW text \in Seq(Payload)
    PROVE  LET body == Body(ch, text)
               d == Len(ChannelDigits(ch))
           IN /\ Cardinality(Separators(body)) > 1
              /\ Min(Separators(body)) = d + 1
              /\ Max(Separators(body)) = d + Len(text) + 2
<1> DEFINE digits == ChannelDigits(ch)
           body == Body(ch, text)
           d == Len(digits)
           t == Len(text)
           S == Separators(body)
           low == d + 1
           high == d + t + 2
<1>1. /\ d \in 1 .. 2 /\ t \in Nat
      /\ body \in Seq(Payload) /\ Len(body) = d + t + 3
      /\ \A i \in 1 .. d : body[i] = digits[i]
      /\ body[low] = Separator /\ body[high] = Separator
      /\ body[d + t + 3] # Separator
    <2> HIDE DEF digits, body
    <2>1. /\ d \in 1 .. 2 /\ t \in Nat
          /\ body \in Seq(Payload) /\ Len(body) = d + t + 3
          /\ \A i \in 1 .. d : body[i] = digits[i]
          /\ body[d + 1] = Separator /\ body[d + t + 2] = Separator
          /\ body[d + t + 3] = Checksum(Content(ch, text)) /\ Checksum(Content(ch, text)) # Separator
        BY BodyCharacters DEF digits, body
    <2> QED
        BY <2>1
<1>2. \A i \in 1 .. d : digits[i] # Separator
    BY ChannelDigitsFit
<1> HIDE DEF digits, body, t
<1>3. DOMAIN body = 1 .. d + t + 3
    BY <1>1
<1>4. S = {i \in 1 .. d + t + 3 : body[i] = Separator}
    BY <1>3 DEF Separators
<1> HIDE DEF d, S
<1>5. low \in S /\ high \in S /\ low # high
    BY <1>1, <1>4
<1>6. \A i \in S : i \in Nat /\ low <= i /\ i <= high
    <2> SUFFICES ASSUME NEW i \in S
                 PROVE  i \in Nat /\ low <= i /\ i <= high
        OBVIOUS
    <2>1. i \in 1 .. d + t + 3 /\ body[i] = Separator
        BY <1>4
    <2>2. i \notin 1 .. d /\ i # d + t + 3
        BY <1>1, <1>2, <2>1 DEF d
    <2> QED
        BY <1>1, <2>1, <2>2
<1>7. Cardinality(S) > 1
    <2>1. IsFiniteSet(1 .. d + t + 3)
        BY <1>1, FS_Interval
    <2>2. IsFiniteSet(S)
        BY <1>4, <2>1, FS_Subset
    <2>3. IsFiniteSet({low}) /\ Cardinality({low}) = 1
        BY FS_Singleton
    <2>4. Cardinality({low} \cup {high}) = 2
        <3>1. high \notin {low}
            BY <1>5
        <3> HIDE DEF low, high
        <3>2. Cardinality({low} \cup {high}) = Cardinality({low}) + 1
            BY <2>3, <3>1, FS_AddElement
        <3> QED
            BY <2>3, <3>2
    <2>5. {low} \cup {high} \subseteq S
        BY <1>5
    <2>6. Cardinality({low} \cup {high}) <= Cardinality(S)
        BY <2>2, <2>5, FS_Subset
    <2>7. Cardinality(S) \in Nat
        BY <2>2, FS_CardinalityType
    <2> QED
        BY <2>4, <2>6, <2>7
<1>8. Min(S) = low
    BY <1>1, <1>5, <1>6 DEF Min
<1>9. Max(S) = high
    BY <1>1, <1>5, <1>6 DEF Max
<1> QED
    BY <1>7, <1>8, <1>9 DEF S, d, digits, body, t

\* Whatever is encoded is decoded again by the master, and by the slave if the text is not
\* empty and fits its buffer.
THEOREM DecodingUndoesEncoding ==
    ASSUME NEW ch \in 0 .. 99, NEW text \in Seq(Payload)
    PROVE  /\ Body(ch, text) \in Seq(Payload)
           /\ Encoded(ch, text) = Append(Body(ch, text), Terminator)
           /\ Decodable(Body(ch, text))
           /\ Decoded(Body(ch, text)) = [channel |-> ch, text |-> text]
           /\ DecodableInC(Body(ch, text)) <=> Len(text) \in 1 .. PayloadLength - 1
<1> DEFINE digits == ChannelDigits(ch)
           content == Content(ch, text)
           body == Body(ch, text)
           d == Len(digits)
           t == Len(text)
           S == Separators(body)
           sum == Checksum(content)
<1>1. /\ d \in 1 .. 2 /\ t \in Nat
      /\ content \in Seq(Payload) /\ Len(content) = d + 1 + t
      /\ body \in Seq(Payload) /\ Len(body) = d + t + 3
      /\ \A i \in 1 .. d : body[i] = digits[i]
      /\ \A i \in 1 .. t : body[d + 1 + i] = text[i]
      /\ \A i \in 1 .. d + 1 + t : body[i] = content[i]
      /\ body[d + t + 3] = sum
    BY BodyCharacters
<1>2. /\ digits \in Seq(Payload)
      /\ \A i \in 1 .. d : Contains(Digit, digits[i])
      /\ ChannelNumber(digits) = ch
    BY ChannelDigitsFit
<1>3. Cardinality(S) > 1 /\ Min(S) = d + 1 /\ Max(S) = d + t + 2
    BY BodySeparators
<1>4. Encoded(ch, text) = Append(body, Terminator)
    <2>1. Encoded(ch, text) = content \o <<Separator, sum, Terminator>>
        BY DEF Encoded, Content
    <2>2. body = content \o <<Separator, sum>>
        BY DEF Body
    <2>3. Terminator \in Char /\ Separator \in Char /\ sum \in Char
        <3>1. sum \in Sums
            BY <1>1, ChecksumType
        <3> QED
            BY <3>1 DEF Char
    <2>4. content \in Seq(Char)
        BY <1>1, SeqMonotonic DEF Payload
    <2> HIDE DEF content, body, sum
    <2>5. Append(content \o <<Separator, sum>>, Terminator)
            = content \o <<Separator, sum, Terminator>>
        BY <2>3, <2>4
    <2> QED
        BY <2>1, <2>2, <2>5
<1> HIDE DEF digits, content, body, S, sum, d, t
<1>5. SubSeq(body, 1, d) = digits
    <2> DEFINE u == SubSeq(body, 1, d)
    <2>1. \A i \in 1 .. d : body[i] \in Payload
        BY <1>1
    <2>2. u \in Seq(Payload) /\ Len(u) = d /\ \A i \in 1 .. d : u[i] = body[i]
        BY <1>1, <2>1, SubSeqProperties
    <2> HIDE DEF u
    <2> QED
        BY <1>1, <1>2, <2>2, SeqEqual DEF d, u
<1>6. SubSeq(body, 1, d + t + 1) = content
    <2> DEFINE u == SubSeq(body, 1, d + t + 1)
    <2>1. \A i \in 1 .. d + t + 1 : body[i] \in Payload
        BY <1>1
    <2>2. u \in Seq(Payload) /\ Len(u) = d + t + 1 /\ \A i \in 1 .. d + t + 1 : u[i] = body[i]
        BY <1>1, <2>1, SubSeqProperties
    <2> HIDE DEF u
    <2>3. Len(u) = Len(content) /\ \A i \in 1 .. Len(u) : u[i] = content[i]
        BY <1>1, <2>2
    <2> QED
        BY <1>1, <2>2, <2>3, SeqEqual DEF u
<1>7. SubSeq(body, d + 2, d + t + 1) = text
    <2> DEFINE u == SubSeq(body, d + 2, d + t + 1)
    <2>1. \A i \in d + 2 .. d + t + 1 : body[i] \in Payload
        BY <1>1
    <2>2. d + 2 \in Int /\ d + t + 1 \in Int
        BY <1>1
    <2>3. /\ u \in Seq(Payload)
          /\ Len(u) = IF d + 2 <= d + t + 1 THEN (d + t + 1) - (d + 2) + 1 ELSE 0
          /\ \A i \in 1 .. (d + t + 1) - (d + 2) + 1 : u[i] = body[(d + 2) + i - 1]
        BY <2>1, <2>2, SubSeqProperties
    <2>4. Len(u) = t /\ (d + t + 1) - (d + 2) + 1 = t /\ \A i \in 1 .. t : (d + 2) + i - 1 = d + 1 + i
        BY <1>1, <2>3
    <2> HIDE DEF u
    <2>5. \A i \in 1 .. t : u[i] = text[i]
        BY <1>1, <2>3, <2>4
    <2>6. Len(u) = Len(text) /\ \A i \in 1 .. Len(u) : u[i] = text[i]
        BY <2>4, <2>5 DEF t
    <2> QED
        BY <2>3, <2>6, SeqEqual DEF u
<1>8. Decodable(body)
    <2>1. \A i \in 1 .. Min(S) - 1 : Contains(Digit, body[i])
        <3>1. Min(S) - 1 = d
            BY <1>1, <1>3
        <3> QED
            BY <1>1, <1>2, <3>1
    <2>2. ChecksumFits(body)
        <3>1. Max(S) - 1 = d + t + 1
            BY <1>1, <1>3
        <3> QED
            BY <1>1, <1>6, <3>1 DEF ChecksumFits, S, sum
    <2>3. Min(S) > 1 /\ Max(S) = Len(body) - 1
        BY <1>1, <1>3
    <2> QED
        BY <1>3, <2>1, <2>2, <2>3 DEF Decodable, S
<1>9. Decoded(body) = [channel |-> ch, text |-> text]
    <2>1. Min(S) - 1 = d /\ Min(S) + 1 = d + 2 /\ Max(S) - 1 = d + t + 1
        BY <1>1, <1>3
    <2>2. Decoded(body) = [channel |-> ChannelNumber(SubSeq(body, 1, Min(S) - 1)),
                           text |-> SubSeq(body, Min(S) + 1, Max(S) - 1)]
        BY DEF Decoded, S
    <2> QED
        BY <1>2, <1>5, <1>7, <2>1, <2>2
<1>10. DecodableInC(body) <=> t \in 1 .. PayloadLength - 1
    <2>1. Min(S) <= CHANNEL_MAXBUF /\ Len(body) - 2 - Min(S) = t
        BY <1>1, <1>3 DEF CHANNEL_MAXBUF
    <2> QED
        BY <1>8, <2>1 DEF DecodableInC, S
<1> QED
    BY <1>1, <1>4, <1>8, <1>9, <1>10 DEF body, t

-----------------------------------------------------------------------------
(* Frames                                                                  *)

\* The bytes of some messages, one after the other.
Frames(messages, cipher) ==
    [i \in DOMAIN messages |-> OnWire(messages[i].channel, messages[i].text, cipher)]

Wire(messages, cipher) == FlattenSeq(Frames(messages, cipher))

\* A number of whole blocks.
Multiple(n) == \E q \in Nat : n = BlockSize * q

\* Two multiples are at least a block apart.
LEMMA MultiplesApart ==
    ASSUME NEW p \in Nat, NEW l \in Nat, Multiple(p), Multiple(l), p < l
    PROVE  p + BlockSize <= l /\ Multiple(p + BlockSize)
<1>1. BlockSize \in Nat /\ BlockSize > 0
    BY FramingAssumption DEF FramingAssumption
<1>2. PICK a \in Nat : p = BlockSize * a
    BY DEF Multiple
<1>3. PICK b \in Nat : l = BlockSize * b
    BY DEF Multiple
<1>4. p + BlockSize = BlockSize * (a + 1)
    BY <1>1, <1>2
<1>5. Multiple(p + BlockSize)
    BY <1>4 DEF Multiple
<1>6. a < b
    <2> SUFFICES ASSUME ~(a < b)
                 PROVE  FALSE
        OBVIOUS
    <2> DEFINE c == a - b
    <2>1. c \in Nat /\ a = b + c
        OBVIOUS
    <2> HIDE DEF c
    <2>2. BlockSize * a = BlockSize * b + BlockSize * c
        BY <1>1, <2>1
    <2>3. BlockSize * c >= 0
        BY <1>1, <2>1
    <2> QED
        BY <1>1, <1>2, <1>3, <2>1, <2>2, <2>3
<1>7. p + BlockSize <= l
    <2> DEFINE c == b - (a + 1)
    <2>1. c \in Nat /\ b = a + 1 + c
        BY <1>6
    <2> HIDE DEF c
    <2>2. BlockSize * b = BlockSize * (a + 1) + BlockSize * c
        BY <1>1, <2>1
    <2>3. BlockSize * c >= 0
        BY <1>1, <2>1
    <2>4. BlockSize * c \in Int /\ BlockSize * (a + 1) \in Int
        BY <1>1, <2>1
    <2> QED
        BY <1>3, <1>4, <2>2, <2>3, <2>4
<1> QED
    BY <1>5, <1>7

\* Padding fills the last block.
LEMMA PaddingFills ==
    ASSUME NEW n \in Nat
    PROVE  LET missing == (BlockSize - (n % BlockSize)) % BlockSize
           IN missing \in 0 .. BlockSize - 1 /\ Multiple(n + missing)
<1> DEFINE r == n % BlockSize
           q == n \div BlockSize
           missing == (BlockSize - r) % BlockSize
<1>1. BlockSize \in Nat /\ BlockSize > 0
    BY FramingAssumption DEF FramingAssumption
<1>2. r \in 0 .. BlockSize - 1
    BY <1>1
<1>3. q \in Nat /\ n = BlockSize * q + r
    <2>1. q \in Int
        BY <1>1
    <2>2. n = BlockSize * q + r
        BY <1>1
    <2>3. q \in Nat
        <3> SUFFICES ASSUME ~(q >= 0)
                     PROVE  FALSE
            BY <2>1
        <3> DEFINE c == (0 - q) - 1
        <3>1. c \in Nat /\ q = 0 - 1 - c
            BY <2>1
        <3> HIDE DEF c, q, r
        <3>2. BlockSize * q = 0 - BlockSize - BlockSize * c
            BY <1>1, <3>1
        <3>3. BlockSize * c >= 0 /\ BlockSize * c \in Int
            BY <1>1, <3>1
        <3> QED
            BY <1>1, <1>2, <2>2, <3>2, <3>3
    <2> QED
        BY <2>2, <2>3
<1> HIDE DEF r, q
<1>4. CASE r = 0
    <2>1. missing = 0
        <3>1. BlockSize % BlockSize = 0
            BY <1>1
        <3> QED
            BY <1>1, <1>4, <3>1
    <2>2. n + missing = BlockSize * q
        BY <1>1, <1>3, <1>4, <2>1
    <2> QED
        BY <1>1, <1>3, <2>1, <2>2 DEF Multiple, r
<1>5. CASE r # 0
    <2>1. BlockSize - r \in 1 .. BlockSize - 1
        BY <1>1, <1>2, <1>5
    <2>2. missing = BlockSize - r
        <3> DEFINE x == BlockSize - r
        <3> HIDE DEF x
        <3>1. x % BlockSize = x
            BY <1>1, <2>1 DEF x
        <3> QED
            BY <3>1 DEF x
    <2>3. n + missing = BlockSize * (q + 1)
        BY <1>1, <1>2, <1>3, <2>2
    <2>4. missing \in 0 .. BlockSize - 1
        BY <2>1, <2>2
    <2> QED
        BY <1>3, <2>3, <2>4 DEF Multiple, r
<1> QED
    BY <1>4, <1>5

\* A frame is a body, the terminator and, with a cipher, padding to the end of the block.
IsFrame(frame, ch, text, cipher) ==
    \E padding \in Seq({Noise}) :
        /\ frame = (Body(ch, text) \o <<Terminator>>) \o padding
        /\ ~cipher => padding = <<>>
        /\ cipher => Multiple(Len(frame)) /\ Len(padding) < BlockSize

\* What a message is on the wire is a frame.
LEMMA FrameType ==
    ASSUME NEW ch \in 0 .. 99, NEW text \in Seq(Payload), NEW cipher \in BOOLEAN
    PROVE  /\ OnWire(ch, text, cipher) \in Seq(Char)
           /\ IsFrame(OnWire(ch, text, cipher), ch, text, cipher)
<1> DEFINE body == Body(ch, text)
           bytes == Encoded(ch, text)
           frame == OnWire(ch, text, cipher)
<1>1. body \in Seq(Payload) /\ bytes = Append(body, Terminator)
    BY DecodingUndoesEncoding
<1>2. body \in Seq(Char)
    BY <1>1, SeqMonotonic DEF Payload
<1>3. Terminator \in Char /\ Noise \in Char
    BY DEF Char
<1> HIDE DEF body, bytes
<1>4. bytes = body \o <<Terminator>> /\ bytes \in Seq(Char)
    BY <1>1, <1>2, <1>3, AppendIsConcat
<1>5. CASE ~cipher
    <2>1. frame = bytes
        BY <1>5 DEF OnWire, bytes
    <2>2. <<>> \in Seq({Noise}) /\ bytes = bytes \o <<>>
        BY <1>4, ConcatEmptySeq
    <2> HIDE DEF frame
    <2>3. IsFrame(frame, ch, text, cipher)
        BY <1>4, <1>5, <2>1, <2>2 DEF IsFrame, body
    <2> QED
        BY <1>4, <2>1, <2>3 DEF frame
<1>6. CASE cipher
    <2> DEFINE missing == (BlockSize - (Len(bytes) % BlockSize)) % BlockSize
               padding == [i \in 1 .. missing |-> Noise]
    <2>1. frame = bytes \o padding
        BY <1>6 DEF OnWire, Padded, bytes
    <2>2. Len(bytes) \in Nat
        BY <1>4
    <2>3. missing \in 0 .. BlockSize - 1 /\ Multiple(Len(bytes) + missing)
        BY <2>2, PaddingFills
    <2> HIDE DEF missing, frame
    <2>4. missing \in Nat /\ missing < BlockSize
        BY <2>3, FramingAssumption DEF FramingAssumption
    <2>5. padding \in Seq({Noise}) /\ Len(padding) = missing
        BY <2>4
    <2> HIDE DEF padding
    <2>6. padding \in Seq(Char)
        BY <1>3, <2>5, SeqMonotonic
    <2>7. frame \in Seq(Char) /\ Len(frame) = Len(bytes) + missing
        BY <1>4, <2>1, <2>5, <2>6, ConcatProperties
    <2>8. IsFrame(frame, ch, text, cipher)
        BY <1>4, <1>6, <2>1, <2>3, <2>4, <2>5, <2>7 DEF IsFrame, body
    <2> QED
        BY <2>7, <2>8 DEF frame
<1> QED
    BY <1>5, <1>6

\* Messages are characters on the wire.
LEMMA WireType ==
    ASSUME NEW messages \in Seq(Message), NEW cipher \in BOOLEAN
    PROVE  /\ Frames(messages, cipher) \in Seq(Seq(Char))
           /\ Len(Frames(messages, cipher)) = Len(messages)
           /\ Wire(messages, cipher) \in Seq(Char)
<1> DEFINE fs == Frames(messages, cipher)
<1>1. DOMAIN messages = 1 .. Len(messages) /\ Len(messages) \in Nat
    OBVIOUS
<1>2. \A i \in 1 .. Len(messages) :
         OnWire(messages[i].channel, messages[i].text, cipher) \in Seq(Char)
    <2> SUFFICES ASSUME NEW i \in 1 .. Len(messages)
                 PROVE  OnWire(messages[i].channel, messages[i].text, cipher) \in Seq(Char)
        OBVIOUS
    <2>1. messages[i] \in Message
        OBVIOUS
    <2>2. messages[i].channel \in 0 .. 99 /\ messages[i].text \in Seq(Payload)
        BY <2>1 DEF Message
    <2> QED
        BY <2>2, FrameType
<1>3. fs \in Seq(Seq(Char)) /\ Len(fs) = Len(messages)
    BY <1>1, <1>2 DEF Frames
<1>4. Wire(messages, cipher) \in Seq(Char)
    BY <1>3, FlattenType DEF Wire
<1> QED
    BY <1>3, <1>4

\* No message, no bytes.
LEMMA WireEmpty == \A cipher : Wire(<<>>, cipher) = <<>>
<1> SUFFICES ASSUME NEW cipher
             PROVE  Wire(<<>>, cipher) = <<>>
    OBVIOUS
<1>1. Frames(<<>>, cipher) = <<>>
    BY DEF Frames
<1> QED
    BY <1>1, FlattenEmpty DEF Wire

\* More messages are more bytes.
LEMMA WireConcat ==
    ASSUME NEW ms \in Seq(Message), NEW ns \in Seq(Message), NEW cipher \in BOOLEAN
    PROVE  Wire(ms \o ns, cipher) = Wire(ms, cipher) \o Wire(ns, cipher)
<1> DEFINE all == ms \o ns
           f == Frames(ms, cipher)
           g == Frames(ns, cipher)
           h == Frames(all, cipher)
           u == f \o g
<1>1. all \in Seq(Message) /\ IsJoin(all, ms, ns)
    BY Joined
<1> HIDE DEF all
<1>2. /\ f \in Seq(Seq(Char)) /\ Len(f) = Len(ms)
      /\ g \in Seq(Seq(Char)) /\ Len(g) = Len(ns)
      /\ h \in Seq(Seq(Char)) /\ Len(h) = Len(all)
    BY <1>1, WireType
<1>3. /\ \A i \in 1 .. Len(ms) : f[i] = OnWire(ms[i].channel, ms[i].text, cipher)
      /\ \A i \in 1 .. Len(ns) : g[i] = OnWire(ns[i].channel, ns[i].text, cipher)
      /\ \A i \in 1 .. Len(all) : h[i] = OnWire(all[i].channel, all[i].text, cipher)
    BY <1>1 DEF Frames
<1> HIDE DEF f, g, h
<1>4. u \in Seq(Seq(Char)) /\ IsJoin(u, f, g)
    BY <1>2, Joined
<1> HIDE DEF u
<1>5. Len(h) = Len(u) /\ Len(ms) \in Nat /\ Len(ns) \in Nat
    BY <1>1, <1>2, <1>4 DEF IsJoin
<1>6. ASSUME NEW i \in 1 .. Len(h)
      PROVE  h[i] = u[i]
    <2>1. Len(h) = Len(ms) + Len(ns)
        BY <1>1, <1>2 DEF IsJoin
    <2>2. CASE i \in 1 .. Len(ms)
        <3>1. i \in 1 .. Len(all) /\ i \in 1 .. Len(f)
            BY <1>2, <2>2
        <3>2. all[i] = ms[i] /\ u[i] = f[i]
            BY <1>1, <1>4, <2>2, <3>1 DEF IsJoin
        <3> QED
            BY <1>3, <2>2, <3>1, <3>2
    <2>3. CASE ~(i \in 1 .. Len(ms))
        <3> DEFINE j == i - Len(ms)
        <3>1. j \in 1 .. Len(ns) /\ i = Len(ms) + j
            BY <1>5, <2>1, <2>3
        <3> HIDE DEF j
        <3>2. all[i] = ns[j] /\ u[i] = g[j]
            BY <1>1, <1>2, <1>4, <3>1 DEF IsJoin
        <3>3. i \in 1 .. Len(all)
            BY <1>2
        <3> QED
            BY <1>3, <3>1, <3>2, <3>3
    <2> QED
        BY <2>2, <2>3
<1>7. h = u
    BY <1>2, <1>4, <1>5, <1>6, SeqEqual
<1>8. FlattenSeq(u) = FlattenSeq(f) \o FlattenSeq(g)
    BY <1>2, FlattenConcat DEF u
<1> QED
    BY <1>7, <1>8 DEF Wire, f, g, h, all

\* The first message comes first.
LEMMA WireFirst ==
    ASSUME NEW ms \in Seq(Message), ms # <<>>, NEW cipher \in BOOLEAN
    PROVE  /\ Head(ms) \in Message /\ Tail(ms) \in Seq(Message)
           /\ ms = <<Head(ms)>> \o Tail(ms)
           /\ Wire(ms, cipher) = OnWire(Head(ms).channel, Head(ms).text, cipher)
                                   \o Wire(Tail(ms), cipher)
<1> DEFINE m == Head(ms)
           f == OnWire(m.channel, m.text, cipher)
<1>1. m \in Message /\ Tail(ms) \in Seq(Message) /\ ms = <<m>> \o Tail(ms)
    OBVIOUS
<1>2. m.channel \in 0 .. 99 /\ m.text \in Seq(Payload)
    BY <1>1 DEF Message
<1>3. f \in Seq(Char)
    BY <1>2, FrameType
<1> HIDE DEF m
<1>4. <<m>> \in Seq(Message)
    BY <1>1
<1>5. Frames(<<m>>, cipher) = <<f>>
    <2>1. DOMAIN <<m>> = 1 .. 1 /\ <<m>>[1] = m
        OBVIOUS
    <2>2. Frames(<<m>>, cipher) = [i \in 1 .. 1 |-> f]
        BY <2>1 DEF Frames
    <2> HIDE DEF f
    <2> QED
        BY <2>2
<1> HIDE DEF f
<1>6. FlattenSeq(<<f>>) = f
    <2>1. <<>> \in Seq(Seq(Char)) /\ <<f>> \o <<>> = <<f>> /\ f \o <<>> = f
        BY <1>3
    <2>2. FlattenSeq(<<f>> \o <<>>) = f \o FlattenSeq(<<>>)
        BY <1>3, <2>1, FlattenFirst
    <2> QED
        BY <2>1, <2>2, FlattenEmpty
<1>7. Wire(<<m>>, cipher) = f
    BY <1>5, <1>6 DEF Wire
<1>8. Wire(<<m>> \o Tail(ms), cipher) = f \o Wire(Tail(ms), cipher)
    BY <1>1, <1>4, <1>7, WireConcat
<1> QED
    BY <1>1, <1>8 DEF m, f

-----------------------------------------------------------------------------
(* Reading what has been sent                                              *)

\* Some of the messages sent have been read, and part of the next one; rest is under way.
Takes(messages, part0, rest, sent, cipher) ==
    /\ messages \in Seq(Message) /\ part0 \in Seq(Payload) /\ rest \in Seq(Char)
    /\ cipher => Multiple(Len(part0))
    /\ \E pending \in Seq(Message) :
          sent = messages \o pending /\ part0 \o rest = Wire(pending, cipher)

\* The end of a message is one character.
LEMMA TerminatorText == <<Terminator>> \in Seq(Char) /\ Len(<<Terminator>>) = 1
<1>1. Terminator \in Char
    BY DEF Char
<1> QED
    BY <1>1

\* A frame ends at its first terminator.
SameBytes(p, rest, body, tail) ==
    p \o (<<Terminator>> \o rest) = body \o (<<Terminator>> \o tail)

\* Where the first terminator is, the text ends.
LEMMA FirstTerminator ==
    ASSUME NEW p \in Seq(Payload), NEW body \in Seq(Payload),
           NEW rest \in Seq(Char), NEW tail \in Seq(Char), SameBytes(p, rest, body, tail)
    PROVE  p = body /\ rest = tail
<1> DEFINE s == <<Terminator>> \o rest
           t == <<Terminator>> \o tail
           u == p \o s
<1>1. p \in Seq(Char) /\ body \in Seq(Char)
    BY SeqMonotonic DEF Payload
<1>2. <<Terminator>> \in Seq(Char) /\ Len(<<Terminator>>) = 1
    BY TerminatorText
<1>3. /\ s \in Seq(Char) /\ Len(s) = 1 + Len(rest) /\ s[1] = Terminator
      /\ t \in Seq(Char) /\ Len(t) = 1 + Len(tail) /\ t[1] = Terminator
    <2> DEFINE e == <<Terminator>>
    <2>1. e \in Seq(Char) /\ Len(e) = 1 /\ e[1] = Terminator
        BY <1>2
    <2> HIDE DEF e
    <2>2. e \o rest \in Seq(Char) /\ IsJoin(e \o rest, e, rest)
        BY <2>1, Joined
    <2>3. e \o tail \in Seq(Char) /\ IsJoin(e \o tail, e, tail)
        BY <2>1, Joined
    <2>4. s = e \o rest /\ t = e \o tail
        BY DEF e
    <2> HIDE DEF s, t
    <2> QED
        BY <2>1, <2>2, <2>3, <2>4 DEF IsJoin
<1>4. u = body \o t
    BY DEF SameBytes
<1> HIDE DEF s, t
<1>5. u \in Seq(Char) /\ IsJoin(u, p, s)
    BY <1>1, <1>3, Joined
<1>6. IsJoin(u, body, t)
    BY <1>1, <1>3, <1>4, Joined
<1> HIDE DEF u
<1>7. /\ \A i \in 1 .. Len(p) : p[i] # Terminator
      /\ \A i \in 1 .. Len(body) : body[i] # Terminator
    BY DEF Payload
<1>8. Len(p) \in Nat /\ Len(body) \in Nat /\ Len(s) \in Nat \ {0} /\ Len(t) \in Nat \ {0}
    BY <1>3
<1>9. ~(Len(p) < Len(body))
    <2> SUFFICES ASSUME Len(p) < Len(body)
                 PROVE  FALSE
        OBVIOUS
    <2>1. 1 \in 1 .. Len(s) /\ Len(p) + 1 \in 1 .. Len(body)
        BY <1>8
    <2>2. u[Len(p) + 1] = s[1] /\ u[Len(p) + 1] = body[Len(p) + 1]
        BY <1>5, <1>6, <2>1 DEF IsJoin
    <2> QED
        BY <1>3, <1>7, <2>1, <2>2
<1>10. ~(Len(body) < Len(p))
    <2> SUFFICES ASSUME Len(body) < Len(p)
                 PROVE  FALSE
        OBVIOUS
    <2>1. 1 \in 1 .. Len(t) /\ Len(body) + 1 \in 1 .. Len(p)
        BY <1>8
    <2>2. u[Len(body) + 1] = t[1] /\ u[Len(body) + 1] = p[Len(body) + 1]
        BY <1>5, <1>6, <2>1 DEF IsJoin
    <2> QED
        BY <1>3, <1>7, <2>1, <2>2
<1>11. Len(p) = Len(body)
    BY <1>8, <1>9, <1>10
<1>12. p = body
    <2>1. \A i \in 1 .. Len(p) : p[i] = body[i]
        BY <1>5, <1>6, <1>11 DEF IsJoin
    <2> QED
        BY <1>11, <2>1, SeqEqual
<1>13. s = t
    BY <1>1, <1>3, <1>4, <1>12, ConcatSimplifications DEF u
<1>14. rest = tail
    BY <1>2, <1>13, ConcatSimplifications DEF s, t
<1> QED
    BY <1>12, <1>14

\* The first of the messages sent is read when its terminator comes.
LEMMA FirstTaken ==
    ASSUME NEW p \in Seq(Payload), NEW rest \in Seq(Char), NEW pending \in Seq(Message),
           p \o (<<Terminator>> \o rest) = Wire(pending, FALSE)
    PROVE  /\ pending # <<>> /\ Decodable(p) /\ Decoded(p) = Head(pending)
           /\ p = Body(Head(pending).channel, Head(pending).text)
           /\ rest = Wire(Tail(pending), FALSE)
<1> DEFINE m == Head(pending)
           body == Body(m.channel, m.text)
           tail == Wire(Tail(pending), FALSE)
           u == p \o (<<Terminator>> \o rest)
<1>1. <<Terminator>> \in Seq(Char) /\ Len(<<Terminator>>) = 1
    BY TerminatorText
<1>2. pending # <<>>
    <2> SUFFICES ASSUME pending = <<>>
                 PROVE  FALSE
        OBVIOUS
    <2>1. u = <<>>
        BY WireEmpty
    <2>2. p \in Seq(Char) /\ <<Terminator>> \o rest \in Seq(Char)
        BY <1>1, SeqMonotonic DEF Payload
    <2>3. <<Terminator>> \o rest = <<>>
        BY <2>1, <2>2, ConcatSimplifications
    <2>4. <<Terminator>> = <<>>
        BY <1>1, <2>3, ConcatSimplifications
    <2> QED
        BY <1>1, <2>4
<1>3. /\ m \in Message /\ Tail(pending) \in Seq(Message)
      /\ Wire(pending, FALSE) = OnWire(m.channel, m.text, FALSE) \o tail
    BY <1>2, WireFirst
<1>4. m.channel \in 0 .. 99 /\ m.text \in Seq(Payload)
      /\ m = [channel |-> m.channel, text |-> m.text]
    BY <1>3 DEF Message
<1>5. tail \in Seq(Char)
    BY <1>3, WireType
<1>6. body \in Seq(Payload) /\ Decodable(body) /\ Decoded(body) = m
    BY <1>4, DecodingUndoesEncoding
<1>7. OnWire(m.channel, m.text, FALSE) = body \o <<Terminator>>
    <2> HIDE DEF m
    <2>1. IsFrame(OnWire(m.channel, m.text, FALSE), m.channel, m.text, FALSE)
        BY <1>4, FrameType
    <2>2. body \o <<Terminator>> \in Seq(Char)
        BY <1>1, <1>6, SeqMonotonic DEF Payload
    <2>3. (body \o <<Terminator>>) \o <<>> = body \o <<Terminator>>
        BY <2>2, ConcatEmptySeq
    <2> QED
        BY <2>1, <2>3 DEF IsFrame
<1> HIDE DEF m, body, tail
<1>8. body \in Seq(Char)
    BY <1>6, SeqMonotonic DEF Payload
<1>9. (body \o <<Terminator>>) \o tail = body \o (<<Terminator>> \o tail)
    BY <1>1, <1>5, <1>8, ConcatAssociative
<1>10. SameBytes(p, rest, body, tail)
    BY <1>3, <1>7, <1>9 DEF SameBytes
<1>11. p = body /\ rest = tail
    BY <1>5, <1>6, <1>10, FirstTerminator
<1> QED
    BY <1>2, <1>6, <1>11 DEF m, body, tail

\* One byte more is read in the clear.
LEMMA ByteTaken ==
    ASSUME NEW messages, NEW p, NEW b \in Char, NEW rest, NEW sent,
           rest \in Seq(Char), Takes(messages, p, <<b>> \o rest, sent, FALSE)
    PROVE  LET read == Processed([part |-> p, messages |-> messages], b)
           IN Takes(read.messages, read.part, rest, sent, FALSE)
<1> DEFINE read == Processed([part |-> p, messages |-> messages], b)
<1>1. messages \in Seq(Message) /\ p \in Seq(Payload)
    BY DEF Takes
<1>2. PICK pending \in Seq(Message) :
         sent = messages \o pending /\ p \o (<<b>> \o rest) = Wire(pending, FALSE)
    BY DEF Takes
<1>3. CASE b # Terminator
    <2>1. b \in Payload
        BY <1>3 DEF Payload
    <2>2. read.part = Append(p, b) /\ read.messages = messages
        BY <1>3 DEF Processed
    <2>3. Append(p, b) \in Seq(Payload) /\ Append(p, b) = p \o <<b>>
        BY <1>1, <2>1, AppendIsConcat
    <2>4. p \in Seq(Char) /\ <<b>> \in Seq(Char)
        BY <1>1, SeqMonotonic DEF Payload
    <2>5. (p \o <<b>>) \o rest = p \o (<<b>> \o rest)
        BY <2>4, ConcatAssociative
    <2> DEFINE q == Append(p, b)
    <2>6. q \o rest = Wire(pending, FALSE)
        BY <1>2, <2>3, <2>5
    <2> HIDE DEF q
    <2>7. Takes(messages, q, rest, sent, FALSE)
        BY <1>1, <1>2, <2>3, <2>6 DEF Takes, q
    <2> QED
        BY <2>2, <2>7 DEF q
<1>4. CASE b = Terminator
    <2>1. p \o (<<Terminator>> \o rest) = Wire(pending, FALSE)
        BY <1>2, <1>4
    <2>2. /\ pending # <<>> /\ Decodable(p) /\ Decoded(p) = Head(pending)
          /\ rest = Wire(Tail(pending), FALSE)
        BY <1>1, <2>1, FirstTaken
    <2>3. read.part = <<>> /\ read.messages = Append(messages, Head(pending))
        BY <1>4, <2>2 DEF Processed
    <2>4. /\ Head(pending) \in Message /\ Tail(pending) \in Seq(Message)
          /\ pending = <<Head(pending)>> \o Tail(pending)
        BY <2>2, WireFirst
    <2> DEFINE m == Head(pending)
               others == Tail(pending)
    <2>5. <<m>> \in Seq(Message) /\ Append(messages, m) = messages \o <<m>>
          /\ Append(messages, m) \in Seq(Message)
        BY <1>1, <2>4, AppendIsConcat
    <2> HIDE DEF m, others
    <2>6. sent = Append(messages, m) \o others
        <3>1. messages \o (<<m>> \o others) = (messages \o <<m>>) \o others
            BY <1>1, <2>4, <2>5, ConcatAssociative DEF others
        <3> QED
            BY <1>2, <2>4, <2>5, <3>1 DEF m, others
    <2>7. <<>> \in Seq(Payload) /\ <<>> \o rest = Wire(others, FALSE)
        <3>1. <<>> \o rest = rest
            BY ConcatEmptySeq
        <3> QED
            BY <2>2, <3>1 DEF others
    <2>8. others \in Seq(Message)
        BY <2>4 DEF others
    <2> DEFINE more == Append(messages, m)
    <2>9. more \in Seq(Message) /\ sent = more \o others
        BY <2>5, <2>6
    <2>10. read.part = <<>> /\ read.messages = more
        BY <2>3 DEF m
    <2> HIDE DEF more
    <2>11. Takes(more, <<>>, rest, sent, FALSE)
        BY <2>7, <2>8, <2>9 DEF Takes
    <2> QED
        BY <2>10, <2>11
<1> QED
    BY <1>3, <1>4

\* The part of a sequence behind a place begins with the element at the next place.
LEMMA NextElement ==
    ASSUME NEW S, NEW s \in Seq(S), NEW n \in Nat, n < Len(s)
    PROVE  /\ s[n + 1] \in S
           /\ SubSeq(s, n + 1, Len(s)) = <<s[n + 1]>> \o SubSeq(s, (n + 1) + 1, Len(s))
           /\ SubSeq(s, (n + 1) + 1, Len(s)) \in Seq(S)
<1>1. n + 1 \in 1 .. Len(s) /\ Len(s) \in n + 1 .. Len(s) /\ Len(s) \in Nat
    OBVIOUS
<1>2. SubSeq(s, n + 1, Len(s)) = <<s[n + 1]>> \o SubSeq(s, (n + 1) + 1, Len(s))
    BY <1>1, SubSeqRecursiveFirst
<1>3. SubSeq(s, (n + 1) + 1, Len(s)) \in Seq(S)
    <2>1. \A i \in (n + 1) + 1 .. Len(s) : s[i] \in S
        BY <1>1
    <2>2. (n + 1) + 1 \in Int /\ Len(s) \in Int
        BY <1>1
    <2> QED
        BY <2>1, <2>2, SubSeqProperties
<1> QED
    BY <1>1, <1>2, <1>3

\* What a chunk of bytes makes of the part that has been read, one byte after the other.
IsRead(f, p, chunk) ==
    /\ f[0] = [part |-> p, messages |-> <<>>]
    /\ \A n \in 1 .. Len(chunk) : f[n] = Processed(f[n - 1], chunk[n])
    /\ f[Len(chunk)] = ProcessClear(p, chunk)

\* There is the function that processing a chunk in the clear defines.
LEMMA ReadSteps ==
    ASSUME NEW p \in Seq(Payload), NEW chunk \in Seq(Char)
    PROVE  \E f : IsRead(f, p, chunk)
<1> DEFINE N == Len(chunk)
           start == [part |-> p, messages |-> <<>>]
           A == [part : Seq(Payload), messages : Seq({Decoded(x) : x \in Seq(Payload)})]
           step == [n \in 1 .. N |-> [s \in A |-> Processed(s, chunk[n])]]
           Reads(f) == f = [n \in 0 .. N |-> IF n = 0 THEN start ELSE Processed(f[n - 1], chunk[n])]
           read == CHOOSE f : Reads(f)
<1>1. ProcessClear(p, chunk) = read[N]
    BY DEF ProcessClear
<1>2. N \in Nat
    OBVIOUS
<1> HIDE DEF read, step
<1>3. start \in A
    OBVIOUS
<1>4. \A s \in A, n \in 1 .. N : Processed(s, chunk[n]) \in A
    <2> SUFFICES ASSUME NEW s \in A, NEW n \in 1 .. N
                 PROVE  Processed(s, chunk[n]) \in A
        OBVIOUS
    <2> DEFINE b == chunk[n]
    <2>1. b \in Char /\ s.part \in Seq(Payload)
          /\ s.messages \in Seq({Decoded(x) : x \in Seq(Payload)})
        OBVIOUS
    <2> HIDE DEF b
    <2>2. CASE b # Terminator
        <3>1. Append(s.part, b) \in Seq(Payload)
            BY <2>1, <2>2 DEF Payload
        <3> QED
            BY <2>1, <2>2, <3>1 DEF Processed, b
    <2>3. CASE b = Terminator
        <3>1. /\ Append(s.messages, Decoded(s.part)) \in Seq({Decoded(x) : x \in Seq(Payload)})
              /\ <<>> \in Seq(Payload)
            BY <2>1
        <3> QED
            BY <2>1, <2>3, <3>1 DEF Processed, b
    <2> QED
        BY <2>2, <2>3
<1> HIDE DEF A, start, N
<1>5. step \in [1 .. N -> [A -> A]]
    BY <1>4 DEF step
<1>6. PICK f : Recursive(f, A, start, N, step)
    BY <1>2, <1>3, <1>5, Recursion
<1>7. f \in [0 .. N -> A] /\ f[0] = start /\ \A n \in 1 .. N : f[n] = step[n][f[n - 1]]
    BY <1>6 DEF Recursive
<1>8. \A n \in 1 .. N : f[n] = Processed(f[n - 1], chunk[n])
    <2> SUFFICES ASSUME NEW n \in 1 .. N
                 PROVE  f[n] = Processed(f[n - 1], chunk[n])
        OBVIOUS
    <2>1. n - 1 \in 0 .. N
        BY <1>2
    <2>2. f[n - 1] \in A
        BY <1>7, <2>1
    <2>3. step[n][f[n - 1]] = Processed(f[n - 1], chunk[n])
        BY <2>2 DEF step
    <2> QED
        BY <1>7, <2>3
<1>9. Reads(f)
    <2>1. f = [n \in 0 .. N |-> f[n]]
        BY <1>7
    <2>2. \A n \in 0 .. N : f[n] = IF n = 0 THEN start ELSE Processed(f[n - 1], chunk[n])
        BY <1>2, <1>7, <1>8
    <2> QED
        BY <2>1, <2>2
<1>10. Reads(read)
    <2> HIDE DEF Reads
    <2> QED
        BY <1>9 DEF read
<1>11. \A n \in 0 .. N : read[n] = IF n = 0 THEN start ELSE Processed(read[n - 1], chunk[n])
    BY <1>10
<1>12. read[0] = start /\ \A n \in 1 .. N : read[n] = Processed(read[n - 1], chunk[n])
    BY <1>2, <1>11
<1>13. IsRead(read, p, chunk)
    BY <1>1, <1>12 DEF IsRead, start, N
<1> QED
    BY <1>13

\* And so is a chunk of bytes.
LEMMA ChunkTaken ==
    ASSUME NEW p, NEW chunk \in Seq(Char), NEW rest \in Seq(Char), NEW sent,
           Takes(<<>>, p, chunk \o rest, sent, FALSE)
    PROVE  LET read == ProcessClear(p, chunk)
           IN Takes(read.messages, read.part, rest, sent, FALSE)
<1> DEFINE N == Len(chunk)
           Left(n) == SubSeq(chunk, n + 1, N)
<1>1. N \in Nat
    OBVIOUS
<1>2. p \in Seq(Payload)
    BY DEF Takes
<1>3. PICK f : IsRead(f, p, chunk)
    BY <1>2, ReadSteps
<1>4. /\ f[0] = [part |-> p, messages |-> <<>>]
      /\ \A n \in 1 .. N : f[n] = Processed(f[n - 1], chunk[n])
      /\ f[N] = ProcessClear(p, chunk)
    BY <1>3 DEF IsRead
<1> HIDE DEF N
<1> DEFINE Good(n) == /\ f[n] = [part |-> f[n].part, messages |-> f[n].messages]
                      /\ Takes(f[n].messages, f[n].part, Left(n) \o rest, sent, FALSE)
           S == {n \in Nat : Good(n)}
<1>5. 0 \in S
    <2>1. Left(0) = chunk
        BY SubSeqFull DEF N
    <2> HIDE DEF Left
    <2>2. f[0].part = p /\ f[0].messages = <<>>
        BY <1>4
    <2>3. Good(0)
        BY <1>4, <2>1, <2>2
    <2> HIDE DEF Good
    <2> QED
        BY <2>3
<1>6. ASSUME NEW n \in Nat, n < N, n \in S
      PROVE  n + 1 \in S
    <2> DEFINE b == chunk[n + 1]
               read == Processed(f[n], b)
    <2>1. b \in Char /\ Left(n) = <<b>> \o Left(n + 1) /\ Left(n + 1) \in Seq(Char)
        BY <1>6, NextElement DEF N
    <2>2. n + 1 \in 1 .. N /\ (n + 1) - 1 = n
        BY <1>1, <1>6
    <2>3. f[n + 1] = read
        BY <1>4, <2>2
    <2> HIDE DEF b, Left
    <2>4. <<b>> \in Seq(Char)
        BY <2>1
    <2>5. Left(n) \o rest = <<b>> \o (Left(n + 1) \o rest)
        BY <2>1, <2>4, ConcatAssociative
    <2>6. Left(n + 1) \o rest \in Seq(Char)
        BY <2>1
    <2>7. /\ f[n] = [part |-> f[n].part, messages |-> f[n].messages]
          /\ Takes(f[n].messages, f[n].part, <<b>> \o (Left(n + 1) \o rest), sent, FALSE)
        BY <1>6, <2>5
    <2>8. Takes(read.messages, read.part, Left(n + 1) \o rest, sent, FALSE)
        BY <2>1, <2>6, <2>7, ByteTaken
    <2>9. read = [part |-> read.part, messages |-> read.messages]
        BY DEF Processed
    <2> HIDE DEF read
    <2>10. Good(n + 1)
        BY <2>3, <2>8, <2>9
    <2> HIDE DEF Good
    <2> QED
        BY <2>10
<1>7. 0 .. N \subseteq S
    <2> HIDE DEF S
    <2> QED
        BY <1>1, <1>5, <1>6, Induction
<1>8. Good(N)
    <2>1. N \in 0 .. N
        BY <1>1
    <2> HIDE DEF Good
    <2> QED
        BY <1>7, <2>1
<1>9. Left(N) \o rest = rest
    <2>1. Left(N) = <<>>
        BY <1>1, SubSeqEmpty
    <2> HIDE DEF Left
    <2> QED
        BY <2>1, ConcatEmptySeq
<1> HIDE DEF Left
<1> QED
    BY <1>4, <1>8, <1>9

-----------------------------------------------------------------------------
(* Reading blocks                                                          *)

\* Packaged for the lemmas that have the equation as a hypothesis.
Regrouped(s, t, u) == (s \o t) \o u = s \o (t \o u)

\* Appending is associative.
LEMMA Regroup ==
    ASSUME NEW S, NEW s \in Seq(S), NEW t \in Seq(S), NEW u \in Seq(S)
    PROVE  Regrouped(s, t, u)
    BY ConcatAssociative DEF Regrouped

\* Two streams with beginnings of the same length.
SameStream(q, rest, f, g) == q \o rest = f \o g

\* Equal streams have equal beginnings of equal length.
LEMMA SameBeginnings ==
    ASSUME NEW S, NEW q \in Seq(S), NEW rest \in Seq(S), NEW f \in Seq(S), NEW g \in Seq(S),
           Len(q) = Len(f), SameStream(q, rest, f, g)
    PROVE  q = f /\ rest = g
<1> DEFINE u == q \o rest
<1>1. IsJoin(u, q, rest)
    BY Joined
<1>2. IsJoin(u, f, g)
    BY Joined DEF SameStream
<1>3. \A i \in 1 .. Len(q) : q[i] = f[i]
    BY <1>1, <1>2 DEF IsJoin
<1>4. q = f
    BY <1>3, SeqEqual
<1>5. q \o rest = q \o g
    BY <1>4 DEF SameStream
<1>6. rest = g
    BY <1>5, ConcatSimplifications
<1> QED
    BY <1>4, <1>6

\* Where the terminator of a frame is.
EndsBody(frame, body, padding) == frame = (body \o <<Terminator>>) \o padding

\* Where the characters of an enciphered frame are.
LEMMA FramePlaces ==
    ASSUME NEW body \in Seq(Payload), NEW padding \in Seq(Char), NEW frame,
           EndsBody(frame, body, padding)
    PROVE  /\ frame \in Seq(Char) /\ Len(frame) = Len(body) + 1 + Len(padding)
           /\ \A i \in 1 .. Len(body) : frame[i] = body[i] /\ frame[i] # Terminator
           /\ frame[Len(body) + 1] = Terminator
           /\ Part(frame) = body
<1> DEFINE e == <<Terminator>>
           begun == body \o e
           k == Len(body) + 1
<1>1. body \in Seq(Char)
    BY SeqMonotonic DEF Payload
<1>2. e \in Seq(Char) /\ Len(e) = 1 /\ e[1] = Terminator
    BY TerminatorText
<1>3. frame = begun \o padding /\ Len(body) \in Nat /\ Len(padding) \in Nat
    BY DEF EndsBody
<1> HIDE DEF e
<1>4. begun \in Seq(Char) /\ IsJoin(begun, body, e)
    BY <1>1, <1>2, Joined
<1> HIDE DEF begun
<1>5. frame \in Seq(Char) /\ IsJoin(frame, begun, padding)
    BY <1>3, <1>4, Joined
<1>6. Len(begun) = k /\ begun[k] = Terminator /\ \A i \in 1 .. Len(body) : begun[i] = body[i]
    BY <1>2, <1>3, <1>4 DEF IsJoin
<1>7. /\ Len(frame) = k + Len(padding)
      /\ frame[k] = Terminator
      /\ \A i \in 1 .. Len(body) : frame[i] = body[i]
    <2>1. k \in 1 .. Len(begun) /\ \A i \in 1 .. Len(body) : i \in 1 .. Len(begun)
        BY <1>3, <1>6
    <2> QED
        BY <1>5, <1>6, <2>1 DEF IsJoin
<1>8. \A i \in 1 .. Len(body) : body[i] # Terminator /\ body[i] \in Char
    BY DEF Payload
<1>9. SelectInSeq(frame, LAMBDA c : c = Terminator) = k
    <2> DEFINE I == {i \in 1 .. Len(frame) : frame[i] = Terminator}
    <2>1. k \in I
        BY <1>3, <1>7
    <2>2. \A i \in I : k <= i
        <3> SUFFICES ASSUME NEW i \in I
                     PROVE  k <= i
            OBVIOUS
        <3>1. i \in Nat /\ i >= 1 /\ frame[i] = Terminator
            BY <1>3, <1>7
        <3>2. i \notin 1 .. Len(body)
            BY <1>7, <1>8, <3>1
        <3> QED
            BY <1>3, <3>1, <3>2
    <2>3. SelectInSeq(frame, LAMBDA c : c = Terminator) = Min(I)
        BY <2>1 DEF SelectInSeq
    <2>4. I \subseteq Nat
        BY <1>3, <1>7
    <2> HIDE DEF I, k
    <2>5. Min(I) = k
        <3>1. \A i \in I : (\A j \in I : i <= j) => i = k
            BY <2>1, <2>2, <2>4
        <3> QED
            BY <2>1, <2>2, <3>1 DEF Min
    <2> QED
        BY <2>3, <2>5
<1>10. Part(frame) = body
    <2> DEFINE x == SubSeq(frame, 1, Len(body))
    <2>1. Part(frame) = x
        <3>1. k - 1 = Len(body)
            BY <1>3
        <3> QED
            BY <1>9, <3>1 DEF Part
    <2>2. Len(body) \in 0 .. Len(frame)
        BY <1>3, <1>7
    <2>3. x \in Seq(Char) /\ IsBeginning(x, frame, Len(body))
        BY <1>5, <2>2, Beginning
    <2> HIDE DEF x
    <2>4. Len(x) = Len(body) /\ \A i \in 1 .. Len(x) : x[i] = body[i]
        BY <1>7, <2>3 DEF IsBeginning
    <2>5. x = body
        BY <1>1, <2>3, <2>4, SeqEqual
    <2> QED
        BY <2>1, <2>5
<1> QED
    BY <1>5, <1>7, <1>8, <1>10

\* What is known of the message whose blocks are being read.
IsFirst(pending, m, body, padding) ==
    /\ pending # <<>> /\ m = Head(pending) /\ body = Body(m.channel, m.text)
    /\ m \in Message /\ Tail(pending) \in Seq(Message) /\ pending = <<m>> \o Tail(pending)
    /\ body \in Seq(Payload) /\ Decodable(body) /\ Decoded(body) = m
    /\ padding \in Seq(Char) /\ Len(padding) < BlockSize
    /\ EndsBody(OnWire(m.channel, m.text, TRUE), body, padding)
    /\ Multiple(Len(OnWire(m.channel, m.text, TRUE)))
    /\ Wire(pending, TRUE) = OnWire(m.channel, m.text, TRUE) \o Wire(Tail(pending), TRUE)

\* The first of the messages that wait has a frame in whole blocks.
LEMMA FirstFrame ==
    ASSUME NEW pending \in Seq(Message), pending # <<>>
    PROVE  \E m, body, padding : IsFirst(pending, m, body, padding)
<1> DEFINE m == Head(pending)
           body == Body(m.channel, m.text)
           frame == OnWire(m.channel, m.text, TRUE)
<1>1. /\ m \in Message /\ Tail(pending) \in Seq(Message) /\ pending = <<m>> \o Tail(pending)
      /\ Wire(pending, TRUE) = frame \o Wire(Tail(pending), TRUE)
    BY WireFirst
<1>2. m.channel \in 0 .. 99 /\ m.text \in Seq(Payload)
      /\ m = [channel |-> m.channel, text |-> m.text]
    BY <1>1 DEF Message
<1>3. body \in Seq(Payload) /\ Decodable(body) /\ Decoded(body) = m
    BY <1>2, DecodingUndoesEncoding
<1> HIDE DEF m
<1>4. IsFrame(frame, m.channel, m.text, TRUE)
    BY <1>2, FrameType
<1> HIDE DEF frame
<1>5. PICK padding \in Seq({Noise}) :
         /\ frame = (body \o <<Terminator>>) \o padding
         /\ Multiple(Len(frame)) /\ Len(padding) < BlockSize
    BY <1>4 DEF IsFrame
<1>6. padding \in Seq(Char)
    <2>1. {Noise} \subseteq Char
        BY DEF Char
    <2> QED
        BY <2>1, SeqMonotonic
<1> HIDE DEF body
<1>7. IsFirst(pending, m, body, padding)
    BY <1>1, <1>3, <1>5, <1>6 DEF IsFirst, EndsBody, m, body, frame
<1> QED
    BY <1>7

\* Whole blocks of a message without a terminator are followed by another block of it.
LEMMA BlockAhead ==
    ASSUME NEW p \in Seq(Payload), Multiple(Len(p)), NEW x \in Seq(Char), x # <<>>,
           NEW pending \in Seq(Message), p \o x = Wire(pending, TRUE)
    PROVE  /\ pending # <<>>
           /\ LET frame == OnWire(Head(pending).channel, Head(pending).text, TRUE)
              IN /\ Len(p) + BlockSize <= Len(frame)
                 /\ Len(p) <= Len(Body(Head(pending).channel, Head(pending).text))
<1> DEFINE u == p \o x
<1>1. p \in Seq(Char)
    BY SeqMonotonic DEF Payload
<1>2. u \in Seq(Char) /\ IsJoin(u, p, x)
    BY <1>1, Joined
<1>3. pending # <<>>
    <2> SUFFICES ASSUME pending = <<>>
                 PROVE  FALSE
        OBVIOUS
    <2>1. p \o x = <<>>
        BY WireEmpty
    <2> QED
        BY <1>1, <2>1, ConcatSimplifications
<1>4. PICK m, body, padding : IsFirst(pending, m, body, padding)
    BY <1>3, FirstFrame
<1> DEFINE frame == OnWire(m.channel, m.text, TRUE)
           tail == Wire(Tail(pending), TRUE)
<1>5. /\ m = Head(pending) /\ body = Body(m.channel, m.text)
      /\ Tail(pending) \in Seq(Message) /\ body \in Seq(Payload) /\ padding \in Seq(Char)
      /\ EndsBody(frame, body, padding)
      /\ Multiple(Len(frame)) /\ u = frame \o tail
    BY <1>4 DEF IsFirst
<1>6. tail \in Seq(Char)
    BY <1>5, WireType
<1> HIDE DEF frame, tail, u
<1>7. /\ frame \in Seq(Char) /\ Len(frame) = Len(body) + 1 + Len(padding)
      /\ frame[Len(body) + 1] = Terminator
    BY <1>5, FramePlaces
<1>8. IsJoin(u, frame, tail)
    BY <1>5, <1>6, <1>7, Joined
<1>9. Len(p) \in Nat /\ Len(body) \in Nat /\ Len(padding) \in Nat /\ Len(frame) \in Nat
    BY <1>5, <1>7
<1>10. ~(Len(body) + 1 <= Len(p))
    <2> SUFFICES ASSUME Len(body) + 1 <= Len(p)
                 PROVE  FALSE
        OBVIOUS
    <2>1. Len(body) + 1 \in 1 .. Len(p) /\ Len(body) + 1 \in 1 .. Len(frame)
        BY <1>7, <1>9
    <2>2. p[Len(body) + 1] = Terminator
        BY <1>2, <1>7, <1>8, <2>1 DEF IsJoin
    <2>3. p[Len(body) + 1] \in Payload
        BY <2>1
    <2> QED
        BY <2>2, <2>3 DEF Payload
<1>11. Len(p) <= Len(body) /\ Len(p) < Len(frame)
    BY <1>7, <1>9, <1>10
<1>12. Len(p) + BlockSize <= Len(frame)
    BY <1>5, <1>9, <1>11, MultiplesApart
<1> QED
    BY <1>3, <1>5, <1>11, <1>12 DEF frame

\* What has been read of whole blocks and what is still to come are the messages on the wire.
InBlocks(p, block, rest, pending) == p \o (block \o rest) = Wire(pending, TRUE)

\* A block with a terminator is the last one of its message.
LEMMA LastBlock ==
    ASSUME NEW p \in Seq(Payload), Multiple(Len(p)),
           NEW block \in Seq(Char), Len(block) = BlockSize, Contains(block, Terminator),
           NEW rest \in Seq(Char), NEW pending \in Seq(Message),
           InBlocks(p, block, rest, pending)
    PROVE  /\ pending # <<>>
           /\ p \o block = OnWire(Head(pending).channel, Head(pending).text, TRUE)
           /\ Part(p \o block) = Body(Head(pending).channel, Head(pending).text)
           /\ rest = Wire(Tail(pending), TRUE)
<1> DEFINE x == block \o rest
           q == p \o block
<1>1. BlockSize \in Nat /\ BlockSize > 0
    BY FramingAssumption DEF FramingAssumption
<1>2. p \in Seq(Char) /\ Len(p) \in Nat
    BY SeqMonotonic DEF Payload
<1>3. x \in Seq(Char) /\ IsJoin(x, block, rest)
    BY Joined
<1>4. Len(rest) \in Nat /\ Len(x) = BlockSize + Len(rest)
    BY <1>3 DEF IsJoin
<1>5. q \in Seq(Char) /\ IsJoin(q, p, block)
    BY <1>2, Joined
<1>6. q \o rest = p \o x
    <2>1. Regrouped(p, block, rest)
        BY <1>2, Regroup
    <2> QED
        BY <2>1 DEF Regrouped
<1> HIDE DEF x, q
<1>7. x # <<>>
    BY <1>1, <1>3, <1>4
<1>8. p \o x = Wire(pending, TRUE)
    BY DEF x, InBlocks
<1>9. /\ pending # <<>>
      /\ Len(p) + BlockSize <= Len(OnWire(Head(pending).channel, Head(pending).text, TRUE))
    BY <1>3, <1>7, <1>8, BlockAhead
<1>10. PICK m, body, padding : IsFirst(pending, m, body, padding)
    BY <1>9, FirstFrame
<1> DEFINE frame == OnWire(m.channel, m.text, TRUE)
           tail == Wire(Tail(pending), TRUE)
<1>11. /\ m = Head(pending) /\ body = Body(m.channel, m.text)
       /\ Tail(pending) \in Seq(Message) /\ body \in Seq(Payload)
       /\ padding \in Seq(Char) /\ Len(padding) < BlockSize
       /\ EndsBody(frame, body, padding)
       /\ Multiple(Len(frame)) /\ SameStream(q, rest, frame, tail)
    BY <1>6, <1>8, <1>10 DEF IsFirst, SameStream
<1>12. tail \in Seq(Char)
    BY <1>11, WireType
<1>13. Len(p) + BlockSize <= Len(frame)
    BY <1>9, <1>11
<1> HIDE DEF frame, tail
<1>14. /\ frame \in Seq(Char) /\ Len(frame) = Len(body) + 1 + Len(padding)
       /\ \A i \in 1 .. Len(body) : frame[i] # Terminator
       /\ Part(frame) = body
    BY <1>11, FramePlaces
<1>15. /\ Len(body) \in Nat /\ Len(padding) \in Nat /\ Len(frame) \in Nat /\ Len(q) \in Nat
       /\ Len(q) = Len(p) + BlockSize
    BY <1>5, <1>11, <1>14 DEF IsJoin
<1>16. Multiple(Len(q))
    <2>1. PICK a \in Nat : Len(p) = BlockSize * a
        BY DEF Multiple
    <2>2. Len(q) = BlockSize * (a + 1)
        BY <1>1, <1>15, <2>1
    <2> QED
        BY <2>2 DEF Multiple
<1>17. Len(q) > Len(body)
    <2>1. PICK i \in 1 .. BlockSize : block[i] = Terminator
        BY DEF Contains
    <2> DEFINE j == Len(p) + i
    <2>2. j \in 1 .. Len(q) /\ j \in 1 .. Len(frame)
        BY <1>1, <1>2, <1>13, <1>15
    <2>3. q[j] = Terminator
        BY <1>5, <2>1 DEF IsJoin
    <2> HIDE DEF j
    <2>4. IsJoin(q \o rest, q, rest) /\ IsJoin(frame \o tail, frame, tail)
        BY <1>5, <1>12, <1>14, Joined
    <2> DEFINE u == q \o rest
    <2>5. frame[j] = Terminator
        <3>1. IsJoin(u, q, rest) /\ IsJoin(u, frame, tail)
            BY <1>11, <2>4 DEF SameStream
        <3> HIDE DEF u
        <3> QED
            BY <2>2, <2>3, <3>1 DEF IsJoin
    <2>6. j \notin 1 .. Len(body)
        BY <1>14, <2>5
    <2> QED
        BY <1>15, <2>2, <2>6
<1>18. Len(q) = Len(frame)
    <2> SUFFICES ASSUME Len(q) # Len(frame)
                 PROVE  FALSE
        OBVIOUS
    <2>1. Len(q) < Len(frame)
        BY <1>13, <1>15
    <2>2. Len(q) + BlockSize <= Len(frame)
        BY <1>11, <1>15, <1>16, <2>1, MultiplesApart
    <2> QED
        BY <1>1, <1>11, <1>14, <1>15, <1>17, <2>2
<1>19. q = frame /\ rest = tail
    BY <1>5, <1>11, <1>12, <1>14, <1>18, SameBeginnings
<1> QED
    BY <1>9, <1>11, <1>14, <1>19 DEF q, frame, tail

\* A block is read in the master.
LEMMA BlockTaken ==
    ASSUME NEW p, NEW block \in Seq(Char), Len(block) = BlockSize, NEW rest \in Seq(Char),
           NEW sent, Takes(<<>>, p, block \o rest, sent, TRUE)
    PROVE  LET read == ProcessBlock(p, block)
           IN Takes(read.messages, read.part, rest, sent, TRUE)
<1> DEFINE read == ProcessBlock(p, block)
           q == p \o block
<1>1. p \in Seq(Payload) /\ Multiple(Len(p))
    BY DEF Takes
<1>2. PICK pending \in Seq(Message) :
         sent = <<>> \o pending /\ InBlocks(p, block, rest, pending)
    BY DEF Takes, InBlocks
<1>3. sent = pending /\ sent \in Seq(Message)
    BY <1>2, ConcatEmptySeq
<1>4. p \in Seq(Char)
    BY <1>1, SeqMonotonic DEF Payload
<1>5. CASE Contains(block, Terminator)
    <2> DEFINE m == Head(pending)
               others == Tail(pending)
    <2>1. /\ pending # <<>>
          /\ Part(q) = Body(m.channel, m.text)
          /\ rest = Wire(others, TRUE)
        BY <1>1, <1>2, <1>5, LastBlock
    <2>2. PICK n, body, padding : IsFirst(pending, n, body, padding)
        BY <2>1, FirstFrame
    <2>3. /\ n = m /\ body = Body(m.channel, m.text) /\ m \in Message
          /\ others \in Seq(Message) /\ pending = <<m>> \o others
          /\ Decodable(body) /\ Decoded(body) = m
        BY <2>2 DEF IsFirst
    <2>4. read.part = <<>> /\ read.messages = <<m>>
        BY <1>5, <2>1, <2>3 DEF ProcessBlock
    <2> HIDE DEF m, others
    <2>5. <<m>> \in Seq(Message) /\ <<>> \in Seq(Payload)
        BY <2>3
    <2>6. <<>> \o rest = Wire(others, TRUE)
        BY <2>1, ConcatEmptySeq
    <2>7. Multiple(Len(<<>>))
        <3>1. Len(<<>>) = BlockSize * 0
            BY FramingAssumption DEF FramingAssumption
        <3> QED
            BY <3>1 DEF Multiple
    <2> DEFINE one == <<m>>
    <2>8. one \in Seq(Message) /\ sent = one \o others /\ read.messages = one
        BY <1>3, <2>3, <2>4, <2>5
    <2> HIDE DEF one
    <2>9. Takes(one, <<>>, rest, sent, TRUE)
        BY <2>3, <2>5, <2>6, <2>7, <2>8 DEF Takes
    <2> QED
        BY <2>4, <2>8, <2>9
<1>6. CASE ~Contains(block, Terminator)
    <2>1. read.part = q /\ read.messages = <<>>
        BY <1>6 DEF ProcessBlock
    <2>2. block \in Seq(Payload)
        <3>1. \A i \in 1 .. Len(block) : block[i] \in Payload
            BY <1>6 DEF Contains, Payload
        <3>2. block = [i \in 1 .. Len(block) |-> block[i]] /\ Len(block) \in Nat
            OBVIOUS
        <3> QED
            BY <3>1, <3>2
    <2>3. q \in Seq(Payload) /\ IsJoin(q, p, block)
        BY <1>1, <2>2, Joined
    <2>4. q \o rest = Wire(pending, TRUE)
        <3>1. Regrouped(p, block, rest)
            BY <1>4, Regroup
        <3> QED
            BY <1>2, <3>1 DEF Regrouped, InBlocks
    <2> HIDE DEF q
    <2>5. Multiple(Len(q))
        <3>1. PICK a \in Nat : Len(p) = BlockSize * a
            BY <1>1 DEF Multiple
        <3>2. Len(q) = BlockSize * (a + 1)
            BY <2>3, <3>1, FramingAssumption DEF IsJoin, FramingAssumption
        <3> QED
            BY <3>2 DEF Multiple
    <2>6. <<>> \in Seq(Message)
        OBVIOUS
    <2>7. Takes(<<>>, q, rest, sent, TRUE)
        BY <1>2, <2>3, <2>4, <2>5, <2>6 DEF Takes
    <2> QED
        BY <2>1, <2>7
<1> QED
    BY <1>5, <1>6

-----------------------------------------------------------------------------
(* From answers to messages and back                                       *)

\* Answers that can be on the wire.
RawAnswer == {a \in [channel : 0 .. 99, parts : Seq(Seq(Char))] : a.parts # <<>>}

\* Answers that can be encoded, the messages they are, and what the master makes of them.
GoodAnswer == {a \in RawAnswer : strings_join(a.parts, Separator) \in Seq(Payload)}

MessageOf(a) == [channel |-> a.channel, text |-> strings_join(a.parts, Separator)]

MessagesOf(answers) == [i \in DOMAIN answers |-> MessageOf(answers[i])]

Received(m) == Answer(m.channel, JavaSplit(m.text, Separator))

ReceivedFrom(messages) == [i \in DOMAIN messages |-> Received(messages[i])]

\* Answers give as many messages.
LEMMA MessagesType ==
    ASSUME NEW answers \in Seq(GoodAnswer)
    PROVE  MessagesOf(answers) \in Seq(Message) /\ Len(MessagesOf(answers)) = Len(answers)
<1>1. DOMAIN answers = 1 .. Len(answers) /\ Len(answers) \in Nat
    OBVIOUS
<1>2. ASSUME NEW a \in GoodAnswer
      PROVE  MessageOf(a) \in Message
    BY DEF GoodAnswer, RawAnswer, MessageOf, Message
<1>3. \A i \in 1 .. Len(answers) : MessageOf(answers[i]) \in Message
    BY <1>2
<1> QED
    BY <1>1, <1>3 DEF MessagesOf

\* What is mapped element by element may be mapped one part after the other.
IsMap(f, t, s) == Len(t) = Len(s) /\ \A i \in 1 .. Len(s) : t[i] = f[s[i]]

\* Packaged for lemmas that have the equation as a hypothesis.
JoinOf(u, s, t) == u = s \o t

\* An element by element map of one sequence after the other.
LEMMA MapsJoin ==
    ASSUME NEW S, NEW T, NEW f,
           NEW s1 \in Seq(S), NEW s2 \in Seq(S), NEW s \in Seq(S), JoinOf(s, s1, s2),
           NEW t1 \in Seq(T), NEW t2 \in Seq(T), NEW t \in Seq(T),
           IsMap(f, t1, s1), IsMap(f, t2, s2), IsMap(f, t, s)
    PROVE  JoinOf(t, t1, t2)
<1> DEFINE u == t1 \o t2
<1>1. IsJoin(s, s1, s2)
    BY Joined DEF JoinOf
<1>2. u \in Seq(T) /\ IsJoin(u, t1, t2)
    BY Joined
<1>3. IsMap(f, t, s)
    OBVIOUS
<1> HIDE DEF u
<1>4. /\ Len(s1) \in Nat /\ Len(s2) \in Nat /\ Len(t1) = Len(s1) /\ Len(t2) = Len(s2)
      /\ Len(s) = Len(s1) + Len(s2) /\ Len(u) = Len(t1) + Len(t2) /\ Len(t) = Len(s)
    BY <1>1, <1>2, <1>3 DEF IsJoin, IsMap
<1>5. ASSUME NEW i \in 1 .. Len(t)
      PROVE  t[i] = u[i]
    <2>1. CASE i \in 1 .. Len(s1)
        <3>1. i \in 1 .. Len(s)
            BY <1>4
        <3>2. t[i] = f[s[i]] /\ s[i] = s1[i]
            BY <1>1, <1>3, <2>1, <3>1 DEF IsJoin, IsMap
        <3>3. u[i] = t1[i]
            BY <1>2, <1>4, <2>1 DEF IsJoin
        <3>4. t1[i] = f[s1[i]]
            BY <2>1 DEF IsMap
        <3> QED
            BY <3>2, <3>3, <3>4
    <2>2. CASE ~(i \in 1 .. Len(s1))
        <3> DEFINE j == i - Len(s1)
        <3>1. j \in 1 .. Len(s2) /\ i = Len(s1) + j /\ i \in 1 .. Len(s)
            BY <1>4, <2>2
        <3> HIDE DEF j
        <3>2. t[i] = f[s[i]]
            BY <1>3, <3>1 DEF IsMap
        <3>3. s[i] = s2[j] /\ u[i] = t2[j]
            BY <1>1, <1>2, <1>4, <3>1 DEF IsJoin
        <3>4. t2[j] = f[s2[j]]
            BY <3>1 DEF IsMap
        <3> QED
            BY <3>2, <3>3, <3>4
    <2> QED
        BY <2>1, <2>2
<1>6. t = u
    BY <1>2, <1>4, <1>5, SeqEqual
<1> QED
    BY <1>6 DEF u, JoinOf

\* The messages of answers one after the other.
LEMMA MessagesConcat ==
    ASSUME NEW a \in Seq(GoodAnswer), NEW b \in Seq(GoodAnswer)
    PROVE  MessagesOf(a \o b) = MessagesOf(a) \o MessagesOf(b)
<1> DEFINE f == [x \in GoodAnswer |-> MessageOf(x)]
           c == a \o b
<1>1. c \in Seq(GoodAnswer)
    OBVIOUS
<1> HIDE DEF c
<1>2. ASSUME NEW s \in Seq(GoodAnswer)
      PROVE  MessagesOf(s) \in Seq(Message) /\ IsMap(f, MessagesOf(s), s)
    <2>1. MessagesOf(s) \in Seq(Message) /\ Len(MessagesOf(s)) = Len(s)
        BY MessagesType
    <2>2. \A i \in 1 .. Len(s) : s[i] \in GoodAnswer /\ i \in DOMAIN s
        OBVIOUS
    <2>3. \A i \in 1 .. Len(s) : MessagesOf(s)[i] = f[s[i]]
        BY <2>2 DEF MessagesOf
    <2> QED
        BY <2>1, <2>3 DEF IsMap
<1>3. /\ IsMap(f, MessagesOf(a), a) /\ IsMap(f, MessagesOf(b), b) /\ IsMap(f, MessagesOf(c), c)
      /\ MessagesOf(a) \in Seq(Message) /\ MessagesOf(b) \in Seq(Message)
      /\ MessagesOf(c) \in Seq(Message)
    BY <1>1, <1>2
<1> HIDE DEF f
<1>4. JoinOf(c, a, b)
    BY DEF c, JoinOf
<1>5. JoinOf(MessagesOf(c), MessagesOf(a), MessagesOf(b))
    BY <1>1, <1>3, <1>4, MapsJoin
<1> QED
    BY <1>5 DEF c, JoinOf

\* What is received of messages one after the other.
LEMMA ReceivedConcat ==
    ASSUME NEW a \in Seq(Message), NEW b \in Seq(Message)
    PROVE  ReceivedFrom(a \o b) = ReceivedFrom(a) \o ReceivedFrom(b)
<1> DEFINE f == [x \in Message |-> Received(x)]
           T == {Received(x) : x \in Message}
           c == a \o b
<1>1. c \in Seq(Message)
    OBVIOUS
<1> HIDE DEF c
<1>2. ASSUME NEW s \in Seq(Message)
      PROVE  ReceivedFrom(s) \in Seq(T) /\ IsMap(f, ReceivedFrom(s), s)
    <2>1. DOMAIN s = 1 .. Len(s) /\ Len(s) \in Nat
        OBVIOUS
    <2>2. \A i \in 1 .. Len(s) : s[i] \in Message /\ i \in DOMAIN s
        OBVIOUS
    <2>3. \A i \in 1 .. Len(s) : Received(s[i]) \in T
        BY <2>2
    <2> HIDE DEF T
    <2>4. ReceivedFrom(s) \in Seq(T) /\ Len(ReceivedFrom(s)) = Len(s)
        BY <2>1, <2>3 DEF ReceivedFrom
    <2>5. \A i \in 1 .. Len(s) : ReceivedFrom(s)[i] = f[s[i]]
        BY <2>2 DEF ReceivedFrom
    <2> QED
        BY <2>4, <2>5 DEF IsMap
<1> HIDE DEF T
<1>3. /\ IsMap(f, ReceivedFrom(a), a) /\ IsMap(f, ReceivedFrom(b), b)
      /\ IsMap(f, ReceivedFrom(c), c)
      /\ ReceivedFrom(a) \in Seq(T) /\ ReceivedFrom(b) \in Seq(T) /\ ReceivedFrom(c) \in Seq(T)
    BY <1>1, <1>2
<1> HIDE DEF f
<1>4. JoinOf(c, a, b)
    BY DEF c, JoinOf
<1>5. JoinOf(ReceivedFrom(c), ReceivedFrom(a), ReceivedFrom(b))
    BY <1>1, <1>3, <1>4, MapsJoin
<1> QED
    BY <1>5 DEF c, JoinOf

\* The bytes the slave sends are its messages on the wire.
LEMMA BytesAreWire ==
    ASSUME NEW answers \in Seq(GoodAnswer)
    PROVE  BytesOf(answers) = Wire(MessagesOf(answers), config.cipher)
<1> DEFINE ms == MessagesOf(answers)
<1>1. DOMAIN ms = DOMAIN answers
    BY DEF MessagesOf
<1>2. \A i \in DOMAIN answers : /\ ms[i].channel = answers[i].channel
                                /\ ms[i].text = strings_join(answers[i].parts, Separator)
    BY DEF MessagesOf, MessageOf
<1> HIDE DEF ms
<1>3. Frames(ms, config.cipher) =
        [i \in DOMAIN answers |->
            OnWire(answers[i].channel, strings_join(answers[i].parts, Separator), config.cipher)]
    BY <1>1, <1>2 DEF Frames
<1> QED
    BY <1>3 DEF BytesOf, Wire, ms

-----------------------------------------------------------------------------
(* Sending and reading, one after the other                                *)

\* What is sent is under way.
LEMMA MoreUnderWay ==
    ASSUME NEW done, NEW p, NEW rest, NEW sent, NEW cipher \in BOOLEAN,
           Takes(done, p, rest, sent, cipher), NEW more \in Seq(Message)
    PROVE  Takes(done, p, rest \o Wire(more, cipher), sent \o more, cipher)
<1> DEFINE w == Wire(more, cipher)
<1>1. /\ done \in Seq(Message) /\ p \in Seq(Payload) /\ rest \in Seq(Char)
      /\ cipher => Multiple(Len(p))
    BY DEF Takes
<1>2. PICK pending \in Seq(Message) :
         sent = done \o pending /\ p \o rest = Wire(pending, cipher)
    BY DEF Takes
<1>3. w \in Seq(Char)
    BY WireType
<1>4. Wire(pending \o more, cipher) = Wire(pending, cipher) \o w
    BY WireConcat
<1> HIDE DEF w
<1>5. p \in Seq(Char)
    BY <1>1, SeqMonotonic DEF Payload
<1> DEFINE now == rest \o w
           then == pending \o more
           all == sent \o more
<1>6. p \o now = Wire(then, cipher)
    <2>1. Regrouped(p, rest, w)
        BY <1>1, <1>3, <1>5, Regroup
    <2> QED
        BY <1>2, <1>4, <2>1 DEF Regrouped
<1>7. all = done \o then
    <2>1. Regrouped(done, pending, more)
        BY <1>1, <1>2, Regroup
    <2> QED
        BY <1>2, <2>1 DEF Regrouped
<1>8. now \in Seq(Char) /\ then \in Seq(Message)
    BY <1>1, <1>2, <1>3
<1> HIDE DEF now, then, all
<1>9. Takes(done, p, now, all, cipher)
    BY <1>1, <1>6, <1>7, <1>8 DEF Takes
<1> QED
    BY <1>9 DEF now, all, w

\* While something is under way of a message, so is the block that is read next.
LEMMA BlockUnderWay ==
    ASSUME NEW done, NEW p, NEW rest, NEW sent, Takes(done, p, rest, sent, TRUE), rest # <<>>
    PROVE  BlockSize <= Len(rest)
<1>1. /\ p \in Seq(Payload) /\ rest \in Seq(Char) /\ Multiple(Len(p))
    BY DEF Takes
<1>2. PICK pending \in Seq(Message) : p \o rest = Wire(pending, TRUE)
    BY DEF Takes
<1> DEFINE frame == OnWire(Head(pending).channel, Head(pending).text, TRUE)
           tail == Wire(Tail(pending), TRUE)
           u == p \o rest
<1>3. pending # <<>> /\ Len(p) + BlockSize <= Len(frame)
    BY <1>1, <1>2, BlockAhead
<1>4. PICK m, body, padding : IsFirst(pending, m, body, padding)
    BY <1>3, FirstFrame
<1>5. /\ Tail(pending) \in Seq(Message) /\ body \in Seq(Payload) /\ padding \in Seq(Char)
      /\ EndsBody(frame, body, padding) /\ u = frame \o tail
    BY <1>2, <1>4 DEF IsFirst
<1>6. tail \in Seq(Char)
    BY <1>5, WireType
<1> HIDE DEF frame, tail
<1>7. frame \in Seq(Char)
    BY <1>5, FramePlaces
<1>8. p \in Seq(Char)
    BY <1>1, SeqMonotonic DEF Payload
<1>9. IsJoin(u, p, rest) /\ IsJoin(u, frame, tail)
    BY <1>1, <1>5, <1>6, <1>7, <1>8, Joined
<1>10. Len(p) + Len(rest) = Len(frame) + Len(tail)
    BY <1>9 DEF IsJoin
<1>11. /\ Len(p) \in Nat /\ Len(rest) \in Nat /\ Len(frame) \in Nat /\ Len(tail) \in Nat
       /\ BlockSize \in Nat
    BY <1>1, <1>6, <1>7, FramingAssumption DEF FramingAssumption
<1> QED
    BY <1>3, <1>10, <1>11

\* What is read of the bytes that are under way is what has been sent, in order.
LEMMA MoreTaken ==
    ASSUME NEW done, NEW p, NEW chunk \in Seq(Char), NEW rest \in Seq(Char), NEW sent,
           NEW cipher \in BOOLEAN, cipher => Len(chunk) = BlockSize,
           Takes(done, p, chunk \o rest, sent, cipher)
    PROVE  LET read == ReadChunk(p, chunk, cipher)
           IN /\ done \in Seq(Message) /\ read.messages \in Seq(Message)
              /\ Takes(done \o read.messages, read.part, rest, sent, cipher)
<1> DEFINE read == ReadChunk(p, chunk, cipher)
           ms == read.messages
<1>1. /\ done \in Seq(Message) /\ p \in Seq(Payload) /\ chunk \o rest \in Seq(Char)
      /\ cipher => Multiple(Len(p))
    BY DEF Takes
<1>2. PICK pending \in Seq(Message) :
         sent = done \o pending /\ p \o (chunk \o rest) = Wire(pending, cipher)
    BY DEF Takes
<1>3. Takes(<<>>, p, chunk \o rest, pending, cipher)
    <2>1. <<>> \in Seq(Message) /\ <<>> \o pending = pending
        OBVIOUS
    <2> DEFINE x == chunk \o rest
    <2>2. x \in Seq(Char) /\ p \o x = Wire(pending, cipher)
        BY <1>1, <1>2
    <2> HIDE DEF x
    <2>3. Takes(<<>>, p, x, pending, cipher)
        BY <1>1, <2>1, <2>2 DEF Takes
    <2> QED
        BY <2>3 DEF x
<1>4. Takes(ms, read.part, rest, pending, cipher)
    <2>1. CASE cipher
        <3>1. Takes(<<>>, p, chunk \o rest, pending, TRUE) /\ Len(chunk) = BlockSize
            BY <1>3, <2>1
        <3>2. read = ProcessBlock(p, chunk)
            BY <2>1 DEF ReadChunk
        <3> HIDE DEF read
        <3>3. Takes(read.messages, read.part, rest, pending, TRUE)
            BY <3>1, <3>2, BlockTaken
        <3> QED
            BY <2>1, <3>3
    <2>2. CASE ~cipher
        <3>1. Takes(<<>>, p, chunk \o rest, pending, FALSE)
            BY <1>3, <2>2
        <3>2. read = ProcessClear(p, chunk)
            BY <2>2 DEF ReadChunk
        <3> HIDE DEF read
        <3>3. Takes(read.messages, read.part, rest, pending, FALSE)
            BY <3>1, <3>2, ChunkTaken
        <3> QED
            BY <2>2, <3>3
    <2> QED
        BY <2>1, <2>2
<1> DEFINE q == read.part
<1> HIDE DEF read
<1>5. /\ ms \in Seq(Message) /\ q \in Seq(Payload)
      /\ cipher => Multiple(Len(q))
    BY <1>4 DEF Takes
<1>6. PICK others \in Seq(Message) :
         pending = ms \o others /\ q \o rest = Wire(others, cipher)
    BY <1>4 DEF Takes
<1> HIDE DEF ms, q
<1> DEFINE now == done \o ms
<1>7. now \in Seq(Message) /\ sent = now \o others
    <2>1. Regrouped(done, ms, others)
        BY <1>1, <1>5, Regroup
    <2> QED
        BY <1>1, <1>2, <1>5, <1>6, <2>1 DEF Regrouped
<1> HIDE DEF now
<1>8. Takes(now, q, rest, sent, cipher)
    BY <1>5, <1>6, <1>7 DEF Takes
<1> QED
    BY <1>1, <1>5, <1>8 DEF now, read, ms, q

-----------------------------------------------------------------------------
(* What the slave sends                                                    *)

\* Joining sequences of characters gives one.
LEMMA JoinType ==
    ASSUME NEW C, NEW separator \in C, Blank \in C, NEW parts \in Seq(Seq(C))
    PROVE  strings_join(parts, separator) \in Seq(C)
<1> DEFINE wire == [i \in DOMAIN parts |->
                       IF parts[i] = <<>> THEN <<Blank>> ELSE Escaped(parts[i], separator)]
<1>1. DOMAIN parts = 1 .. Len(parts) /\ Len(parts) \in Nat
    OBVIOUS
<1>2. ASSUME NEW i \in 1 .. Len(parts)
      PROVE  (IF parts[i] = <<>> THEN <<Blank>> ELSE Escaped(parts[i], separator)) \in Seq(C)
    <2>1. parts[i] \in Seq(C)
        OBVIOUS
    <2>2. Escaped(parts[i], separator) \in Seq(C)
        BY <2>1, EscapedType
    <2>3. <<Blank>> \in Seq(C)
        OBVIOUS
    <2> QED
        BY <2>2, <2>3
<1>3. wire \in Seq(Seq(C))
    BY <1>1, <1>2
<1>4. strings_join(parts, separator) = Separated(wire, separator)
    BY DEF strings_join
<1> HIDE DEF wire
<1> QED
    BY <1>3, <1>4, SeparatedType

\* A sequence of elements of a set is one of elements of a larger set.
LEMMA Larger ==
    ASSUME NEW A, NEW B, A \subseteq B, NEW s \in Seq(A)
    PROVE  s \in Seq(B)
<1>1. \A i \in 1 .. Len(s) : s[i] \in B
    OBVIOUS
<1> QED
    BY <1>1

\* One element is a sequence.
LEMMA Single ==
    ASSUME NEW C, NEW c \in C
    PROVE  <<c>> \in Seq(C)
OBVIOUS

\* The characters that have a meaning.
LEMMA SomeCharacters ==
    /\ Separator \in Char /\ Blank \in Char /\ "," \in Char /\ Noise \in Char
    /\ Separator \in Payload /\ Blank \in Payload /\ Blank # Separator
<1>1. Separator \in Char /\ Blank \in Char /\ "," \in Char /\ Noise \in Char
    BY DEF Char
<1>2. Separator # Terminator /\ Blank # Terminator /\ Blank # Separator
    BY DEF Separator, Terminator, Blank
<1> QED
    BY <1>1, <1>2 DEF Payload

\* Texts, names and numbers consist of characters.
LEMMA TextType == Text \subseteq Seq(Char)
<1> DEFINE A == {Alphabet[i] : i \in DOMAIN Alphabet}
<1>1. A \subseteq Char /\ Text = Seq(A)
    BY DEF Text, Char
<1> HIDE DEF A
<1> QED
    BY <1>1, Larger

\* A name is a character, as a text of one.
LEMMA NameType ==
    ASSUME NEW n \in Names
    PROVE  <<n>> \in Seq(Char)
<1>1. n \in Char
    BY DEF Char
<1> QED
    BY <1>1, Single

\* A small number is a text of one digit.
LEMMA NumberType ==
    ASSUME NEW k \in 0 .. 9
    PROVE  Number(k) \in Seq(Char)
<1>1. Digit[k + 1] \in Char
    BY DigitFacts DEF Payload
<1> QED
    BY <1>1, Single DEF Number

\* The ids of the ports, and the port the device's callbacks mean by one of them.
PortIDs == {config.ports[i].id : i \in DOMAIN config.ports}

DevicePort(id) == config.ports[FoundAt(config.ports, id)]

\* What a handler may send for the id of a port, after a refused state.
Dangling == {<<"29">>, <<Noise>>}

\* An answer says nothing of a port or of a group that is true of another one.  Blanks in
\* the labels are the only ones that may get lost on the way.
IsTrue(parts, labels) ==
    LET kind == parts[1][1]
        id == parts[2]
        Is(k, n) == kind = k /\ Len(parts) = n
    IN /\ kind # Blank
       /\ kind \in {"DP", "SLP", "EPI", "SLL", "DPS"} /\ Len(parts) > 1 => id \in PortIDs
       /\ Is("EPI", 3) => parts[3] = InfoFor(id)
       /\ Is("SLL", 4) =>
             \E n \in DOMAIN labels : parts[3] = Number(n - 1) /\ parts[4] = labels[n]
       /\ Is("DPS", 3) => parts[3] = PortState(id)
       /\ Is("EPS", 3) => id \in Dangling \cup PortIDs /\ parts[3] = ExtendedState(id)
       /\ Is("GI", 5) => id \in GroupIDs /\ parts[4] = ParentOf(id)

Truthful(parts) == IsTrue(parts, DevicePort(parts[2]).labels)

\* Answers on a channel.
RawAnswerOn(ch) ==
    {a \in [channel : {ch}, parts : Seq(Seq(Char))] : a.parts # <<>> /\ Truthful(a.parts)}

\* Other answers are about the device, or report an error.
LEMMA OtherAnswer ==
    ASSUME NEW parts, parts[1][1] \in {"BDC", "NOK", "Err", "EDI", "x"}
    PROVE  Truthful(parts)
BY DEF Truthful, IsTrue, Blank

\* What is left of a function's buffer is a text.
LEMMA DanglingType == Dangling \subseteq Seq(Char)
<1> DEFINE d == <<"29">>
           e == <<Noise>>
<1>1. "29" \in Names
    BY DEF Names
<1>2. d \in Seq(Char) /\ e \in Seq(Char)
    BY <1>1, NameType, SomeCharacters, Single
<1>3. Dangling = {d, e}
    BY DEF Dangling
<1> HIDE DEF d, e
<1> QED
    BY <1>2, <1>3

\* Answers on one channel are answers.
LEMMA AnyChannel ==
    ASSUME NEW ch \in 0 .. 99
    PROVE  RawAnswerOn(ch) \subseteq RawAnswer
BY DEF RawAnswerOn, RawAnswer

\* Answers of one to five parts.
LEMMA RawAnswers ==
    ASSUME NEW ch \in 0 .. 99, NEW a \in Seq(Char), NEW b \in Seq(Char), NEW c \in Seq(Char),
           NEW d \in Seq(Char), NEW e \in Seq(Char)
    PROVE  /\ Truthful(<<a>>) => Answer(ch, <<a>>) \in RawAnswerOn(ch)
           /\ Truthful(<<a, b>>) => Answer(ch, <<a, b>>) \in RawAnswerOn(ch)
           /\ Truthful(<<a, b, c>>) => Answer(ch, <<a, b, c>>) \in RawAnswerOn(ch)
           /\ Truthful(<<a, b, c, d>>) => Answer(ch, <<a, b, c, d>>) \in RawAnswerOn(ch)
           /\ Truthful(<<a, b, c, d, e>>) => Answer(ch, <<a, b, c, d, e>>) \in RawAnswerOn(ch)
<1>1. ASSUME NEW parts \in Seq(Seq(Char)), parts # <<>>, Truthful(parts)
      PROVE  Answer(ch, parts) \in RawAnswerOn(ch)
    BY <1>1 DEF Answer, RawAnswerOn
<1>2. <<a>> \in Seq(Seq(Char)) /\ <<a>> # <<>>
    OBVIOUS
<1>3. <<a, b>> \in Seq(Seq(Char)) /\ <<a, b>> # <<>>
    OBVIOUS
<1>4. <<a, b, c>> \in Seq(Seq(Char)) /\ <<a, b, c>> # <<>>
    OBVIOUS
<1>5. <<a, b, c, d>> \in Seq(Seq(Char)) /\ <<a, b, c, d>> # <<>>
    OBVIOUS
<1>6. <<a, b, c, d, e>> \in Seq(Seq(Char)) /\ <<a, b, c, d, e>> # <<>>
    OBVIOUS
<1> QED
    BY <1>1, <1>2, <1>3, <1>4, <1>5, <1>6

\* What the configuration is made of.
ConfigOK ==
    /\ config.cipher \in BOOLEAN /\ config.trim \in BOOLEAN
    /\ config.ports \in Seq(PortType) /\ config.groups \in Seq(GroupType)
    /\ config.first \in Seq(Text)
    /\ \A i \in DOMAIN config.ports : Len(config.ports[i].labels) < 10

\* What the proofs use of a configuration.
LEMMA ConfigFacts ==
    ASSUME config \in Configuration
    PROVE  ConfigOK
<1>1. config \in ConfigurationType /\ \A i \in DOMAIN config.ports : Len(config.ports[i].labels) < 10
    BY BulkAssumption DEF BulkAssumption
<1> QED
    BY <1>1 DEF ConfigurationType, ConfigOK

\* Ports whose labels can be numbered by one digit.
PortOK(port) == port \in PortType /\ Len(port.labels) < 10

\* What is said of a port.
LEMMA PortTexts ==
    ASSUME NEW port, PortOK(port)
    PROVE  /\ port.id \in Seq(Char) /\ port.name \in Seq(Char)
           /\ port.labels \in Seq(Seq(Char)) /\ Len(port.labels) \in 0 .. 9
           /\ ExtendedInfo(port) \in Seq(Char)
           /\ PortState(port.id) \in Seq(Char) /\ ExtendedState(port.id) \in Seq(Char)
<1>1. /\ port.id \in Text /\ port.name \in Text /\ port.group \in Text
      /\ port.labels \in Seq(Text) /\ Len(port.labels) < 10
    BY DEF PortOK, PortType
<1>2. /\ port.id \in Seq(Char) /\ port.name \in Seq(Char) /\ port.group \in Seq(Char)
      /\ port.labels \in Seq(Seq(Char)) /\ Len(port.labels) \in 0 .. 9
    <2>1. port.labels \in Seq(Seq(Char))
        BY <1>1, TextType, Larger
    <2> DEFINE n == Len(port.labels)
    <2>2. n \in 0 .. 9
        <3>1. n \in Nat /\ n < 10
            BY <1>1, LenProperties
        <3> HIDE DEF n
        <3> QED
            BY <3>1
    <2>3. port.id \in Text /\ port.name \in Text /\ port.group \in Text
        BY <1>1
    <2>4. port.id \in Seq(Char) /\ port.name \in Seq(Char) /\ port.group \in Seq(Char)
        BY <2>3, TextType
    <2> QED
        BY <2>1, <2>2, <2>4
<1>3. /\ <<"info">> \in Seq(Char) /\ <<"group">> \in Seq(Char)
      /\ <<"state">> \in Seq(Char) /\ <<"more">> \in Seq(Char)
    <2>1. "info" \in Names /\ "group" \in Names /\ "state" \in Names /\ "more" \in Names
        BY DEF Names
    <2> QED
        BY <2>1, NameType
<1> DEFINE i == <<"info">>
           g == <<"group">>
           s == <<"state">>
           m == <<"more">>
           more == IF port.group = <<>> THEN <<>> ELSE g \o port.group
<1>4. /\ ExtendedInfo(port) = i \o port.id \o more
      /\ PortState(port.id) = s \o port.id /\ ExtendedState(port.id) = m \o port.id
    BY DEF ExtendedInfo, PortState, ExtendedState
<1> HIDE DEF i, g, s, m
<1>5. more \in Seq(Char)
    BY <1>2, <1>3 DEF g
<1> HIDE DEF more
<1> QED
    BY <1>2, <1>3, <1>4, <1>5 DEF i, s, m

\* What a port of the configuration is, and a group.
LEMMA PortAt ==
    ASSUME ConfigOK, NEW i \in DOMAIN config.ports
    PROVE  PortOK(config.ports[i])
<1> DEFINE list == config.ports
<1>1. list \in Seq(PortType) /\ \A k \in DOMAIN list : Len(list[k].labels) < 10
    BY DEF ConfigOK
<1>2. i \in DOMAIN list
    OBVIOUS
<1> HIDE DEF list
<1>3. list[i] \in PortType /\ Len(list[i].labels) < 10
    BY <1>1, <1>2
<1> QED
    BY <1>3 DEF PortOK, list

\* Ids and parents of groups are texts.
LEMMA GroupAt ==
    ASSUME ConfigOK, NEW i \in DOMAIN config.groups
    PROVE  config.groups[i].id \in Seq(Char) /\ config.groups[i].parent \in Seq(Char)
<1> DEFINE list == config.groups
<1>1. list \in Seq(GroupType) /\ i \in DOMAIN list
    BY DEF ConfigOK
<1> HIDE DEF list
<1>2. list[i] \in GroupType
    BY <1>1
<1>3. list[i].id \in Text /\ list[i].parent \in Text
    BY <1>2 DEF GroupType
<1>4. list[i].id \in Seq(Char) /\ list[i].parent \in Seq(Char)
    BY <1>3, TextType
<1> QED
    BY <1>4 DEF list

\* An entry that is found is there.
LEMMA FoundIsThere ==
    ASSUME NEW S, NEW list \in Seq(S), NEW id
    PROVE  \/ FoundAt(list, id) = 0 /\ \A i \in 1 .. Len(list) : list[i].id # id
           \/ FoundAt(list, id) \in 1 .. Len(list) /\ list[FoundAt(list, id)].id = id
<1> DEFINE I == {i \in 1 .. Len(list) : list[i].id = id}
<1>1. FoundAt(list, id) = IF I = {} THEN 0 ELSE Min(I)
    BY DEF FoundAt, SelectInSeq
<1>2. I \in SUBSET Nat /\ \A i \in I : i \in 1 .. Len(list) /\ list[i].id = id
    OBVIOUS
<1>3. CASE I = {}
    BY <1>1, <1>3
<1>4. CASE I # {}
    <2>1. PICK n \in I : \A k \in I : n <= k
        <3> HIDE DEF I
        <3> QED
            BY <1>2, <1>4, LeastNumber
    <2>2. Min(I) \in I
        <3> HIDE DEF I
        <3> QED
            BY <2>1 DEF Min
    <2> QED
        BY <1>1, <1>2, <1>4, <2>2
<1> QED
    BY <1>3, <1>4

\* The capabilities, what is said of a port, and of a group.
LEMMA CapsType ==
    ASSUME ConfigOK, NEW ch \in 0 .. 99
    PROVE  DeviceCaps(ch) \in Seq(RawAnswerOn(ch))
<1> DEFINE list == config.ports
           ids == [i \in DOMAIN list |-> list[i].id]
           a == <<"BDC">>
           b == strings_join(ids, ",")
<1>1. list \in Seq(PortType) /\ \A i \in DOMAIN list : list[i].id \in Seq(Char)
    BY PortAt, PortTexts DEF ConfigOK
<1>2. ids \in Seq(Seq(Char))
    <2> HIDE DEF list
    <2>1. DOMAIN list = 1 .. Len(list) /\ Len(list) \in Nat
        BY <1>1
    <2> QED
        BY <1>1, <2>1
<1>3. DeviceCaps(ch) = <<Answer(ch, <<a, b>>)>>
    BY DEF DeviceCaps
<1>4. "BDC" \in Names
    BY DEF Names
<1>5. a \in Seq(Char)
    BY <1>4, NameType
<1> HIDE DEF ids
<1>6. b \in Seq(Char)
    BY <1>2, SomeCharacters, JoinType
<1> HIDE DEF b
<1>7. Truthful(<<a, b>>)
    BY OtherAnswer
<1> HIDE DEF a
<1>8. Answer(ch, <<a, b>>) \in RawAnswerOn(ch)
    BY <1>5, <1>6, <1>7, RawAnswers
<1> QED
    BY <1>3, <1>8, Single

\* The description of a port is made of texts.
LEMMA PortInfoType ==
    ASSUME NEW port, PortOK(port), port.id \in PortIDs, NEW ch \in 0 .. 99
    PROVE  Answer(ch, PortInfo(port)) \in RawAnswerOn(ch)
<1> DEFINE a == <<"SLP">>
           b == <<"DP">>
           n == Len(port.labels)
           c == Number(n)
           id == port.id
           name == port.name
<1>1. PortInfo(port) = <<a, id, name, c>> \/ PortInfo(port) = <<b, id, name>>
    BY DEF PortInfo
<1>2. "SLP" \in Names /\ "DP" \in Names
    BY DEF Names
<1>3. a \in Seq(Char) /\ b \in Seq(Char)
    BY <1>2, NameType
<1>4. id \in Seq(Char) /\ name \in Seq(Char) /\ n \in 0 .. 9
    BY PortTexts
<1> HIDE DEF n
<1>5. c \in Seq(Char)
    BY <1>4, NumberType
<1>6. id \in PortIDs
    OBVIOUS
<1> HIDE DEF c, id, name
<1>7. Truthful(<<a, id, name, c>>) /\ Truthful(<<b, id, name>>)
    BY <1>6 DEF Truthful, IsTrue, Blank
<1> HIDE DEF a, b
<1>8. Answer(ch, <<a, id, name, c>>) \in RawAnswerOn(ch) /\ Answer(ch, <<b, id, name>>) \in RawAnswerOn(ch)
    BY <1>3, <1>4, <1>5, <1>7, RawAnswers
<1> QED
    BY <1>1, <1>8

\* So are its labels,
LEMMA LabelsType ==
    ASSUME NEW port, PortOK(port), port.id \in PortIDs, port = DevicePort(port.id), NEW ch \in 0 .. 99
    PROVE  LabelsOf(ch, port).sent \in Seq(RawAnswerOn(ch))
<1> DEFINE l == port.labels
           a == <<"SLL">>
           id == port.id
           Label(i) == Answer(ch, <<a, id, Number(i - 1), l[i]>>)
<1>1. "SLL" \in Names
    BY DEF Names
<1>2. a \in Seq(Char) /\ id \in Seq(Char) /\ l \in Seq(Seq(Char)) /\ Len(l) \in 0 .. 9
    BY <1>1, NameType, PortTexts
<1>3. LabelsOf(ch, port).sent = [i \in DOMAIN l |-> Label(i)] \/ LabelsOf(ch, port).sent = <<>>
    BY DEF LabelsOf, Replies, Refusal, EmptyReply
<1>4. a[1] = "SLL" /\ id \in PortIDs /\ l = DevicePort(id).labels
    OBVIOUS
<1> HIDE DEF a, id, l
<1>5. DOMAIN l = 1 .. Len(l) /\ Len(l) \in 0 .. 9
    BY <1>2
<1> DEFINE k == Len(l)
<1>6. ASSUME NEW i \in 1 .. k
      PROVE  Label(i) \in RawAnswerOn(ch)
    <2>1. i - 1 \in 0 .. 9
        <3>1. k \in 0 .. 9
            BY <1>5
        <3> HIDE DEF k
        <3> QED
            BY <3>1
    <2> DEFINE c == Number(i - 1)
               d == l[i]
    <2>2. c \in Seq(Char)
        BY <2>1, NumberType
    <2>3. d \in Seq(Char)
        BY <1>2
    <2>4. \E n \in DOMAIN l : c = Number(n - 1) /\ d = l[n]
        BY <1>5
    <2> HIDE DEF c, d
    <2>5. Truthful(<<a, id, c, d>>)
        BY <1>4, <2>4 DEF Truthful, IsTrue, Blank
    <2>6. Answer(ch, <<a, id, c, d>>) \in RawAnswerOn(ch)
        BY <1>2, <2>2, <2>3, <2>5, RawAnswers
    <2> QED
        BY <2>6 DEF c, d
<1> HIDE DEF Label
<1> DEFINE all == [i \in DOMAIN l |-> Label(i)]
<1>7. all \in Seq(RawAnswerOn(ch))
    <2>1. all = [i \in 1 .. k |-> Label(i)] /\ k \in Nat
        BY <1>5
    <2> HIDE DEF k
    <2> QED
        BY <1>6, <2>1
<1>8. <<>> \in Seq(RawAnswerOn(ch))
    OBVIOUS
<1> HIDE DEF all
<1> QED
    BY <1>3, <1>7, <1>8 DEF all

\* the description of a group,
LEMMA GroupInfoType ==
    ASSUME ConfigOK, NEW i \in DOMAIN config.groups, i = FoundAt(config.groups, config.groups[i].id),
           NEW ch \in 0 .. 99
    PROVE  Answer(ch, GroupInfo(config.groups[i])) \in RawAnswerOn(ch)
<1> DEFINE g == config.groups[i]
           a == <<"GI">>
           id == g.id
           parent == g.parent
           n == Number(0)
<1>1. GroupInfo(g) = <<a, id, id, parent, n>>
    BY DEF GroupInfo
<1>2. "GI" \in Names
    BY DEF Names
<1>3. a \in Seq(Char) /\ id \in Seq(Char) /\ parent \in Seq(Char) /\ n \in Seq(Char)
    <2>1. a \in Seq(Char)
        BY <1>2, NameType
    <2>2. id \in Seq(Char) /\ parent \in Seq(Char)
        BY GroupAt
    <2>3. n \in Seq(Char)
        BY NumberType
    <2> QED
        BY <2>1, <2>2, <2>3
<1>4. a[1] = "GI" /\ id \in GroupIDs /\ parent = ParentOf(id)
    BY DEF GroupIDs, ParentOf
<1> HIDE DEF a, id, parent, n
<1>5. Truthful(<<a, id, id, parent, n>>)
    BY <1>4 DEF Truthful, IsTrue, Blank
<1>6. Answer(ch, <<a, id, id, parent, n>>) \in RawAnswerOn(ch)
    BY <1>3, <1>5, RawAnswers
<1> QED
    BY <1>1, <1>6

\* The information and the states are computed port by port.
RawReplyOn(ch) ==
    [sent : Seq(RawAnswerOn(ch)),
     parts1 : {none} \cup {config.ports[i].id : i \in DOMAIN config.ports},
     status : {"OK", "refused", "crashed"}]

\* the extended info of a port,
LEMMA InfoType ==
    ASSUME ConfigOK, NEW i \in DOMAIN config.ports
    PROVE  InfoFor(config.ports[i].id) \in Seq(Char)
<1> DEFINE list == config.ports
           id == list[i].id
           at == FoundAt(list, id)
<1>1. list \in Seq(PortType) /\ i \in DOMAIN list
    BY DEF ConfigOK
<1> HIDE DEF list
<1>2. DOMAIN list = 1 .. Len(list)
    BY <1>1
<1>3. at \in DOMAIN list
    <2>1. i \in 1 .. Len(list) /\ list[i].id = id
        BY <1>1, <1>2
    <2> HIDE DEF id
    <2> QED
        BY <1>1, <1>2, <2>1, FoundIsThere
<1> HIDE DEF at
<1>4. PortOK(list[at])
    BY <1>3, PortAt DEF list
<1>5. ExtendedInfo(list[at]) \in Seq(Char)
    BY <1>4, PortTexts
<1> QED
    BY <1>5 DEF InfoFor, list, at, id

\* the infos that are sent of one port,
LEMMA InfosType ==
    ASSUME ConfigOK, NEW ch \in 0 .. 99, NEW reply \in RawReplyOn(ch), NEW i \in DOMAIN config.ports
    PROVE  InfosOfPort(ch, reply, config.ports[i]) \in RawReplyOn(ch)
<1> DEFINE port == config.ports[i]
           ids == {config.ports[k].id : k \in DOMAIN config.ports}
           based == IF port.kind = "streaming" THEN reply
                    ELSE [reply EXCEPT !.parts1 = port.id,
                                       !.sent = Append(@, Answer(ch, PortInfo(port)))]
           id == based.parts1
           e == <<"EPI">>
           info == InfoFor(id)
           more == Answer(ch, <<e, id, info>>)
           S == {"OK", "refused", "crashed"}
           R == [sent : Seq(RawAnswerOn(ch)), parts1 : {none} \cup ids, status : S]
<1>1. InfosOfPort(ch, reply, port) =
         IF reply.status = "crashed" \/ id = none THEN [reply EXCEPT !.status = "crashed"]
         ELSE [based EXCEPT !.sent = Append(@, more)]
    BY DEF InfosOfPort
<1>2. PortOK(port) /\ port.id \in ids
    BY PortAt
<1>3. Answer(ch, PortInfo(port)) \in RawAnswerOn(ch)
    BY <1>2, PortInfoType DEF PortIDs
<1>4. RawReplyOn(ch) = R /\ "crashed" \in S
    BY DEF RawReplyOn
<1>5. \A k \in ids : k \in Seq(Char) /\ InfoFor(k) \in Seq(Char)
    BY PortAt, PortTexts, InfoType
<1>6. "EPI" \in Names
    BY DEF Names
<1>7. e \in Seq(Char)
    BY <1>6, NameType
<1> DEFINE Told(k, said) == Truthful(<<e, k, said>>)
<1>8. \A k \in ids : Told(k, InfoFor(k))
    BY DEF Truthful, IsTrue, Blank, PortIDs
<1> HIDE DEF port, ids, e, S
<1>9. based \in R
    <2> DEFINE x == Answer(ch, PortInfo(port))
               y == [reply EXCEPT !.parts1 = port.id]
    <2>1. y \in R /\ x \in RawAnswerOn(ch)
        BY <1>2, <1>3, <1>4
    <2>2. based = IF port.kind = "streaming" THEN reply ELSE [y EXCEPT !.sent = Append(@, x)]
        OBVIOUS
    <2> HIDE DEF x, y
    <2>3. [y EXCEPT !.sent = Append(@, x)] \in R
        BY <2>1
    <2> HIDE DEF based, R
    <2> QED
        BY <1>4, <2>2, <2>3
<1>10. id \in {none} \cup ids
    BY <1>9
<1> HIDE DEF based, info, id
<1>11. [reply EXCEPT !.status = "crashed"] \in R
    BY <1>4
<1>12. ASSUME id # none
       PROVE  [based EXCEPT !.sent = Append(@, more)] \in R
    <2>1. id \in Seq(Char) /\ info \in Seq(Char)
        BY <1>5, <1>10, <1>12 DEF info
    <2>2. Told(id, info)
        BY <1>10, <1>12, <1>8 DEF info
    <2>3. more \in RawAnswerOn(ch)
        BY <1>7, <2>1, <2>2, RawAnswers
    <2> HIDE DEF more
    <2> QED
        BY <1>9, <2>3
<1> HIDE DEF R, more
<1> QED
    BY <1>1, <1>4, <1>11, <1>12 DEF port

\* and its states.
LEMMA StatesType ==
    ASSUME ConfigOK, NEW ch \in 0 .. 99, NEW reply \in RawReplyOn(ch), NEW i \in DOMAIN config.ports,
           NEW dangling \in Dangling
    PROVE  StatesOfPort(ch, reply, config.ports[i], dangling) \in RawReplyOn(ch)
<1> DEFINE port == config.ports[i]
           portID == port.id
           dps == <<"DPS">>
           nok == <<"NOK">>
           err == <<"Err">>
           eps == <<"EPS">>
           code == <<"29">>
           state == PortState(portID)
           why == PortMessage
           State == CASE port.access = "OK" -> <<dps, portID, state>>
                      [] port.access = "DENIED" -> <<nok, code, why>>
                      [] port.access = "PORT_ERROR" -> <<err, portID, why>>
           id == IF port.access = "DENIED" THEN dangling ELSE portID
           more == ExtendedState(id)
           first == Answer(ch, State)
           second == Answer(ch, <<eps, id, more>>)
<1>1. PortOK(port)
    BY PortAt
<1>2. StatesOfPort(ch, reply, port, dangling) =
         IF port.kind = "streaming" \/ port.access = "FAILED" THEN reply
         ELSE [reply EXCEPT !.sent = @ \o <<first, second>>]
    BY DEF StatesOfPort
<1>3. port.access \in {"OK", "DENIED", "PORT_ERROR", "FAILED"}
    BY <1>1 DEF PortOK, PortType
<1>4. portID \in Seq(Char) /\ state \in Seq(Char)
    BY <1>1, PortTexts
<1>5. /\ "DPS" \in Names /\ "NOK" \in Names /\ "Err" \in Names /\ "EPS" \in Names
      /\ "29" \in Names /\ "why" \in Names /\ "more" \in Names
    BY DEF Names
<1>6. /\ dps \in Seq(Char) /\ nok \in Seq(Char) /\ err \in Seq(Char) /\ eps \in Seq(Char)
      /\ code \in Seq(Char) /\ why \in Seq(Char)
    BY <1>5, NameType DEF PortMessage
<1>7. portID \in PortIDs
    BY DEF PortIDs
<1>8. /\ dps[1] = "DPS" /\ nok[1] = "NOK" /\ err[1] = "Err" /\ eps[1] = "EPS"
      /\ state = PortState(portID)
    OBVIOUS
<1> HIDE DEF portID, dps, nok, err, eps, code, state, why
<1>9. id \in Seq(Char) /\ more \in Seq(Char)
    <2>1. id \in Seq(Char)
        BY <1>4, DanglingType
    <2> DEFINE m == <<"more">>
    <2>2. m \in Seq(Char)
        BY <1>5, NameType
    <2>3. more = m \o id
        BY DEF ExtendedState
    <2> HIDE DEF id, m, more
    <2> QED
        BY <2>1, <2>2, <2>3
<1>10. id \in Dangling \cup PortIDs /\ more = ExtendedState(id)
    BY <1>7
<1> HIDE DEF id, port, more
<1>11. Truthful(<<eps, id, more>>)
    BY <1>8, <1>10 DEF Truthful, IsTrue, Blank
<1>12. Truthful(<<dps, portID, state>>)
    BY <1>7, <1>8 DEF Truthful, IsTrue, Blank
<1>13. Truthful(<<nok, code, why>>) /\ Truthful(<<err, portID, why>>)
    BY <1>8, OtherAnswer
<1>14. second \in RawAnswerOn(ch)
    BY <1>6, <1>9, <1>11, RawAnswers
<1>15. /\ Answer(ch, <<dps, portID, state>>) \in RawAnswerOn(ch)
       /\ Answer(ch, <<nok, code, why>>) \in RawAnswerOn(ch)
       /\ Answer(ch, <<err, portID, why>>) \in RawAnswerOn(ch)
    BY <1>4, <1>6, <1>12, <1>13, RawAnswers
<1>16. port.access # "FAILED" => first \in RawAnswerOn(ch)
    BY <1>3, <1>15
<1> HIDE DEF first, second
<1>17. ASSUME port.access # "FAILED"
       PROVE  [reply EXCEPT !.sent = @ \o <<first, second>>] \in RawReplyOn(ch)
    <2>1. first \in RawAnswerOn(ch) /\ second \in RawAnswerOn(ch)
        BY <1>14, <1>16, <1>17
    <2>2. reply.sent \in Seq(RawAnswerOn(ch)) /\ <<first, second>> \in Seq(RawAnswerOn(ch))
        BY <2>1 DEF RawReplyOn
    <2>3. reply.sent \o <<first, second>> \in Seq(RawAnswerOn(ch))
        BY <2>2, ConcatProperties
    <2> QED
        BY <2>3 DEF RawReplyOn
<1> QED
    BY <1>2, <1>17 DEF port

\* The infos of all ports are texts when those of each port are.
LEMMA AllInfosType ==
    ASSUME ConfigOK, NEW ch \in 0 .. 99
    PROVE  LET replies[n \in 0 .. Len(config.ports)] ==
                   IF n = 0 THEN EmptyReply
                   ELSE InfosOfPort(ch, replies[n - 1], config.ports[n])
           IN replies[Len(config.ports)] \in RawReplyOn(ch)
<1> DEFINE list == config.ports
           N == Len(list)
           Advance(reply, i) == InfosOfPort(ch, reply, list[i])
           step == [i \in 1 .. N |-> [reply \in RawReplyOn(ch) |-> Advance(reply, i)]]
           IsReplies(f) == f = [n \in 0 .. N |-> IF n = 0 THEN EmptyReply ELSE Advance(f[n - 1], n)]
           replies == CHOOSE f : IsReplies(f)
<1>1. DOMAIN list = 1 .. N /\ N \in Nat
    BY DEF ConfigOK
<1>2. EmptyReply \in RawReplyOn(ch)
    BY DEF EmptyReply, RawReplyOn
<1>3. \A reply \in RawReplyOn(ch), i \in 1 .. N : Advance(reply, i) \in RawReplyOn(ch)
    BY <1>1, InfosType
<1> HIDE DEF Advance
<1>4. step \in [1 .. N -> [RawReplyOn(ch) -> RawReplyOn(ch)]]
    BY <1>3
<1> HIDE DEF step, N
<1>5. PICK f : Recursive(f, RawReplyOn(ch), EmptyReply, N, step)
    BY <1>1, <1>2, <1>4, Recursion
<1>6. /\ f \in [0 .. N -> RawReplyOn(ch)] /\ f[0] = EmptyReply
      /\ \A n \in 1 .. N : f[n] = step[n][f[n - 1]]
    BY <1>5 DEF Recursive
<1>7. \A n \in 1 .. N : f[n] = Advance(f[n - 1], n)
    <2> SUFFICES ASSUME NEW n \in 1 .. N
                 PROVE  f[n] = Advance(f[n - 1], n)
        OBVIOUS
    <2>1. n - 1 \in 0 .. N
        BY <1>1
    <2>2. f[n - 1] \in RawReplyOn(ch)
        BY <1>6, <2>1
    <2>3. step[n][f[n - 1]] = Advance(f[n - 1], n)
        BY <2>2 DEF step
    <2> QED
        BY <1>6, <2>3
<1>8. IsReplies(f)
    <2>1. f = [n \in 0 .. N |-> f[n]]
        BY <1>6
    <2>2. \A n \in 0 .. N : f[n] = IF n = 0 THEN EmptyReply ELSE Advance(f[n - 1], n)
        BY <1>1, <1>6, <1>7
    <2> QED
        BY <2>1, <2>2
<1>9. IsReplies(replies)
    <2> HIDE DEF IsReplies
    <2> QED
        BY <1>8
<1> HIDE DEF replies
<1>10. /\ replies[0] = EmptyReply
       /\ \A n \in 1 .. N : replies[n] = Advance(replies[n - 1], n)
    <2>1. \A n \in 0 .. N : replies[n] = IF n = 0 THEN EmptyReply ELSE Advance(replies[n - 1], n)
        BY <1>9
    <2> QED
        BY <1>1, <2>1
<1> DEFINE Good == {n \in 0 .. N : replies[n] \in RawReplyOn(ch)}
<1>11. replies[N] \in RawReplyOn(ch)
    <2>1. 0 \in Good
        BY <1>1, <1>2, <1>10
    <2>2. ASSUME NEW n \in Nat, n < N, n \in Good
          PROVE  n + 1 \in Good
        <3>1. n + 1 \in 1 .. N /\ (n + 1) - 1 = n
            BY <1>1, <2>2
        <3>2. replies[n + 1] = Advance(replies[n], n + 1) /\ replies[n] \in RawReplyOn(ch)
            BY <1>10, <2>2, <3>1
        <3> QED
            BY <1>1, <1>3, <3>1, <3>2
    <2> HIDE DEF Good
    <2>3. 0 .. N \subseteq Good
        BY <1>1, <2>1, <2>2, Induction
    <2>4. N \in Good
        BY <1>1, <2>3
    <2> QED
        BY <2>4 DEF Good
<1> QED
    BY <1>11 DEF replies, N, Advance

\* The states of all ports are texts when those of each port are.
LEMMA AllStatesType ==
    ASSUME ConfigOK, NEW ch \in 0 .. 99, NEW dangling \in Dangling
    PROVE  LET replies[n \in 0 .. Len(config.ports)] ==
                   IF n = 0 THEN EmptyReply
                   ELSE StatesOfPort(ch, replies[n - 1], config.ports[n], dangling)
           IN replies[Len(config.ports)] \in RawReplyOn(ch)
<1> DEFINE list == config.ports
           N == Len(list)
           Advance(reply, i) == StatesOfPort(ch, reply, list[i], dangling)
           step == [i \in 1 .. N |-> [reply \in RawReplyOn(ch) |-> Advance(reply, i)]]
           IsReplies(f) == f = [n \in 0 .. N |-> IF n = 0 THEN EmptyReply ELSE Advance(f[n - 1], n)]
           replies == CHOOSE f : IsReplies(f)
<1>1. DOMAIN list = 1 .. N /\ N \in Nat
    BY DEF ConfigOK
<1>2. EmptyReply \in RawReplyOn(ch)
    BY DEF EmptyReply, RawReplyOn
<1>3. \A reply \in RawReplyOn(ch), i \in 1 .. N : Advance(reply, i) \in RawReplyOn(ch)
    BY <1>1, StatesType
<1> HIDE DEF Advance
<1>4. step \in [1 .. N -> [RawReplyOn(ch) -> RawReplyOn(ch)]]
    BY <1>3
<1> HIDE DEF step, N
<1>5. PICK f : Recursive(f, RawReplyOn(ch), EmptyReply, N, step)
    BY <1>1, <1>2, <1>4, Recursion
<1>6. /\ f \in [0 .. N -> RawReplyOn(ch)] /\ f[0] = EmptyReply
      /\ \A n \in 1 .. N : f[n] = step[n][f[n - 1]]
    BY <1>5 DEF Recursive
<1>7. \A n \in 1 .. N : f[n] = Advance(f[n - 1], n)
    <2> SUFFICES ASSUME NEW n \in 1 .. N
                 PROVE  f[n] = Advance(f[n - 1], n)
        OBVIOUS
    <2>1. n - 1 \in 0 .. N
        BY <1>1
    <2>2. f[n - 1] \in RawReplyOn(ch)
        BY <1>6, <2>1
    <2>3. step[n][f[n - 1]] = Advance(f[n - 1], n)
        BY <2>2 DEF step
    <2> QED
        BY <1>6, <2>3
<1>8. IsReplies(f)
    <2>1. f = [n \in 0 .. N |-> f[n]]
        BY <1>6
    <2>2. \A n \in 0 .. N : f[n] = IF n = 0 THEN EmptyReply ELSE Advance(f[n - 1], n)
        BY <1>1, <1>6, <1>7
    <2> QED
        BY <2>1, <2>2
<1>9. IsReplies(replies)
    <2> HIDE DEF IsReplies
    <2> QED
        BY <1>8
<1> HIDE DEF replies
<1>10. /\ replies[0] = EmptyReply
       /\ \A n \in 1 .. N : replies[n] = Advance(replies[n - 1], n)
    <2>1. \A n \in 0 .. N : replies[n] = IF n = 0 THEN EmptyReply ELSE Advance(replies[n - 1], n)
        BY <1>9
    <2> QED
        BY <1>1, <2>1
<1> DEFINE Good == {n \in 0 .. N : replies[n] \in RawReplyOn(ch)}
<1>11. replies[N] \in RawReplyOn(ch)
    <2>1. 0 \in Good
        BY <1>1, <1>2, <1>10
    <2>2. ASSUME NEW n \in Nat, n < N, n \in Good
          PROVE  n + 1 \in Good
        <3>1. n + 1 \in 1 .. N /\ (n + 1) - 1 = n
            BY <1>1, <2>2
        <3>2. replies[n + 1] = Advance(replies[n], n + 1) /\ replies[n] \in RawReplyOn(ch)
            BY <1>10, <2>2, <3>1
        <3> QED
            BY <1>1, <1>3, <3>1, <3>2
    <2> HIDE DEF Good
    <2>3. 0 .. N \subseteq Good
        BY <1>1, <2>1, <2>2, Induction
    <2>4. N \in Good
        BY <1>1, <2>3
    <2> QED
        BY <2>4 DEF Good
<1> QED
    BY <1>11 DEF replies, N, Advance

\* All that a handler sends is an answer, whatever the request.
LEMMA ReplyType ==
    ASSUME ConfigOK, NEW ch \in 0 .. 99, NEW parts, NEW dangling \in Dangling
    PROVE  Reply(ch, parts, dangling).sent \in Seq(RawAnswerOn(ch))
<1> DEFINE reply == Reply(ch, parts, dangling)
           infos == LET replies[n \in 0 .. Len(config.ports)] ==
                            IF n = 0 THEN EmptyReply
                            ELSE InfosOfPort(ch, replies[n - 1], config.ports[n])
                    IN replies[Len(config.ports)]
           states == LET replies[n \in 0 .. Len(config.ports)] ==
                             IF n = 0 THEN EmptyReply
                             ELSE StatesOfPort(ch, replies[n - 1], config.ports[n], dangling)
                     IN replies[Len(config.ports)]
           g == FoundAt(config.groups, parts[2])
           p == FoundAt(config.ports, parts[2])
           caps == Replies(DeviceCaps(ch))
           group == Replies(<<Answer(ch, GroupInfo(config.groups[g]))>>)
           labels == LabelsOf(ch, config.ports[p])
           device == Replies(<<Answer(ch, << <<"EDI">>, DeviceInfo >>)>>)
<1>1. \/ reply \in {caps, infos, states, device, Refusal, EmptyReply}
      \/ g # 0 /\ reply = group
      \/ p # 0 /\ reply = labels
    <2> DEFINE gDC == parts[1] = <<"gDC">>
               gAPI == parts[1] = <<"gAPI">>
               gAPS == parts[1] = <<"gAPS">>
               gGI == parts[1] = <<"gGI">> /\ Len(parts) > 1
               gASL == parts[1] = <<"gASL">> /\ Len(parts) > 1
               gEDI == parts[1] = <<"gEDI">>
               short == parts[1] \in {<<"gGI">>, <<"gASL">>} /\ Len(parts) = 1
    <2>1. reply = CASE gDC -> caps
                    [] gAPI -> infos
                    [] gAPS -> states
                    [] gGI -> IF g = 0 THEN Refusal ELSE group
                    [] gASL -> IF p = 0 THEN Refusal ELSE labels
                    [] gEDI -> device
                    [] short -> Refusal
                    [] OTHER -> EmptyReply
        BY DEF Reply
    <2> HIDE DEF reply, gDC, gAPI, gAPS, gGI, gASL, gEDI, short, caps, infos, states, group,
                 labels, device, g, p
    <2> QED
        BY <2>1
<1>2. infos \in RawReplyOn(ch) /\ states \in RawReplyOn(ch)
    BY AllInfosType, AllStatesType
<1>3. infos.sent \in Seq(RawAnswerOn(ch)) /\ states.sent \in Seq(RawAnswerOn(ch))
    <2> HIDE DEF infos, states
    <2> QED
        BY <1>2 DEF RawReplyOn
<1>4. caps.sent \in Seq(RawAnswerOn(ch))
    <2> DEFINE x == DeviceCaps(ch)
    <2>1. x \in Seq(RawAnswerOn(ch))
        BY CapsType
    <2> HIDE DEF x
    <2>2. Replies(x).sent = x
        BY DEF Replies, EmptyReply
    <2> QED
        BY <2>1, <2>2 DEF x
<1>5. ASSUME g # 0
      PROVE  group.sent \in Seq(RawAnswerOn(ch))
    <2> DEFINE x == Answer(ch, GroupInfo(config.groups[g]))
    <2>1. g \in DOMAIN config.groups /\ g = FoundAt(config.groups, config.groups[g].id)
        BY <1>5, FoundIsThere DEF ConfigOK
    <2> HIDE DEF g
    <2>2. x \in RawAnswerOn(ch)
        BY <2>1, GroupInfoType
    <2> HIDE DEF x
    <2> DEFINE y == <<x>>
    <2>3. y \in Seq(RawAnswerOn(ch))
        BY <2>2, Single
    <2> HIDE DEF y
    <2>4. Replies(y).sent = y
        BY DEF Replies, EmptyReply
    <2> QED
        BY <2>3, <2>4 DEF y, x
<1>6. ASSUME p # 0
      PROVE  labels.sent \in Seq(RawAnswerOn(ch))
    <2> DEFINE port == config.ports[p]
    <2>1. p \in DOMAIN config.ports /\ p = FoundAt(config.ports, port.id)
        BY <1>6, FoundIsThere DEF ConfigOK
    <2> HIDE DEF p
    <2>2. PortOK(port) /\ port.id \in PortIDs /\ port = DevicePort(port.id)
        BY <2>1, PortAt DEF PortIDs, DevicePort
    <2> HIDE DEF port
    <2>3. LabelsOf(ch, port).sent \in Seq(RawAnswerOn(ch))
        BY <2>2, LabelsType
    <2> QED
        BY <2>3 DEF port
<1>7. device.sent \in Seq(RawAnswerOn(ch))
    <2> DEFINE a == <<"EDI">>
               b == DeviceInfo
               x == Answer(ch, <<a, b>>)
    <2>1. "EDI" \in Names /\ "about" \in Names
        BY DEF Names
    <2>2. a \in Seq(Char) /\ b \in Seq(Char)
        BY <2>1, NameType DEF DeviceInfo
    <2> HIDE DEF b
    <2>6. Truthful(<<a, b>>)
        BY OtherAnswer
    <2> HIDE DEF a
    <2>3. x \in RawAnswerOn(ch)
        BY <2>2, <2>6, RawAnswers
    <2> HIDE DEF x
    <2> DEFINE y == <<x>>
    <2>4. y \in Seq(RawAnswerOn(ch))
        BY <2>3, Single
    <2> HIDE DEF y
    <2>5. Replies(y).sent = y
        BY DEF Replies, EmptyReply
    <2> QED
        BY <2>4, <2>5 DEF y, x, a, b
<1>8. Refusal.sent \in Seq(RawAnswerOn(ch)) /\ EmptyReply.sent \in Seq(RawAnswerOn(ch))
    BY DEF Refusal, EmptyReply
<1> HIDE DEF reply, caps, infos, states, group, labels, device, g, p
<1>9. reply.sent \in Seq(RawAnswerOn(ch))
    BY <1>1, <1>3, <1>4, <1>5, <1>6, <1>7, <1>8
<1> QED
    BY <1>9 DEF reply

\* What can be sent has no terminator.
LEMMA SendableGood ==
    ASSUME NEW a \in RawAnswer, Sendable(a)
    PROVE  a \in GoodAnswer
<1> DEFINE text == strings_join(a.parts, Separator)
<1>1. a.parts \in Seq(Seq(Char))
    BY DEF RawAnswer
<1>2. text \in Seq(Char)
    BY <1>1, SomeCharacters, JoinType
<1>3. Encodable(text)
    BY DEF Sendable
<1> HIDE DEF text
<1>4. \A i \in 1 .. Len(text) : text[i] \in Char /\ text[i] # Terminator
    BY <1>2, <1>3 DEF Encodable, Contains
<1>5. text \in Seq(Payload)
    BY <1>2, <1>4 DEF Payload
<1> QED
    BY <1>5 DEF GoodAnswer, text

\* So is the message of an error.
ErrorAnswer == Answer(0, << <<"Err">>, <<"8">> >>)

\* The report of an error can be encoded.
LEMMA ErrorGood == ErrorAnswer \in GoodAnswer
<1> DEFINE a == <<"Err">>
           b == <<"8">>
           parts == <<a, b>>
           zero == 0
<1>1. "Err" \in Names /\ "8" \in Names
    BY DEF Names
<1>2. "Err" # Terminator /\ "8" # Terminator
    BY DEF Terminator
<1>3. "Err" \in Payload /\ "8" \in Payload
    BY <1>1, <1>2 DEF Payload, Char
<1>4. a \in Seq(Payload) /\ b \in Seq(Payload)
    BY <1>3, Single
<1>5. a \in Seq(Char) /\ b \in Seq(Char)
    BY <1>1, NameType
<1>6. zero \in 0 .. 99
    OBVIOUS
<1>7. ErrorAnswer = Answer(zero, parts) /\ Truthful(parts)
    BY OtherAnswer DEF ErrorAnswer
<1> HIDE DEF a, b, zero
<1>8. Answer(zero, parts) \in RawAnswer
    <2>1. Answer(zero, parts) \in RawAnswerOn(zero)
        BY <1>5, <1>6, <1>7, RawAnswers
    <2> QED
        BY <1>6, <2>1, AnyChannel
<1>9. parts \in Seq(Seq(Payload))
    BY <1>4
<1>10. Answer(zero, parts).parts = parts
    BY DEF Answer
<1> HIDE DEF parts
<1>11. strings_join(parts, Separator) \in Seq(Payload)
    BY <1>9, SomeCharacters, JoinType
<1> QED
    BY <1>7, <1>8, <1>10, <1>11 DEF GoodAnswer

\* What is sent of a reply can be sent, and the last may be an error.
LEMMA SentType ==
    ASSUME NEW reply, reply.sent \in Seq(RawAnswer)
    PROVE  Sent(reply) \in Seq(GoodAnswer)
<1> DEFINE s == reply.sent
           bad == {i \in 1 .. Len(s) : ~Sendable(s[i])}
           failing == SelectInSeq(s, LAMBDA a : ~Sendable(a))
           before == SubSeq(s, 1, failing - 1)
<1>1. failing = IF bad = {} THEN 0 ELSE Min(bad)
    BY DEF SelectInSeq
<1>2. Sent(reply) = IF failing # 0 THEN Append(before, ErrorAnswer)
                    ELSE IF reply.status = "refused" THEN Append(s, ErrorAnswer) ELSE s
    BY DEF Sent, ErrorAnswer
<1>3. s \in Seq(RawAnswer)
    OBVIOUS
<1> HIDE DEF failing, before, s
<1>4. \A i \in 1 .. Len(s) : s[i] \in RawAnswer /\ (Sendable(s[i]) => s[i] \in GoodAnswer)
    BY <1>3, SendableGood
<1>5. CASE failing = 0
    <2>1. \A n \in bad : n \in Nat /\ n # 0
        OBVIOUS
    <2>2. bad = {}
        <3> SUFFICES ASSUME bad # {}
                     PROVE  FALSE
            OBVIOUS
        <3>1. bad \in SUBSET Nat
            OBVIOUS
        <3> HIDE DEF bad
        <3>2. PICK n \in bad : \A k \in bad : n <= k
            BY <3>1, LeastNumber
        <3>3. Min(bad) \in bad
            BY <3>2 DEF Min
        <3> QED
            BY <1>1, <1>5, <2>1, <3>3
    <2>3. \A i \in 1 .. Len(s) : s[i] \in GoodAnswer
        BY <1>4, <2>2
    <2>4. s \in Seq(GoodAnswer)
        BY <1>3, <2>3
    <2>5. Append(s, ErrorAnswer) \in Seq(GoodAnswer)
        BY <2>4, ErrorGood
    <2> QED
        BY <1>2, <1>5, <2>4, <2>5
<1>6. CASE failing # 0
    <2>1. /\ failing \in bad
          /\ \A k \in bad : failing <= k
        <3>1. bad # {} /\ failing = Min(bad)
            BY <1>1, <1>6
        <3>2. bad \in SUBSET Nat
            OBVIOUS
        <3> HIDE DEF bad
        <3>3. PICK n \in bad : \A k \in bad : n <= k
            BY <3>1, <3>2, LeastNumber
        <3> QED
            BY <3>1, <3>3 DEF Min
    <2>2. failing \in 1 .. Len(s) /\ Len(s) \in Nat
        BY <1>3, <2>1
    <2>3. /\ Len(before) = failing - 1
          /\ \A i \in 1 .. failing - 1 : before[i] = s[i]
        BY <1>3, <2>2, SubSeqProperties DEF before
    <2>4. before \in Seq(RawAnswer)
        BY <1>3, <2>2, SubSeqProperties DEF before
    <2>5. \A i \in 1 .. failing - 1 : s[i] \in GoodAnswer
        <3> SUFFICES ASSUME NEW i \in 1 .. failing - 1
                     PROVE  s[i] \in GoodAnswer
            OBVIOUS
        <3>1. i \in 1 .. Len(s) /\ ~(failing <= i)
            BY <2>2
        <3>2. i \notin bad
            BY <2>1, <3>1
        <3> QED
            BY <1>4, <3>1, <3>2
    <2>6. before \in Seq(GoodAnswer)
        BY <2>3, <2>4, <2>5
    <2>7. Append(before, ErrorAnswer) \in Seq(GoodAnswer)
        BY <2>6, ErrorGood
    <2> QED
        BY <1>2, <1>6, <2>7
<1> QED
    BY <1>5, <1>6

-----------------------------------------------------------------------------
(* The channel of a request                                                *)

\* What the slave's decode accepts has a channel of at most two digits.
LEMMA DecodedChannel ==
    ASSUME NEW bytes, Sequence(bytes), DecodableInC(bytes)
    PROVE  Decoded(bytes).channel \in 0 .. 99
<1> DEFINE S == Separators(bytes)
           C == Range(bytes)
           first == Min(S)
           digits == SubSeq(bytes, 1, first - 1)
<1>1. bytes \in Seq(C) /\ DOMAIN bytes = 1 .. Len(bytes) /\ Len(bytes) \in Nat
    BY SequenceFacts DEF Sequence
<1>2. S \in SUBSET Nat /\ \A i \in S : i \in 1 .. Len(bytes)
    BY <1>1 DEF Separators
<1>3. /\ Cardinality(S) > 1 /\ first > 1 /\ first <= 3
      /\ \A i \in 1 .. first - 1 : Contains(Digit, bytes[i])
    BY DEF DecodableInC, Decodable, CHANNEL_MAXBUF
<1> HIDE DEF S, C
<1>4. S # {}
    <2> SUFFICES ASSUME S = {}
                 PROVE  FALSE
        OBVIOUS
    <2>1. Cardinality(S) = 0
        BY FS_EmptySet
    <2> QED
        BY <1>3, <2>1
<1>5. first \in S
    <2>1. PICK n \in S : \A k \in S : n <= k
        BY <1>2, <1>4, LeastNumber
    <2> QED
        BY <2>1 DEF Min
<1> HIDE DEF first
<1>6. first \in 1 .. Len(bytes) /\ first \in 2 .. 3
    BY <1>2, <1>3, <1>5
<1>7. /\ digits \in Seq(C) /\ Len(digits) = first - 1
      /\ \A i \in 1 .. first - 1 : digits[i] = bytes[i]
    BY <1>1, <1>6, SubSeqProperties
<1> HIDE DEF digits
<1>8. Len(digits) \in 1 .. 2 /\ \A i \in 1 .. Len(digits) : Contains(Digit, digits[i])
    BY <1>3, <1>6, <1>7
<1>9. ChannelNumber(digits) = IF Len(digits) = 1 THEN DigitValue(digits[1])
                              ELSE 10 * DigitValue(digits[1]) + DigitValue(digits[2])
    BY <1>7, <1>8, ChannelNumberIs
<1>10. \A i \in 1 .. Len(digits) : DigitValue(digits[i]) \in 0 .. 9
    BY <1>8, DigitFacts
<1>11. ChannelNumber(digits) \in 0 .. 99
    <2> DEFINE n == Len(digits)
               x == DigitValue(digits[1])
               y == DigitValue(digits[2])
    <2>1. n \in 1 .. 2 /\ x \in 0 .. 9 /\ (n = 2 => y \in 0 .. 9)
        BY <1>8, <1>10
    <2>2. ChannelNumber(digits) = IF n = 1 THEN x ELSE 10 * x + y
        BY <1>9
    <2> HIDE DEF n, x, y
    <2> QED
        BY <2>1, <2>2
<1> QED
    BY <1>11 DEF Decoded, digits, first, S

\* What is before the first terminator is a sequence.
LEMMA PartSequence ==
    ASSUME NEW s, Sequence(s), Contains(s, Terminator)
    PROVE  Sequence(Part(s))
<1> DEFINE I == {i \in 1 .. Len(s) : s[i] = Terminator}
           at == SelectInSeq(s, LAMBDA c : c = Terminator)
           T == Range(s)
<1>1. s \in Seq(T) /\ DOMAIN s = 1 .. Len(s) /\ Len(s) \in Nat
    BY SequenceFacts DEF Sequence
<1>2. at = IF I = {} THEN 0 ELSE Min(I)
    BY DEF SelectInSeq
<1>3. I # {} /\ I \in SUBSET Nat /\ \A i \in I : i \in 1 .. Len(s)
    BY <1>1 DEF Contains
<1>4. at \in 1 .. Len(s)
    <2> HIDE DEF I, at
    <2>1. PICK n \in I : \A k \in I : n <= k
        BY <1>3, LeastNumber
    <2>2. Min(I) \in I
        BY <2>1 DEF Min
    <2> QED
        BY <1>2, <1>3, <2>2
<1>5. Part(s) = SubSeq(s, 1, at - 1)
    BY DEF Part
<1> HIDE DEF at, I, T
<1>6. SubSeq(s, 1, at - 1) \in Seq(T)
    BY <1>1, <1>4, SubSeqProperties
<1> QED
    BY <1>5, <1>6, IsSequence

\* A message the slave returns has a channel of at most two digits.
LEMMA ReadChannel ==
    ASSUME NEW r, WithinBuffer(r), NEW byte, NEW cipher,
           ReadByte(r, byte, cipher).message # <<>>
    PROVE  ReadByte(r, byte, cipher).message[1].channel \in 0 .. 99
<1> DEFINE read == ReadByte(r, byte, cipher)
           Good(x) == x.message # <<>> => x.message[1].channel \in 0 .. 99
<1>1. ASSUME NEW assembled, NEW block
      PROVE  Good(Reading(assembled, block))
    BY DEF Reading
<1>2. ASSUME NEW bytes, Sequence(bytes)
      PROVE  Good(Returning(bytes))
    <2>1. CASE DecodableInC(bytes)
        <3> DEFINE m == Decoded(bytes)
        <3>1. m.channel \in 0 .. 99
            BY <1>2, <2>1, DecodedChannel
        <3> HIDE DEF m
        <3>2. Returning(bytes).message = <<m>>
            BY <2>1 DEF Returning, m
        <3> QED
            BY <3>1, <3>2
    <2>2. CASE ~DecodableInC(bytes)
        BY <2>2 DEF Returning
    <2> QED
        BY <2>1, <2>2
<1>3. Sequence(r.assembled) /\ Sequence(r.block)
    BY DEF WithinBuffer
<1> HIDE DEF Good
<1>4. Good(ReadClear(r, byte))
    BY <1>1, <1>2, <1>3 DEF ReadClear
<1>5. Good(ReadEncrypted(r, byte))
    <2> DEFINE block == Append(r.block, byte)
               assembled == r.assembled \o block
    <2>1. Sequence(block)
        BY <1>3, AppendSequence
    <2>2. Sequence(assembled) /\ (Contains(block, Terminator) => Contains(assembled, Terminator))
        <3> DEFINE a == r.assembled
                   T == Range(a) \cup Range(block)
        <3> HIDE DEF block
        <3>1. Sequence(a \o block)
            BY <1>3, <2>1, JoinSequences
        <3>2. a \in Seq(T) /\ block \in Seq(T)
            BY <1>3, <2>1 DEF Sequence
        <3> HIDE DEF a, T
        <3>3. IsJoin(a \o block, a, block)
            BY <3>2, Joined
        <3> DEFINE u == a \o block
        <3>4. ASSUME NEW i \in 1 .. Len(block), block[i] = Terminator
              PROVE  Contains(u, Terminator)
            <4>1. IsJoin(u, a, block) /\ Sequence(u)
                BY <3>1, <3>3
            <4> HIDE DEF u
            <4>2. u[Len(a) + i] = Terminator /\ Len(u) = Len(a) + Len(block)
                BY <3>4, <4>1 DEF IsJoin
            <4>3. Len(a) + i \in 1 .. Len(u) /\ DOMAIN u = 1 .. Len(u)
                BY <3>2, <4>1, <4>2, SequenceFacts
            <4> QED
                BY <4>2, <4>3 DEF Contains
        <3>5. Contains(block, Terminator) => Contains(u, Terminator)
            BY <3>2, <3>4 DEF Contains
        <3> QED
            BY <3>1, <3>5 DEF a
    <2> HIDE DEF block, assembled
    <2>3. Contains(block, Terminator) => Good(Returning(Part(assembled)))
        BY <1>2, <2>2, PartSequence
    <2>4. \/ \E a, b : ReadEncrypted(r, byte) = Reading(a, b)
          \/ Contains(block, Terminator) /\ ReadEncrypted(r, byte) = Returning(Part(assembled))
        BY DEF ReadEncrypted, block, assembled
    <2> QED
        BY <1>1, <2>3, <2>4
<1>6. Good(read)
    BY <1>4, <1>5 DEF ReadByte
<1> QED
    BY <1>6 DEF Good

-----------------------------------------------------------------------------
(* The stream of the answers                                               *)

\* Unless the connection has been disturbed, what the master has read of the bytes are
\* the first of the messages that the slave has sent, and the rest is under way.
AnswersInv ==
    ~fault =>
        /\ slaveSent \in Seq(GoodAnswer)
        /\ \E done :
              /\ Takes(done, part, toMaster, MessagesOf(slaveSent), config.cipher)
              /\ masterGot = ReceivedFrom(done)

\* The slave sends answers.
LEMMA AnswersSent ==
    ASSUME AnswersInv, ConfigOK, NEW more \in Seq(GoodAnswer),
           UNCHANGED config, UNCHANGED part, UNCHANGED masterGot, UNCHANGED fault,
           slaveSent' = slaveSent \o more,
           toMaster' = toMaster \o Wire(MessagesOf(more), config.cipher)
    PROVE  AnswersInv'
<1> SUFFICES ASSUME ~fault
             PROVE  /\ slaveSent' \in Seq(GoodAnswer)
                    /\ \E done :
                          /\ Takes(done, part, toMaster', MessagesOf(slaveSent'), config.cipher)
                          /\ masterGot = ReceivedFrom(done)
    BY DEF AnswersInv
<1>1. slaveSent \in Seq(GoodAnswer) /\ config.cipher \in BOOLEAN
    BY DEF AnswersInv, ConfigOK
<1>2. PICK done : /\ Takes(done, part, toMaster, MessagesOf(slaveSent), config.cipher)
                  /\ masterGot = ReceivedFrom(done)
    BY DEF AnswersInv
<1>3. MessagesOf(more) \in Seq(Message)
    BY MessagesType
<1>4. MessagesOf(slaveSent \o more) = MessagesOf(slaveSent) \o MessagesOf(more)
    BY <1>1, MessagesConcat
<1>5. Takes(done, part, toMaster \o Wire(MessagesOf(more), config.cipher),
            MessagesOf(slaveSent) \o MessagesOf(more), config.cipher)
    BY <1>1, <1>2, <1>3, MoreUnderWay
<1>6. slaveSent \o more \in Seq(GoodAnswer)
    BY <1>1
<1> QED
    BY <1>2, <1>4, <1>5, <1>6

\* The slave handles a request.
LEMMA HandleSends ==
    ASSUME AnswersInv, ConfigOK, NEW message, message.channel \in 0 .. 99, Handle(message),
           UNCHANGED config, UNCHANGED part, UNCHANGED masterGot, UNCHANGED fault
    PROVE  AnswersInv'
<1> DEFINE parts == SplitBySlave(message.text)
           ch == message.channel
           reply(dangling) == IF ch = 0 THEN EmptyReply ELSE Reply(ch, parts, dangling)
           answers(dangling) == Sent(reply(dangling))
<1>1. \/ UNCHANGED toMaster /\ UNCHANGED slaveSent
      \/ \E dangling \in {<<"29">>, <<Noise>>} :
            /\ slaveSent' = slaveSent \o answers(dangling)
            /\ toMaster' = toMaster \o BytesOf(answers(dangling))
    BY DEF Handle
<1>2. CASE UNCHANGED toMaster /\ UNCHANGED slaveSent
    BY <1>2 DEF AnswersInv
<1>3. ASSUME NEW dangling \in {<<"29">>, <<Noise>>},
             slaveSent' = slaveSent \o answers(dangling),
             toMaster' = toMaster \o BytesOf(answers(dangling))
      PROVE  AnswersInv'
    <2> DEFINE r == reply(dangling)
    <2>1. dangling \in Dangling
        BY DEF Dangling
    <2>2. r.sent \in Seq(RawAnswer)
        <3>1. EmptyReply.sent \in Seq(RawAnswer)
            BY DEF EmptyReply
        <3>2. Reply(ch, parts, dangling).sent \in Seq(RawAnswer)
            <4> HIDE DEF parts
            <4>1. ch \in 0 .. 99 /\ Reply(ch, parts, dangling).sent \in Seq(RawAnswerOn(ch))
                BY <2>1, ReplyType
            <4>2. RawAnswerOn(ch) \subseteq RawAnswer
                BY <4>1, AnyChannel
            <4> QED
                BY <4>1, <4>2, Larger
        <3> QED
            BY <3>1, <3>2
    <2> HIDE DEF r
    <2> DEFINE more == Sent(r)
    <2>3. more \in Seq(GoodAnswer)
        BY <2>2, SentType
    <2>4. slaveSent' = slaveSent \o more /\ toMaster' = toMaster \o BytesOf(more)
        BY <1>3 DEF r
    <2> HIDE DEF more
    <2>5. BytesOf(more) = Wire(MessagesOf(more), config.cipher)
        BY <2>3, BytesAreWire
    <2>6. toMaster' = toMaster \o Wire(MessagesOf(more), config.cipher)
        BY <2>4, <2>5
    <2> QED
        BY <2>3, <2>4, <2>6, AnswersSent
<1> HIDE DEF answers
<1> QED
    BY <1>1, <1>2, <1>3

\* What a streaming port sends is one message.
StreamAnswer == Answer(StreamChannel, << <<"x">> >>)

\* Streamed data are a message as any other on the wire.
LEMMA StreamOnWire ==
    /\ StreamAnswer \in GoodAnswer /\ Truthful(StreamAnswer.parts)
    /\ \A cipher \in BOOLEAN : OnWire(StreamChannel, <<"x">>, cipher)
                                 = Wire(MessagesOf(<<StreamAnswer>>), cipher)
<1> DEFINE c == "x"
           x == <<c>>
           parts == <<x>>
<1>1. c \in Char /\ c # Separator /\ c # Terminator
    BY DEF Char, Names, Separator, Terminator
<1> HIDE DEF c
<1>2. x \in Seq(Char) /\ x \in Seq(Payload) /\ x # <<>> /\ x = Append(<<>>, c)
    BY <1>1 DEF Payload
<1>3. Escaped(x, Separator) = x
    <2>1. <<>> \in Seq(Char) /\ <<>> \o x = x
        BY <1>2
    <2>2. Escape(c, Separator) = x
        BY <1>1 DEF Escape
    <2>3. Escaped(Append(<<>>, c), Separator) = Escaped(<<>>, Separator) \o Escape(c, Separator)
        BY <1>1, <2>1, SomeCharacters, EscapedAppend
    <2> QED
        BY <1>2, <2>1, <2>2, <2>3, EscapedEmpty
<1> HIDE DEF x
<1>4. strings_join(parts, Separator) = x
    <2> DEFINE wire == [i \in DOMAIN parts |->
                           IF parts[i] = <<>> THEN <<Blank>> ELSE Escaped(parts[i], Separator)]
    <2>1. DOMAIN parts = 1 .. 1 /\ parts[1] = x
        OBVIOUS
    <2>2. wire = [i \in 1 .. 1 |-> x]
        BY <1>2, <1>3, <2>1
    <2>3. strings_join(parts, Separator) = Separated(wire, Separator)
        BY DEF strings_join
    <2> HIDE DEF wire
    <2>4. wire = Append(<<>>, x) /\ <<>> \in Seq(Seq(Char))
        BY <2>2
    <2>5. Separated(Append(<<>>, x), Separator) = x
        BY <1>2, <2>4, SomeCharacters, SeparatedAppend
    <2> QED
        BY <2>3, <2>4, <2>5
<1>5. /\ StreamAnswer = Answer(StreamChannel, parts) /\ StreamChannel \in 0 .. 99
      /\ Truthful(parts)
    BY OtherAnswer DEF StreamAnswer, StreamChannel, x, c
<1>6. StreamAnswer.parts = parts /\ StreamAnswer.channel = StreamChannel
    BY <1>5 DEF Answer
<1>7. StreamAnswer \in GoodAnswer
    <2>1. Answer(StreamChannel, parts) \in RawAnswer
        <3>1. Answer(StreamChannel, parts) \in RawAnswerOn(StreamChannel)
            BY <1>2, <1>5, RawAnswers
        <3> QED
            BY <1>5, <3>1, AnyChannel
    <2> HIDE DEF parts
    <2> QED
        BY <1>2, <1>4, <1>5, <1>6, <2>1 DEF GoodAnswer
<1>8. ASSUME NEW cipher \in BOOLEAN
      PROVE  OnWire(StreamChannel, x, cipher) = Wire(MessagesOf(<<StreamAnswer>>), cipher)
    <2> DEFINE a == StreamAnswer
               m == MessageOf(a)
               ms == <<m>>
               f == OnWire(StreamChannel, x, cipher)
    <2>1. m.channel = StreamChannel /\ m.text = x
        BY <1>4, <1>6 DEF MessageOf
    <2>2. MessagesOf(<<a>>) = ms
        <3> HIDE DEF a
        <3>1. DOMAIN <<a>> = 1 .. 1 /\ <<a>>[1] = a
            OBVIOUS
        <3>2. MessagesOf(<<a>>) = [i \in 1 .. 1 |-> m]
            BY <3>1 DEF MessagesOf
        <3> HIDE DEF m
        <3> QED
            BY <3>2
    <2>3. m \in Message
        BY <1>7 DEF GoodAnswer, RawAnswer, MessageOf, Message
    <2> HIDE DEF m
    <2>4. ms \in Seq(Message) /\ ms # <<>> /\ Head(ms) = m /\ Tail(ms) = <<>>
        BY <2>3
    <2> HIDE DEF ms
    <2>5. Wire(ms, cipher) = f \o Wire(<<>>, cipher)
        BY <2>1, <2>4, WireFirst
    <2>6. f \in Seq(Char)
        BY <1>2, <1>5, FrameType
    <2> HIDE DEF f
    <2>7. f \o <<>> = f
        BY <2>6
    <2> QED
        BY <2>2, <2>5, <2>7, WireEmpty DEF f
<1>9. Truthful(StreamAnswer.parts)
    BY <1>5, <1>6
<1>10. \A cipher \in BOOLEAN :
          OnWire(StreamChannel, <<"x">>, cipher) = Wire(MessagesOf(<<StreamAnswer>>), cipher)
    BY <1>8 DEF x, c
<1> QED
    BY <1>7, <1>9, <1>10

\* What the slave does keeps the invariant of the answers.
LEMMA SlaveStepAnswers ==
    ASSUME AnswersInv, ConfigOK, ReaderInv, SlaveReads \/ SlaveStreams
    PROVE  AnswersInv'
<1>1. UNCHANGED config /\ UNCHANGED part /\ UNCHANGED masterGot /\ UNCHANGED fault
    BY DEF SlaveReads, SlaveStreams, processorVars
<1>2. CASE SlaveReads
    <2> DEFINE read == ReadByte(reader, Head(toSlave), config.cipher)
               m == read.message[1]
    <2>1. \/ UNCHANGED toMaster /\ UNCHANGED slaveSent
          \/ read.message # <<>> /\ Handle(m)
        BY <1>2 DEF SlaveReads
    <2>2. CASE UNCHANGED toMaster /\ UNCHANGED slaveSent
        BY <1>1, <2>2 DEF AnswersInv
    <2>3. CASE read.message # <<>> /\ Handle(m)
        <3>1. m.channel \in 0 .. 99
            BY <2>3, ReadChannel DEF ReaderInv
        <3> HIDE DEF m
        <3> QED
            BY <1>1, <2>3, <3>1, HandleSends
    <2> QED
        BY <2>1, <2>2, <2>3
<1>3. CASE SlaveStreams
    <2> DEFINE more == <<StreamAnswer>>
    <2>1. config.cipher \in BOOLEAN
        BY DEF ConfigOK
    <2>2. more \in Seq(GoodAnswer)
        BY StreamOnWire, Single
    <2>3. slaveSent' = slaveSent \o more
        <3>1. slaveSent' = Append(slaveSent, StreamAnswer)
            BY <1>3 DEF SlaveStreams, StreamAnswer
        <3> QED
            BY <3>1
    <2>4. toMaster' = toMaster \o Wire(MessagesOf(more), config.cipher)
        BY <1>3, <2>1, StreamOnWire DEF SlaveStreams
    <2> HIDE DEF more
    <2> QED
        BY <1>1, <2>2, <2>3, <2>4, AnswersSent
<1> QED
    BY <1>2, <1>3

\* A sequence is what is taken of it and the rest.
LEMMA Halves ==
    ASSUME NEW S, NEW s \in Seq(S), NEW n \in 1 .. Len(s)
    PROVE  /\ SubSeq(s, 1, n) \in Seq(S) /\ Len(SubSeq(s, 1, n)) = n
           /\ SubSeq(s, n + 1, Len(s)) \in Seq(S)
           /\ Len(SubSeq(s, n + 1, Len(s))) = Len(s) - n
           /\ s = SubSeq(s, 1, n) \o SubSeq(s, n + 1, Len(s))
<1> DEFINE N == Len(s)
           a == SubSeq(s, 1, n)
           b == SubSeq(s, n + 1, N)
           u == a \o b
<1>1. N \in Nat /\ n \in 1 .. N /\ \A i \in 1 .. N : s[i] \in S
    OBVIOUS
<1>2. a \in Seq(S) /\ IsBeginning(a, s, n)
    BY <1>1, Beginning
<1> HIDE DEF a
<1>3. /\ b \in Seq(S) /\ Len(b) = N - n
      /\ \A i \in 1 .. N - n : b[i] = s[n + i]
    <2>1. n + 1 \in Int /\ N \in Int /\ \A i \in (n + 1) .. N : s[i] \in S
        BY <1>1
    <2>2. /\ b \in Seq(S) /\ Len(b) = IF n + 1 <= N THEN N - (n + 1) + 1 ELSE 0
          /\ \A i \in 1 .. N - (n + 1) + 1 : b[i] = s[(n + 1) + i - 1]
        BY <2>1, SubSeqProperties
    <2> HIDE DEF b, N
    <2>3. Len(b) = N - n
        BY <1>1, <2>2
    <2>4. \A i \in 1 .. N - n : i \in 1 .. N - (n + 1) + 1 /\ (n + 1) + i - 1 = n + i
        BY <1>1
    <2> QED
        BY <2>2, <2>3, <2>4
<1> HIDE DEF b
<1>4. u \in Seq(S) /\ IsJoin(u, a, b)
    BY <1>2, <1>3, Joined
<1> HIDE DEF u
<1>5. Len(a) = n /\ Len(u) = N
    BY <1>1, <1>2, <1>3, <1>4 DEF IsBeginning, IsJoin
<1>6. ASSUME NEW i \in 1 .. N
      PROVE  s[i] = u[i]
    <2>1. CASE i \in 1 .. n
        <3>1. u[i] = a[i] /\ a[i] = s[i]
            BY <1>2, <1>4, <1>5, <2>1 DEF IsBeginning, IsJoin
        <3> QED
            BY <3>1
    <2>2. CASE ~(i \in 1 .. n)
        <3> DEFINE j == i - n
        <3>1. j \in 1 .. N - n /\ i = n + j
            BY <1>1, <2>2
        <3> HIDE DEF j
        <3>2. u[n + j] = b[j] /\ b[j] = s[n + j]
            BY <1>3, <1>4, <1>5, <3>1 DEF IsJoin
        <3> QED
            BY <3>1, <3>2
    <2> QED
        BY <2>1, <2>2
<1>7. s = u
    BY <1>4, <1>5, <1>6, SeqEqual DEF N
<1> QED
    BY <1>2, <1>3, <1>5, <1>7 DEF u, a, b, N

\* What the master puts into its queue of some messages, and that it has read some.
Queued(messages) == Only(messages, IsReply)

\* The queue of replies only grows by messages when the processor reads.
AsSent == {MessageOf(slaveSent[i]) : i \in DOMAIN slaveSent}

MoreQueued ==
    ~fault => \E messages \in Seq(Message) :
                 messages \in Seq(AsSent) /\ inQueue' = inQueue \o Queued(messages)

\* The master reads what is there, or a part of it.
LEMMA MasterStepAnswers ==
    ASSUME AnswersInv, ConfigOK, MasterReads
    PROVE  AnswersInv' /\ MoreQueued
<1> SUFFICES ASSUME ~fault
             PROVE  /\ slaveSent' \in Seq(GoodAnswer)
                    /\ \E done :
                          /\ Takes(done, part', toMaster', MessagesOf(slaveSent'), config'.cipher)
                          /\ masterGot' = ReceivedFrom(done)
                    /\ \E messages \in Seq(Message) :
                          messages \in Seq(AsSent) /\ inQueue' = inQueue \o Queued(messages)
    BY DEF AnswersInv, MoreQueued, MasterReads
<1>1. /\ UNCHANGED config /\ UNCHANGED slaveSent
      /\ toMaster # <<>>
    BY DEF MasterReads, MasterTakes, slaveVars
<1>2. slaveSent \in Seq(GoodAnswer) /\ config.cipher \in BOOLEAN
    BY DEF AnswersInv, ConfigOK
<1> DEFINE sent == MessagesOf(slaveSent)
           cipher == config.cipher
<1>3. PICK done : Takes(done, part, toMaster, sent, cipher) /\ masterGot = ReceivedFrom(done)
    BY DEF AnswersInv
<1> HIDE DEF sent
<1>4. toMaster \in Seq(Char)
    BY <1>3 DEF Takes
<1> DEFINE N == Len(toMaster)
<1>5. PICK n : /\ n \in IF cipher THEN {BlockSize} ELSE {N} \cup {k \in ChunkSizes : k < N}
               /\ toMaster' = SubSeq(toMaster, n + 1, N)
    BY DEF MasterReads, MasterTakes
<1>6. n \in 1 .. N
    <2>1. N \in Nat /\ N # 0
        BY <1>1, <1>4
    <2>2. CASE cipher
        <3>1. Takes(done, part, toMaster, sent, TRUE)
            BY <1>3, <2>2
        <3>2. BlockSize <= N
            BY <1>1, <3>1, BlockUnderWay
        <3> QED
            BY <1>5, <2>1, <2>2, <3>2, FramingAssumption DEF FramingAssumption
    <2>3. CASE ~cipher
        <3>1. n = N \/ (n \in Nat \ {0} /\ n < N)
            BY <1>5, <2>3, BulkAssumption DEF BulkAssumption
        <3> QED
            BY <2>1, <3>1
    <2> QED
        BY <2>2, <2>3
<1> DEFINE chunk == SubSeq(toMaster, 1, n)
           rest == SubSeq(toMaster, n + 1, N)
           read == ReadChunk(part, chunk, cipher)
<1>7. /\ chunk \in Seq(Char) /\ Len(chunk) = n /\ rest \in Seq(Char) /\ Len(rest) = N - n
      /\ toMaster = chunk \o rest
    BY <1>4, <1>6, Halves
<1>8. SubSeq(toMaster, 1, N - Len(toMaster')) = chunk
    <2>1. N - (N - n) = n
        BY <1>6
    <2> QED
        BY <1>5, <1>7, <2>1
<1>9. /\ part' = read.part
      /\ masterGot' = masterGot \o ReceivedFrom(read.messages)
      /\ inQueue' = inQueue \o Queued(read.messages)
    <2> DEFINE c == SubSeq(toMaster, 1, Len(toMaster) - Len(toMaster'))
               r == ReadChunk(part, c, config.cipher)
    <2>1. part' = r.part /\ masterGot' = masterGot \o ReceivedFrom(r.messages)
        BY DEF MasterReads, ReceivedFrom, Received
    <2>2. inQueue' = inQueue \o Queued(r.messages)
        BY DEF MasterReads, Queued, Only
    <2> HIDE DEF c, chunk
    <2>3. c = chunk
        BY <1>8 DEF c
    <2> QED
        BY <2>1, <2>2, <2>3
<1> HIDE DEF chunk, N
<1>10. cipher => Len(chunk) = BlockSize
    BY <1>5, <1>7
<1>11. Takes(done, part, chunk \o rest, sent, cipher)
    BY <1>3, <1>7
<1>12. /\ done \in Seq(Message) /\ read.messages \in Seq(Message)
       /\ Takes(done \o read.messages, read.part, rest, sent, cipher)
    <2>1. cipher \in BOOLEAN /\ chunk \in Seq(Char) /\ rest \in Seq(Char)
        BY <1>2, <1>7
    <2>2. (cipher => Len(chunk) = BlockSize) /\ Takes(done, part, chunk \o rest, sent, cipher)
        BY <1>10, <1>11
    <2> HIDE DEF rest, cipher
    <2> QED
        BY <2>1, <2>2, MoreTaken
<1> HIDE DEF read, rest
<1>13. ReceivedFrom(done \o read.messages) = ReceivedFrom(done) \o ReceivedFrom(read.messages)
    BY <1>12, ReceivedConcat
<1> DEFINE now == done \o read.messages
<1>14. /\ Takes(now, part', toMaster', MessagesOf(slaveSent'), config'.cipher)
       /\ masterGot' = ReceivedFrom(now)
    BY <1>1, <1>3, <1>5, <1>9, <1>12, <1>13 DEF sent, rest, N
<1>15. \E messages \in Seq(Message) :
          messages \in Seq(AsSent) /\ inQueue' = inQueue \o Queued(messages)
    <2> DEFINE new == read.messages
    <2>1. new \in Seq(Message) /\ inQueue' = inQueue \o Queued(new)
        BY <1>9, <1>12
    <2>2. PICK pending \in Seq(Message) : JoinOf(sent, now, pending)
        BY <1>12 DEF Takes, JoinOf
    <2>3. sent \in Seq(Message) /\ \A i \in DOMAIN sent : sent[i] \in AsSent
        <3>1. sent \in Seq(Message)
            BY <1>2, MessagesType DEF sent
        <3>2. \A i \in DOMAIN sent : sent[i] \in AsSent
            BY DEF sent, MessagesOf, AsSent
        <3> QED
            BY <3>1, <3>2
    <2> HIDE DEF new
    <2>4. JoinOf(now, done, new) /\ now \in Seq(Message) /\ done \in Seq(Message)
        BY <1>12, <2>1 DEF JoinOf, new
    <2> HIDE DEF now
    <2>5. IsJoin(sent, now, pending) /\ IsJoin(now, done, new)
        BY <2>1, <2>2, <2>4, Joined DEF JoinOf
    <2>6. ASSUME NEW i \in 1 .. Len(new)
          PROVE  new[i] \in AsSent
        <3> DEFINE d == Len(done)
                   m == Len(new)
                   k == Len(now)
        <3>1. d \in Nat /\ m \in Nat /\ k \in Nat /\ Len(pending) \in Nat /\ i \in 1 .. m
            BY <2>1, <2>2, <2>4
        <3>2. k = d + m /\ now[d + i] = new[i] /\ Len(sent) = k + Len(pending)
            BY <2>5 DEF IsJoin
        <3>3. \A j \in 1 .. k : sent[j] = now[j]
            BY <2>5 DEF IsJoin
        <3> HIDE DEF d, m, k
        <3>4. d + i \in 1 .. k /\ d + i \in 1 .. Len(sent)
            BY <3>1, <3>2
        <3>5. d + i \in DOMAIN sent
            BY <2>3, <3>4
        <3> QED
            BY <2>3, <3>2, <3>3, <3>4, <3>5
    <2>7. new \in Seq(AsSent)
        BY <2>1, <2>6
    <2> QED
        BY <2>1, <2>7
<1> HIDE DEF now
<1> QED
    BY <1>1, <1>2, <1>14, <1>15

\* The query and the user do not touch the answers.
LEMMA OtherStepAnswers ==
    ASSUME AnswersInv, Query \/ QueryAgain \/ Disturb \/ UNCHANGED vars
    PROVE  AnswersInv'
<1>1. CASE Disturb
    BY <1>1 DEF Disturb, AnswersInv
<1>2. ASSUME UNCHANGED config, UNCHANGED toMaster, UNCHANGED slaveSent, UNCHANGED part,
             UNCHANGED masterGot, UNCHANGED fault
      PROVE  AnswersInv'
    BY <1>2 DEF AnswersInv
<1>3. CASE SendFirst
    BY <1>2, <1>3 DEF SendFirst, slaveVars, processorVars
<1>4. CASE SendRequest
    BY <1>2, <1>4 DEF SendRequest, RequestAnew, Request, slaveVars, processorVars
<1>5. CASE TakeMessage
    BY <1>2, <1>5 DEF TakeMessage, slaveVars
<1>6. CASE GoThroughGroups
    BY <1>2, <1>6 DEF GoThroughGroups, slaveVars, processorVars
<1>7. CASE AssignParent
    BY <1>2, <1>7 DEF AssignParent, slaveVars, processorVars
<1>8. CASE ExpectFails
    BY <1>2, <1>8 DEF ExpectFails, slaveVars, processorVars
<1>9. CASE QueryAgain
    BY <1>2, <1>9 DEF QueryAgain, slaveVars, processorVars
<1>10. CASE UNCHANGED vars
    BY <1>2, <1>10 DEF vars, slaveVars, processorVars
<1> QED
    BY <1>1, <1>3, <1>4, <1>5, <1>6, <1>7, <1>8, <1>9, <1>10 DEF Query

\* Nothing has been sent when the connection has just been made.
LEMMA InitAnswers == Init => AnswersInv
<1> SUFFICES ASSUME Init
             PROVE  AnswersInv
    OBVIOUS
<1>1. slaveSent = <<>> /\ part = <<>> /\ toMaster = <<>> /\ masterGot = <<>>
    BY DEF Init
<1>2. MessagesOf(<<>>) = <<>> /\ ReceivedFrom(<<>>) = <<>>
    BY DEF MessagesOf, ReceivedFrom
<1>3. Multiple(Len(<<>>))
    <2>1. BlockSize * 0 = 0
        BY FramingAssumption DEF FramingAssumption
    <2> QED
        BY <2>1 DEF Multiple
<1>4. Takes(<<>>, <<>>, <<>>, <<>>, config.cipher)
    <2>1. /\ <<>> \in Seq(Message) /\ <<>> \in Seq(Payload) /\ <<>> \in Seq(Char)
          /\ <<>> = <<>> \o <<>>
        OBVIOUS
    <2>2. <<>> \o <<>> = Wire(<<>>, config.cipher)
        BY <2>1, WireEmpty
    <2> QED
        BY <1>3, <2>1, <2>2 DEF Takes
<1> QED
    BY <1>1, <1>2, <1>4 DEF AnswersInv

-----------------------------------------------------------------------------
(* The theorem                                                             *)

\* What has been received of some answers is what their parts are received as.
LEMMA ReceivedIsSent ==
    ASSUME NEW a \in GoodAnswer, Unambiguous(a.parts, Separator)
    PROVE  Received(MessageOf(a)) = Answer(a.channel, MasterReceives(a.parts))
<1> DEFINE parts == a.parts
           text == strings_join(parts, Separator)
<1>1. parts \in Seq(Seq(Char)) /\ parts # <<>> /\ Unambiguous(parts, Separator)
    BY DEF GoodAnswer, RawAnswer
<1> HIDE DEF parts
<1>2. JavaSplit(text, Separator) = MasterReceives(parts)
    BY <1>1, SomeCharacters, MasterSplitsWhatSlaveJoins
<1>3. MessageOf(a).channel = a.channel /\ MessageOf(a).text = text
    BY DEF MessageOf, parts
<1> HIDE DEF text
<1> QED
    BY <1>2, <1>3 DEF Received, parts

\* A sequence is a prefix of another if their elements agree.
LEMMA Prefix ==
    ASSUME NEW S, NEW s \in Seq(S), NEW t \in Seq(S), Len(s) <= Len(t),
           \A i \in 1 .. Len(s) : s[i] = t[i]
    PROVE  IsPrefix(s, t)
<1> DEFINE n == Len(s)
           a == SubSeq(s, 1, n)
           b == SubSeq(t, 1, n)
<1>1. n \in 0 .. Len(s) /\ n \in 0 .. Len(t)
    OBVIOUS
<1>2. a \in Seq(S) /\ IsBeginning(a, s, n) /\ b \in Seq(S) /\ IsBeginning(b, t, n)
    BY <1>1, Beginning
<1>3. \A i \in 1 .. n : s[i] = t[i]
    OBVIOUS
<1> HIDE DEF a, b
<1>4. a = b
    <2>1. Len(a) = n /\ Len(b) = n
        BY <1>2 DEF IsBeginning
    <2>2. \A i \in 1 .. Len(a) : a[i] = b[i]
        BY <1>2, <1>3, <2>1 DEF IsBeginning
    <2> QED
        BY <1>2, <2>1, <2>2, SeqEqual
<1> QED
    BY <1>4 DEF a, b, IsPrefix

\* The invariant says what the master has received.
LEMMA AnswersFollow == ~fault /\ AnswersInv => AnswersFaithful
<1> SUFFICES ASSUME ~fault, AnswersInv, AllUnambiguous(slaveSent)
             PROVE  IsPrefix(masterGot, SentToMaster)
    BY DEF AnswersFaithful
<1> DEFINE sent == MessagesOf(slaveSent)
           N == Len(slaveSent)
<1>1. slaveSent \in Seq(GoodAnswer)
    BY DEF AnswersInv
<1>2. PICK done : /\ Takes(done, part, toMaster, sent, config.cipher)
                  /\ masterGot = ReceivedFrom(done)
    BY DEF AnswersInv
<1>3. N \in Nat /\ DOMAIN slaveSent = 1 .. N /\ \A i \in 1 .. N : slaveSent[i] \in GoodAnswer
    BY <1>1
<1>4. sent \in Seq(Message) /\ Len(sent) = N /\ \A i \in 1 .. N : sent[i] = MessageOf(slaveSent[i])
    <2>1. sent \in Seq(Message) /\ Len(sent) = N
        BY <1>1, MessagesType
    <2>2. \A i \in 1 .. N : sent[i] = MessageOf(slaveSent[i])
        BY <1>3 DEF MessagesOf
    <2> QED
        BY <2>1, <2>2
<1> HIDE DEF sent, N
<1>5. PICK pending \in Seq(Message) : done \in Seq(Message) /\ JoinOf(sent, done, pending)
    BY <1>2 DEF Takes, JoinOf
<1> DEFINE n == Len(done)
<1>6. n \in Nat /\ DOMAIN done = 1 .. n
    BY <1>5
<1>7. n <= N /\ \A i \in 1 .. n : done[i] = sent[i]
    <2>1. IsJoin(sent, done, pending)
        BY <1>5, Joined DEF JoinOf
    <2>2. Len(pending) \in Nat /\ N = n + Len(pending)
        BY <1>4, <1>5, <2>1 DEF IsJoin
    <2>3. \A i \in 1 .. n : done[i] = sent[i]
        BY <2>1 DEF IsJoin
    <2> QED
        BY <1>6, <2>2, <2>3
<1> HIDE DEF n
<1> DEFINE Result(i) == Answer(slaveSent[i].channel, MasterReceives(slaveSent[i].parts))
           T == {Result(i) : i \in 1 .. N}
<1>8. SentToMaster = [i \in 1 .. N |-> Result(i)]
    BY <1>3 DEF SentToMaster
<1>9. masterGot = [i \in 1 .. n |-> Received(done[i])]
    BY <1>2, <1>6 DEF ReceivedFrom
<1>10. ASSUME NEW i \in 1 .. n
       PROVE  i \in 1 .. N /\ Received(done[i]) = Result(i)
    <2>1. i \in 1 .. N
        BY <1>3, <1>6, <1>7
    <2> DEFINE a == slaveSent[i]
    <2>2. a \in GoodAnswer /\ done[i] = MessageOf(a)
        BY <1>3, <1>4, <1>7, <2>1
    <2>3. Unambiguous(a.parts, Separator)
        BY <1>3, <2>1 DEF AllUnambiguous
    <2> HIDE DEF a
    <2>4. Received(MessageOf(a)) = Answer(a.channel, MasterReceives(a.parts))
        BY <2>2, <2>3, ReceivedIsSent
    <2> QED
        BY <2>1, <2>2, <2>4 DEF a
<1>11. \A i \in 1 .. N : Result(i) \in T
    OBVIOUS
<1> HIDE DEF Result, T
<1>12. SentToMaster \in Seq(T) /\ Len(SentToMaster) = N /\ \A i \in 1 .. N : SentToMaster[i] = Result(i)
    BY <1>3, <1>8, <1>11
<1>13. masterGot \in Seq(T) /\ Len(masterGot) = n /\ \A i \in 1 .. n : masterGot[i] = Result(i)
    BY <1>6, <1>9, <1>10, <1>11
<1>14. \A i \in 1 .. Len(masterGot) : masterGot[i] = SentToMaster[i]
    BY <1>10, <1>12, <1>13
<1>15. Len(masterGot) <= Len(SentToMaster)
    BY <1>7, <1>12, <1>13
<1> QED
    BY <1>12, <1>13, <1>14, <1>15, Prefix

\* Every step keeps the invariant.
LEMMA NextAnswers == BulkInv /\ AnswersInv /\ [Next]_vars => AnswersInv'
<1> SUFFICES ASSUME BulkInv, AnswersInv, [Next]_vars
             PROVE  AnswersInv'
    OBVIOUS
<1>1. ConfigOK /\ ReaderInv
    BY ConfigFacts DEF BulkInv, FlagInv
<1>2. CASE SlaveReads \/ SlaveStreams
    BY <1>1, <1>2, SlaveStepAnswers
<1>3. CASE MasterReads
    BY <1>1, <1>3, MasterStepAnswers
<1>4. CASE Query \/ QueryAgain \/ Disturb \/ UNCHANGED vars
    BY <1>4, OtherStepAnswers
<1> QED
    BY <1>2, <1>3, <1>4 DEF Next

\* Every message the slave sends on a connection that is not disturbed arrives in order,
\* with its channel and with the parts it was sent with, up to leading blanks: for every
\* device, in the clear and with a cipher, with every number of bytes the master reads
\* at a time, and also when a streaming port sends between the bytes of a request.
THEOREM AnswersArrive == Spec => []AnswersFaithful
<1>1. Init => AnswersInv
    BY InitAnswers
<1>2. BulkInv /\ AnswersInv /\ [Next]_vars => AnswersInv'
    BY NextAnswers
<1>3. AnswersInv => AnswersFaithful
    BY AnswersFollow DEF AnswersFaithful
<1> QED
    BY <1>1, <1>2, <1>3, BulkInvariant, PTL DEF Spec

-----------------------------------------------------------------------------
(* The other direction.  What the slave does with the bytes.                *)

\* The elements of a sequence that are in a set, in order.
Chosen(s, W) == FlattenSeq([i \in DOMAIN s |-> IF s[i] \in W THEN <<s[i]>> ELSE <<>>])

\* What is chosen from one element.
ChosenAt(x, W) == IF x \in W THEN <<x>> ELSE <<>>

\* The choice is an element by element map to sequences, flattened.
LEMMA ChosenType ==
    ASSUME NEW S, NEW s \in Seq(S), NEW W
    PROVE  LET picks == [i \in DOMAIN s |-> ChosenAt(s[i], W)]
           IN /\ picks \in Seq(Seq(S)) /\ Len(picks) = Len(s)
              /\ \A i \in 1 .. Len(s) : picks[i] = ChosenAt(s[i], W)
              /\ Chosen(s, W) = FlattenSeq(picks)
              /\ Chosen(s, W) \in Seq(S)
<1> DEFINE picks == [i \in DOMAIN s |-> ChosenAt(s[i], W)]
<1>1. DOMAIN s = 1 .. Len(s) /\ Len(s) \in Nat
    OBVIOUS
<1>2. ASSUME NEW x \in S
      PROVE  ChosenAt(x, W) \in Seq(S)
    BY DEF ChosenAt
<1>3. \A i \in 1 .. Len(s) : ChosenAt(s[i], W) \in Seq(S)
    BY <1>2
<1>4. Chosen(s, W) = FlattenSeq(picks)
    BY DEF Chosen, ChosenAt
<1>5. picks \in Seq(Seq(S)) /\ Len(picks) = Len(s)
    BY <1>1, <1>3
<1>6. \A i \in 1 .. Len(s) : picks[i] = ChosenAt(s[i], W)
    BY <1>1
<1> HIDE DEF picks
<1>7. FlattenSeq(picks) \in Seq(S)
    BY <1>5, FlattenType
<1> QED
    BY <1>4, <1>5, <1>6, <1>7 DEF picks

\* What is chosen from one sequence after the other.
LEMMA ChosenConcat ==
    ASSUME NEW S, NEW s \in Seq(S), NEW t \in Seq(S), NEW W
    PROVE  Chosen(s \o t, W) = Chosen(s, W) \o Chosen(t, W)
<1> DEFINE f == [x \in S |-> ChosenAt(x, W)]
           u == s \o t
           Picks(r) == [i \in DOMAIN r |-> ChosenAt(r[i], W)]
<1>1. u \in Seq(S)
    OBVIOUS
<1> HIDE DEF u
<1>2. ASSUME NEW r \in Seq(S)
      PROVE  /\ Picks(r) \in Seq(Seq(S)) /\ IsMap(f, Picks(r), r)
             /\ Chosen(r, W) = FlattenSeq(Picks(r))
    <2>1. /\ Picks(r) \in Seq(Seq(S)) /\ Len(Picks(r)) = Len(r)
          /\ \A i \in 1 .. Len(r) : Picks(r)[i] = ChosenAt(r[i], W)
          /\ Chosen(r, W) = FlattenSeq(Picks(r))
        BY ChosenType
    <2>2. \A i \in 1 .. Len(r) : r[i] \in S
        OBVIOUS
    <2> HIDE DEF Picks
    <2>3. \A i \in 1 .. Len(r) : Picks(r)[i] = f[r[i]]
        BY <2>1, <2>2
    <2> QED
        BY <2>1, <2>3 DEF IsMap
<1> HIDE DEF f, Picks
<1>3. JoinOf(u, s, t)
    BY DEF u, JoinOf
<1>4. /\ IsMap(f, Picks(s), s) /\ IsMap(f, Picks(t), t) /\ IsMap(f, Picks(u), u)
      /\ Picks(s) \in Seq(Seq(S)) /\ Picks(t) \in Seq(Seq(S)) /\ Picks(u) \in Seq(Seq(S))
    BY <1>1, <1>2
<1>5. JoinOf(Picks(u), Picks(s), Picks(t))
    BY <1>1, <1>3, <1>4, MapsJoin
<1>6. FlattenSeq(Picks(s) \o Picks(t)) = FlattenSeq(Picks(s)) \o FlattenSeq(Picks(t))
    BY <1>4, FlattenConcat
<1>7. Chosen(u, W) = Chosen(s, W) \o Chosen(t, W)
    BY <1>1, <1>2, <1>5, <1>6 DEF JoinOf
<1> QED
    BY <1>7 DEF u

\* What is chosen from a single element, and with one more.
LEMMA ChosenSingle ==
    ASSUME NEW S, NEW x \in S, NEW W
    PROVE  Chosen(<<x>>, W) = ChosenAt(x, W)
<1> DEFINE s == <<x>>
           picks == [i \in DOMAIN s |-> ChosenAt(s[i], W)]
           y == ChosenAt(x, W)
<1>1. s \in Seq(S) /\ DOMAIN s = 1 .. 1 /\ s[1] = x
    OBVIOUS
<1>2. Chosen(s, W) = FlattenSeq(picks)
    BY DEF Chosen, ChosenAt
<1>3. picks = [i \in 1 .. 1 |-> y]
    BY <1>1
<1>4. y \in Seq(S)
    BY DEF ChosenAt
<1> HIDE DEF y, picks, s
<1>5. picks = Append(<<>>, y) /\ <<>> \in Seq(Seq(S))
    BY <1>3
<1>6. FlattenSeq(Append(<<>>, y)) = FlattenSeq(<<>>) \o y
    BY <1>4, <1>5, FlattenAppend
<1>7. <<>> \o y = y
    BY <1>4
<1> QED
    BY <1>2, <1>5, <1>6, <1>7, FlattenEmpty DEF s, y

\* What is chosen when there is one element more.
LEMMA ChosenAppend ==
    ASSUME NEW S, NEW s \in Seq(S), NEW x \in S, NEW W
    PROVE  Chosen(Append(s, x), W) = IF x \in W THEN Append(Chosen(s, W), x) ELSE Chosen(s, W)
<1> DEFINE one == <<x>>
           u == Append(s, x)
           c == Chosen(s, W)
<1>1. one \in Seq(S) /\ u = s \o one
    OBVIOUS
<1>2. Chosen(one, W) = ChosenAt(x, W)
    BY ChosenSingle
<1>3. c \in Seq(S)
    BY ChosenType
<1> HIDE DEF one, u, c
<1>4. Chosen(s \o one, W) = Chosen(s, W) \o Chosen(one, W)
    BY <1>1, ChosenConcat
<1>5. c \o <<x>> = Append(c, x) /\ c \o <<>> = c
    BY <1>3
<1> QED
    BY <1>1, <1>2, <1>4, <1>5 DEF u, c, ChosenAt

\* Nothing is chosen from nothing.
LEMMA ChosenEmpty == \A W : Chosen(<<>>, W) = <<>>
<1> TAKE W
<1>1. [i \in DOMAIN <<>> |-> ChosenAt(<<>>[i], W)] = <<>>
    OBVIOUS
<1> QED
    BY <1>1, FlattenEmpty DEF Chosen, ChosenAt

\* The slave has read a part of the pending messages, and the rest is under way.
ReadingOf(r, rest, pending, cipher) ==
    /\ r.assembled \in Seq(Payload) /\ r.block \in Seq(Char) /\ rest \in Seq(Char)
    /\ IF cipher THEN Multiple(Len(r.assembled)) /\ Len(r.block) < BlockSize
       ELSE r.block = <<>>
    /\ r.assembled \o (r.block \o rest) = Wire(pending, cipher)

\* A message whose frame is shorter than the slave's buffer, and one the slave accepts.
Short(m, cipher) == Len(OnWire(m.channel, m.text, cipher)) < BufferSize

\* The slave takes messages that have a text and fit its buffer for the text.
Accepted(m) == Len(m.text) \in 1 .. PayloadLength - 1

\* The slave still waits for the end of a message, or has returned or dropped one.
Continues(read, rest, pending, cipher) ==
    read.message = <<>> /\ ReadingOf(read.reader, rest, pending, cipher)

Completes(read, rest, pending, cipher) ==
    /\ pending # <<>>
    /\ read.message = IF Accepted(Head(pending)) THEN <<Head(pending)>> ELSE <<>>
    /\ ReadingOf(read.reader, rest, Tail(pending), cipher)

\* What has been read of a message in the clear is shorter than its frame.
LEMMA WithinFrame ==
    ASSUME NEW p \in Seq(Payload), p # <<>>, NEW rest \in Seq(Char), NEW pending \in Seq(Message),
           p \o rest = Wire(pending, FALSE)
    PROVE  pending # <<>> /\ Len(p) < Len(OnWire(Head(pending).channel, Head(pending).text, FALSE))
<1> DEFINE u == p \o rest
           m == Head(pending)
           body == Body(m.channel, m.text)
           frame == OnWire(m.channel, m.text, FALSE)
           tail == Wire(Tail(pending), FALSE)
<1>1. p \in Seq(Char) /\ Len(p) \in Nat
    BY SeqMonotonic DEF Payload
<1>2. u \in Seq(Char) /\ IsJoin(u, p, rest)
    BY <1>1, Joined
<1>3. pending # <<>>
    <2> SUFFICES ASSUME pending = <<>>
                 PROVE  FALSE
        OBVIOUS
    <2>1. p \o rest = <<>>
        BY WireEmpty
    <2> QED
        BY <1>1, <2>1, ConcatSimplifications
<1>4. m \in Message /\ Tail(pending) \in Seq(Message) /\ u = frame \o tail
    BY <1>3, WireFirst
<1>5. m.channel \in 0 .. 99 /\ m.text \in Seq(Payload)
    BY <1>4 DEF Message
<1>6. tail \in Seq(Char)
    BY <1>4, WireType
<1> HIDE DEF u, m, tail
<1>7. body \in Seq(Payload)
    BY <1>5, DecodingUndoesEncoding
<1>8. PICK padding \in Seq({Noise}) : frame = (body \o <<Terminator>>) \o padding
    BY <1>5, FrameType DEF IsFrame
<1>9. padding \in Seq(Char)
    <2>1. {Noise} \subseteq Char
        BY SomeCharacters
    <2> QED
        BY <2>1, Larger
<1> HIDE DEF frame, body
<1>10. EndsBody(frame, body, padding)
    BY <1>8 DEF EndsBody
<1>11. /\ frame \in Seq(Char) /\ Len(frame) = Len(body) + 1 + Len(padding)
       /\ frame[Len(body) + 1] = Terminator
    BY <1>7, <1>9, <1>10, FramePlaces
<1>12. IsJoin(u, frame, tail)
    BY <1>4, <1>6, <1>11, Joined
<1>13. Len(body) \in Nat /\ Len(padding) \in Nat /\ Len(frame) \in Nat
    BY <1>7, <1>9, <1>11
<1>14. ~(Len(body) + 1 <= Len(p))
    <2> SUFFICES ASSUME Len(body) + 1 <= Len(p)
                 PROVE  FALSE
        OBVIOUS
    <2>1. Len(body) + 1 \in 1 .. Len(p) /\ Len(body) + 1 \in 1 .. Len(frame)
        BY <1>1, <1>11, <1>13
    <2>2. p[Len(body) + 1] = Terminator
        BY <1>2, <1>11, <1>12, <2>1 DEF IsJoin
    <2>3. p[Len(body) + 1] \in Payload
        BY <2>1
    <2> QED
        BY <2>2, <2>3 DEF Payload
<1>15. Len(p) < Len(frame)
    BY <1>1, <1>11, <1>13, <1>14
<1> QED
    BY <1>3, <1>15 DEF frame, m

\* A message that has been assembled is decoded to what was encoded.
LEMMA ReturnsFirst ==
    ASSUME NEW pending \in Seq(Message), pending # <<>>, NEW bytes,
           bytes = Body(Head(pending).channel, Head(pending).text),
           NEW rest \in Seq(Char), NEW cipher \in BOOLEAN, rest = Wire(Tail(pending), cipher)
    PROVE  Completes(Returning(bytes), rest, pending, cipher)
<1> DEFINE m == Head(pending)
<1>1. m \in Message
    BY WireFirst
<1>2. m.channel \in 0 .. 99 /\ m.text \in Seq(Payload)
      /\ m = [channel |-> m.channel, text |-> m.text]
    BY <1>1 DEF Message
<1> HIDE DEF m
<1>3. /\ Decoded(bytes) = m
      /\ DecodableInC(bytes) <=> Accepted(m)
    BY <1>2, DecodingUndoesEncoding DEF m, Accepted
<1>4. /\ Returning(bytes).reader = EmptyReader
      /\ Returning(bytes).message = IF Accepted(m) THEN <<m>> ELSE <<>>
    BY <1>3 DEF Returning
<1>5. ReadingOf(EmptyReader, rest, Tail(pending), cipher)
    <2>1. /\ <<>> \in Seq(Payload) /\ <<>> \in Seq(Char)
          /\ EmptyReader.assembled = <<>> /\ EmptyReader.block = <<>>
        BY DEF EmptyReader
    <2>2. Multiple(Len(<<>>)) /\ Len(<<>>) < BlockSize
        <3>1. BlockSize * 0 = 0 /\ BlockSize > 0
            BY FramingAssumption DEF FramingAssumption
        <3> QED
            BY <3>1 DEF Multiple
    <2>3. <<>> \o (<<>> \o rest) = rest
        OBVIOUS
    <2> QED
        BY <2>1, <2>2, <2>3 DEF ReadingOf
<1> QED
    BY <1>4, <1>5 DEF Completes, m

\* The slave reads a byte of a short message in the clear.
LEMMA ClearByteRead ==
    ASSUME NEW r, NEW b \in Char, NEW rest \in Seq(Char), NEW pending \in Seq(Message),
           ReadingOf(r, <<b>> \o rest, pending, FALSE),
           pending # <<>> => Short(Head(pending), FALSE)
    PROVE  \/ Continues(ReadClear(r, b), rest, pending, FALSE)
           \/ Completes(ReadClear(r, b), rest, pending, FALSE)
<1> DEFINE p == r.assembled
           next == <<b>> \o rest
           q == Append(p, b)
<1>1. p \in Seq(Payload) /\ r.block = <<>> /\ next \in Seq(Char)
      /\ p \o (<<>> \o next) = Wire(pending, FALSE)
    BY DEF ReadingOf
<1>2. p \o next = Wire(pending, FALSE)
    <2> HIDE DEF next
    <2>1. <<>> \o next = next
        BY <1>1
    <2> QED
        BY <1>1, <2>1
<1> HIDE DEF p
<1>3. CASE b = Terminator
    <2>1. p \o (<<Terminator>> \o rest) = Wire(pending, FALSE)
        BY <1>2, <1>3
    <2>2. /\ pending # <<>> /\ p = Body(Head(pending).channel, Head(pending).text)
          /\ rest = Wire(Tail(pending), FALSE)
        BY <1>1, <2>1, FirstTaken
    <2>3. Completes(Returning(p), rest, pending, FALSE)
        BY <2>2, ReturnsFirst
    <2>4. ReadClear(r, b) = Returning(p)
        BY <1>3 DEF ReadClear, p
    <2> QED
        BY <2>3, <2>4
<1>4. CASE b # Terminator
    <2>1. q \in Seq(Payload) /\ q # <<>> /\ Len(q) = Len(p) + 1 /\ q = p \o <<b>>
        BY <1>1, <1>4 DEF Payload
    <2> HIDE DEF q
    <2>2. q \o rest = Wire(pending, FALSE)
        <3> DEFINE one == <<b>>
        <3>1. p \in Seq(Char) /\ one \in Seq(Char)
            BY <1>1, SeqMonotonic DEF Payload
        <3>2. q = p \o one /\ next = one \o rest
            BY <2>1
        <3> HIDE DEF one, next
        <3>3. Regrouped(p, one, rest)
            BY <3>1, Regroup
        <3> QED
            BY <1>2, <3>2, <3>3 DEF Regrouped
    <2>3. /\ pending # <<>>
          /\ Len(q) < Len(OnWire(Head(pending).channel, Head(pending).text, FALSE))
        BY <2>1, <2>2, WithinFrame
    <2>4. Len(q) < BufferSize - 1
        <3> DEFINE l == Len(OnWire(Head(pending).channel, Head(pending).text, FALSE))
        <3>1. l \in Nat
            <4>1. Head(pending) \in Message
                BY <2>3, WireFirst
            <4>2. Head(pending).channel \in 0 .. 99 /\ Head(pending).text \in Seq(Payload)
                BY <4>1 DEF Message
            <4>3. OnWire(Head(pending).channel, Head(pending).text, FALSE) \in Seq(Char)
                BY <4>2, FrameType
            <4> QED
                BY <4>3, LenProperties
        <3>2. l < BufferSize
            BY <2>3 DEF Short
        <3>3. Len(q) \in Nat
            BY <2>1, LenProperties
        <3>4. Len(q) < l /\ BufferSize \in Nat
            BY <2>3, FramingAssumption DEF FramingAssumption
        <3> HIDE DEF l
        <3> QED
            BY <3>1, <3>2, <3>3, <3>4
    <2>5. ReadClear(r, b) = Reading(q, <<>>)
        <3>1. ~Full(Len(q), BufferSize - 1)
            <4>1. Len(q) \in Nat /\ BufferSize \in Nat
                BY <2>1, FramingAssumption, LenProperties DEF FramingAssumption
            <4> QED
                BY <2>4, <4>1 DEF Full
        <3> QED
            BY <1>4, <3>1 DEF ReadClear, p, q
    <2>6. ReadingOf(Reading(q, <<>>).reader, rest, pending, FALSE)
        <3>1. Reading(q, <<>>).reader.assembled = q /\ Reading(q, <<>>).reader.block = <<>>
            BY DEF Reading
        <3>2. <<>> \o rest = rest
            OBVIOUS
        <3> QED
            BY <2>1, <2>2, <3>1, <3>2 DEF ReadingOf
    <2>7. Reading(q, <<>>).message = <<>>
        BY DEF Reading
    <2>8. Continues(Reading(q, <<>>), rest, pending, FALSE)
        BY <2>6, <2>7 DEF Continues
    <2> QED
        BY <2>5, <2>8
<1> QED
    BY <1>3, <1>4

\* What has been read becomes a reader's state.
LEMMA Continued ==
    ASSUME NEW q \in Seq(Payload), NEW block \in Seq(Char), NEW rest \in Seq(Char), NEW pending,
           NEW cipher \in BOOLEAN,
           IF cipher THEN Multiple(Len(q)) /\ Len(block) < BlockSize ELSE block = <<>>,
           q \o (block \o rest) = Wire(pending, cipher)
    PROVE  Continues(Reading(q, block), rest, pending, cipher)
<1> DEFINE read == Reading(q, block)
<1>1. read.message = <<>> /\ read.reader.assembled = q /\ read.reader.block = block
    BY DEF Reading
<1> HIDE DEF read
<1>2. Continues(read, rest, pending, cipher)
    BY <1>1 DEF Continues, ReadingOf
<1> QED
    BY <1>2 DEF read

\* A sequence with one element more.
LEMMA OneMore ==
    ASSUME NEW S, NEW s \in Seq(S), NEW x \in S
    PROVE  /\ Append(s, x) \in Seq(S) /\ Len(Append(s, x)) = Len(s) + 1
           /\ Append(s, x) = s \o <<x>> /\ Append(s, x) # <<>>
OBVIOUS

\* Characters that are no terminators are those of a payload.
LEMMA Clean ==
    ASSUME NEW s \in Seq(Char), ~Contains(s, Terminator)
    PROVE  s \in Seq(Payload)
<1>1. \A i \in 1 .. Len(s) : s[i] \in Char /\ s[i] # Terminator
    BY DEF Contains
<1> QED
    BY <1>1 DEF Payload

\* The slave reads a byte of a short message in blocks.
LEMMA BlockByteRead ==
    ASSUME NEW r, NEW b \in Char, NEW rest \in Seq(Char), NEW pending \in Seq(Message),
           ReadingOf(r, <<b>> \o rest, pending, TRUE),
           pending # <<>> => Short(Head(pending), TRUE)
    PROVE  \/ Continues(ReadEncrypted(r, b), rest, pending, TRUE)
           \/ Completes(ReadEncrypted(r, b), rest, pending, TRUE)
<1> DEFINE p == r.assembled
           begun == r.block
           one == <<b>>
           next == one \o rest
           block == Append(begun, b)
           all == p \o block
           x == block \o rest
<1>1. /\ p \in Seq(Payload) /\ begun \in Seq(Char) /\ Multiple(Len(p)) /\ Len(begun) < BlockSize
      /\ p \o (begun \o next) = Wire(pending, TRUE)
    BY DEF ReadingOf
<1>2. one \in Seq(Char) /\ next \in Seq(Char)
    OBVIOUS
<1>3. p \in Seq(Char) /\ Len(p) \in Nat /\ Len(begun) \in Nat
    BY <1>1, SeqMonotonic DEF Payload
<1> HIDE DEF begun
<1>4. block \in Seq(Char) /\ Len(block) = Len(begun) + 1 /\ block = begun \o one /\ block # <<>>
    <2>1. begun \in Seq(Char)
        BY <1>1
    <2> QED
        BY <2>1, OneMore
<1> HIDE DEF one, p, block
<1>5. begun \o next = x
    <2>1. Regrouped(begun, one, rest)
        BY <1>1, <1>2, Regroup
    <2> QED
        BY <1>4, <2>1 DEF Regrouped
<1> HIDE DEF next
<1>6. x \in Seq(Char) /\ IsJoin(x, block, rest)
    BY <1>4, Joined
<1>7. all \in Seq(Char) /\ IsJoin(all, p, block)
    BY <1>3, <1>4, Joined
<1> HIDE DEF x, all
<1>8. x # <<>>
    <2>1. Len(x) = Len(block) + Len(rest) /\ Len(rest) \in Nat /\ Len(block) \in Nat
        BY <1>4, <1>6, LenProperties DEF IsJoin
    <2> QED
        BY <1>3, <1>4, <2>1
<1>9. p \o x = Wire(pending, TRUE)
    BY <1>1, <1>5
<1> DEFINE l == Len(OnWire(Head(pending).channel, Head(pending).text, TRUE))
<1>10. pending # <<>> /\ Len(p) + BlockSize <= l
    BY <1>1, <1>6, <1>8, <1>9, BlockAhead
<1>11. l \in Nat
    <2>1. Head(pending) \in Message
        BY <1>10, WireFirst
    <2>2. Head(pending).channel \in 0 .. 99 /\ Head(pending).text \in Seq(Payload)
        BY <2>1 DEF Message
    <2>3. OnWire(Head(pending).channel, Head(pending).text, TRUE) \in Seq(Char)
        BY <2>2, FrameType
    <2> QED
        BY <2>3, LenProperties
<1>12. l < BufferSize
    BY <1>10 DEF Short
<1> HIDE DEF l
<1>13. BlockSize \in Nat /\ BufferSize \in Nat /\ BlockSize > 0
    BY FramingAssumption DEF FramingAssumption
<1>14. ~Full(Len(all), BufferSize)
    <2>1. Len(all) = Len(p) + Len(block)
        BY <1>7 DEF IsJoin
    <2> QED
        BY <1>1, <1>3, <1>4, <1>10, <1>11, <1>12, <1>13, <2>1 DEF Full
<1> DEFINE read == ReadEncrypted(r, b)
<1>15. CASE Len(block) < BlockSize
    <2>1. read = Reading(p, block)
        <3>1. r.assembled \o Append(r.block, b) = all
            BY DEF all, p, block, begun
        <3> QED
            BY <1>14, <1>15, <3>1 DEF ReadEncrypted, p, block, begun
    <2>2. p \o (block \o rest) = Wire(pending, TRUE)
        BY <1>9 DEF x
    <2>3. Continues(Reading(p, block), rest, pending, TRUE)
        BY <1>1, <1>4, <1>15, <2>2, Continued
    <2> QED
        BY <2>1, <2>3
<1>16. CASE ~(Len(block) < BlockSize)
    <2>1. Len(block) = BlockSize
        BY <1>1, <1>3, <1>4, <1>13, <1>16
    <2>2. read = IF Contains(block, Terminator) THEN Returning(Part(all)) ELSE Reading(all, <<>>)
        <3>1. r.assembled \o Append(r.block, b) = all
            BY DEF all, p, block, begun
        <3> QED
            BY <1>14, <1>16, <3>1 DEF ReadEncrypted, p, block, begun
    <2>3. CASE Contains(block, Terminator)
        <3>1. InBlocks(p, block, rest, pending)
            BY <1>9 DEF InBlocks, x
        <3>2. /\ Part(p \o block) = Body(Head(pending).channel, Head(pending).text)
              /\ rest = Wire(Tail(pending), TRUE)
            BY <1>1, <1>4, <2>1, <2>3, <3>1, LastBlock
        <3>3. Completes(Returning(Part(all)), rest, pending, TRUE)
            <4> DEFINE bytes == Part(all)
            <4>1. bytes = Body(Head(pending).channel, Head(pending).text)
                BY <3>2 DEF all
            <4> HIDE DEF bytes
            <4>2. Completes(Returning(bytes), rest, pending, TRUE)
                BY <1>10, <3>2, <4>1, ReturnsFirst
            <4> QED
                BY <4>2 DEF bytes
        <3> QED
            BY <2>2, <2>3, <3>3
    <2>4. CASE ~Contains(block, Terminator)
        <3>1. block \in Seq(Payload)
            BY <1>4, <2>4, Clean
        <3>2. all \in Seq(Payload)
            BY <1>1, <3>1 DEF all
        <3>3. Multiple(Len(all))
            <4>1. PICK a \in Nat : Len(p) = BlockSize * a
                BY <1>1 DEF Multiple
            <4>2. Len(all) = BlockSize * (a + 1)
                BY <1>7, <1>13, <2>1, <4>1 DEF IsJoin
            <4> QED
                BY <4>2 DEF Multiple
        <3>4. all \o (<<>> \o rest) = Wire(pending, TRUE)
            <4>1. Regrouped(p, block, rest)
                BY <1>3, <1>4, Regroup
            <4>2. <<>> \o rest = rest
                OBVIOUS
            <4> QED
                BY <1>9, <4>1, <4>2 DEF Regrouped, all, x
        <3>5. <<>> \in Seq(Char) /\ Len(<<>>) < BlockSize
            BY <1>13
        <3>6. Continues(Reading(all, <<>>), rest, pending, TRUE)
            BY <3>2, <3>3, <3>4, <3>5, Continued
        <3> QED
            BY <2>2, <2>4, <3>6
    <2> QED
        BY <2>3, <2>4
<1> QED
    BY <1>15, <1>16

\* A byte arrives: the message it belongs to goes on, or ends and is returned or dropped.
LEMMA ByteRead ==
    ASSUME NEW r, NEW b \in Char, NEW rest \in Seq(Char), NEW pending \in Seq(Message),
           NEW cipher \in BOOLEAN, ReadingOf(r, <<b>> \o rest, pending, cipher),
           pending # <<>> => Short(Head(pending), cipher)
    PROVE  \/ Continues(ReadByte(r, b, cipher), rest, pending, cipher)
           \/ Completes(ReadByte(r, b, cipher), rest, pending, cipher)
<1> DEFINE bytes == <<b>> \o rest
<1>1. ReadingOf(r, bytes, pending, cipher)
    OBVIOUS
<1> HIDE DEF bytes
<1>2. CASE cipher
    <2>1. ReadingOf(r, bytes, pending, TRUE) /\ (pending # <<>> => Short(Head(pending), TRUE))
        BY <1>1, <1>2
    <2>2. \/ Continues(ReadEncrypted(r, b), rest, pending, TRUE)
          \/ Completes(ReadEncrypted(r, b), rest, pending, TRUE)
        BY <2>1, BlockByteRead DEF bytes
    <2> QED
        BY <1>2, <2>2 DEF ReadByte
<1>3. CASE ~cipher
    <2>1. ReadingOf(r, bytes, pending, FALSE) /\ (pending # <<>> => Short(Head(pending), FALSE))
        BY <1>1, <1>3
    <2>2. \/ Continues(ReadClear(r, b), rest, pending, FALSE)
          \/ Completes(ReadClear(r, b), rest, pending, FALSE)
        BY <2>1, ClearByteRead DEF bytes
    <2> QED
        BY <1>3, <2>2 DEF ReadByte
<1> QED
    BY <1>2, <1>3

\* More is sent while the slave is reading.
LEMMA MoreAhead ==
    ASSUME NEW r, NEW rest, NEW pending \in Seq(Message), NEW cipher \in BOOLEAN,
           ReadingOf(r, rest, pending, cipher), NEW m \in Message
    PROVE  ReadingOf(r, rest \o OnWire(m.channel, m.text, cipher), Append(pending, m), cipher)
<1> DEFINE f == OnWire(m.channel, m.text, cipher)
           one == <<m>>
           now == rest \o f
           p == r.assembled
           begun == r.block
           then == Append(pending, m)
<1>1. /\ p \in Seq(Payload) /\ begun \in Seq(Char) /\ rest \in Seq(Char)
      /\ IF cipher THEN Multiple(Len(p)) /\ Len(begun) < BlockSize ELSE begun = <<>>
      /\ p \o (begun \o rest) = Wire(pending, cipher)
    BY DEF ReadingOf
<1>2. one \in Seq(Message) /\ one # <<>> /\ Head(one) = m /\ Tail(one) = <<>>
      /\ then = pending \o one /\ then \in Seq(Message)
    OBVIOUS
<1>3. p \in Seq(Char)
    BY <1>1, SeqMonotonic DEF Payload
<1>4. m.channel \in 0 .. 99 /\ m.text \in Seq(Payload)
    BY DEF Message
<1>5. f \in Seq(Char)
    BY <1>4, FrameType
<1> HIDE DEF one, p, begun
<1>6. Wire(one, cipher) = f
    <2>1. Wire(one, cipher) = f \o Wire(<<>>, cipher)
        <3>1. Wire(one, cipher)
                = OnWire(Head(one).channel, Head(one).text, cipher)
                    \o Wire(Tail(one), cipher)
            BY <1>2, WireFirst
        <3> QED
            BY <1>2, <3>1
    <2> HIDE DEF f
    <2>2. f \o <<>> = f
        BY <1>5
    <2> QED
        BY <2>1, <2>2, WireEmpty
<1>7. Wire(pending \o one, cipher) = Wire(pending, cipher) \o Wire(one, cipher)
    BY <1>2, WireConcat
<1> HIDE DEF f, then
<1> DEFINE x == begun \o rest
<1>8. x \in Seq(Char) /\ now \in Seq(Char)
    BY <1>1, <1>5
<1>9. p \o (begun \o now) = Wire(then, cipher)
    <2>1. Regrouped(begun, rest, f)
        BY <1>1, <1>5, Regroup
    <2> HIDE DEF now, x
    <2>2. Regrouped(p, x, f)
        BY <1>3, <1>5, <1>8, Regroup
    <2> QED
        BY <1>1, <1>2, <1>6, <1>7, <2>1, <2>2 DEF Regrouped, now, x
<1> HIDE DEF now
<1>10. ReadingOf(r, now, then, cipher)
    BY <1>1, <1>8, <1>9 DEF ReadingOf, p, begun
<1> QED
    BY <1>10 DEF now, then, f

-----------------------------------------------------------------------------
(* What the master sends, and what it knows.                                *)

\* A request that can be encoded, and the messages it and several become.
GoodRequest ==
    {a \in [channel : 0 .. 99, parts : Seq(Seq(Char))] :
        JavaJoin(a.parts, Separator) \in Seq(Payload)}

\* The messages that requests are.
RequestMessage(a) == [channel |-> a.channel, text |-> JavaJoin(a.parts, Separator)]

RequestMessages(requests) == [i \in DOMAIN requests |-> RequestMessage(requests[i])]

\* Texts that can be encoded are those the master takes out of messages.
KnownPort ==
    [id : Seq(Payload), name : Seq(Payload), posCount : 0 .. 9, labels : Seq(Seq(Payload)),
     info : Seq(Payload), group : Seq(Payload), state : Seq(Payload), more : Seq(Payload),
     error : BOOLEAN]

\* The master joins sequences of characters to one.
LEMMA JavaJoinType ==
    ASSUME NEW C, NEW separator \in C, Blank \in C, NEW parts \in Seq(Seq(C))
    PROVE  JavaJoin(parts, separator) \in Seq(C)
<1> DEFINE Piece(p) ==
               CASE p = <<>> -> <<Blank, Blank>>
                 [] p # <<>> /\ Head(p) = Blank -> <<Blank>> \o Escaped(p, separator)
                 [] OTHER -> Escaped(p, separator)
           wire == [i \in DOMAIN parts |-> Piece(parts[i])]
<1>1. DOMAIN parts = 1 .. Len(parts) /\ Len(parts) \in Nat
    OBVIOUS
<1>2. ASSUME NEW p \in Seq(C)
      PROVE  Piece(p) \in Seq(C)
    <2> DEFINE one == <<Blank>>
               two == <<Blank, Blank>>
               e == Escaped(p, separator)
    <2>1. e \in Seq(C)
        BY EscapedType
    <2>2. one \in Seq(C) /\ two \in Seq(C)
        OBVIOUS
    <2> HIDE DEF one, two, e
    <2>3. one \o e \in Seq(C)
        BY <2>1, <2>2
    <2>4. Piece(p) = two \/ Piece(p) = one \o e \/ Piece(p) = e
        BY DEF one, two, e
    <2> HIDE DEF Piece
    <2> QED
        BY <2>1, <2>2, <2>3, <2>4
<1>3. JavaJoin(parts, separator) = Separated(wire, separator)
    BY DEF JavaJoin
<1> HIDE DEF Piece
<1>4. wire \in Seq(Seq(C))
    BY <1>1, <1>2
<1> HIDE DEF wire
<1> QED
    BY <1>3, <1>4, SeparatedType

\* And it takes texts apart to texts of the same characters.
LEMMA JavaSplitType ==
    ASSUME NEW C, NEW separator \in C, NEW text \in Seq(C)
    PROVE  JavaSplit(text, separator) \in Seq(Seq(C))
<1> DEFINE scan == Scan(text, separator)
           pieces == Pieces(text, separator)
<1>1. scan \in ScanState(C)
    BY ScanType
<1>2. scan.parts \in Seq(Seq(C)) /\ scan.part \in Seq(C)
    <2> HIDE DEF scan
    <2> QED
        BY <1>1 DEF ScanState
<1>3. pieces \in Seq(Seq(C))
    <2> DEFINE two == <<scan.part, <<>>>>
    <2>1. \/ pieces = scan.parts \o two
          \/ pieces = Append(scan.parts, scan.part)
        BY DEF Pieces
    <2> HIDE DEF pieces, scan
    <2>2. two \in Seq(Seq(C))
        <3>1. scan.part \in Seq(C) /\ <<>> \in Seq(C)
            BY <1>2
        <3> QED
            BY <3>1
    <2> HIDE DEF two
    <2>3. Append(scan.parts, scan.part) \in Seq(Seq(C))
        BY <1>2, OneMore
    <2>4. scan.parts \o two \in Seq(Seq(C))
        BY <1>2, <2>2, Joined
    <2> QED
        BY <2>1, <2>3, <2>4
<1>4. ASSUME NEW p \in Seq(C)
      PROVE  removeLeadingBlank(p) \in Seq(C)
    BY DEF removeLeadingBlank
<1>5. JavaSplit(text, separator) = [i \in DOMAIN pieces |-> removeLeadingBlank(pieces[i])]
    BY DEF JavaSplit
<1> HIDE DEF pieces
<1>6. DOMAIN pieces = 1 .. Len(pieces) /\ Len(pieces) \in Nat
    BY <1>3
<1>7. \A i \in 1 .. Len(pieces) : removeLeadingBlank(pieces[i]) \in Seq(C)
    BY <1>3, <1>4
<1> QED
    BY <1>5, <1>6, <1>7

\* Encodable parts make a request.
LEMMA RequestGood ==
    ASSUME NEW ch \in 0 .. 99, NEW parts \in Seq(Seq(Payload))
    PROVE  Answer(ch, parts) \in GoodRequest
<1>1. JavaJoin(parts, Separator) \in Seq(Payload)
    BY SomeCharacters, JavaJoinType
<1>2. Seq(Payload) \subseteq Seq(Char)
    BY SeqMonotonic DEF Payload
<1>3. parts \in Seq(Seq(Char))
    BY <1>2, Larger
<1>4. Answer(ch, parts).channel = ch /\ Answer(ch, parts).parts = parts
      /\ Answer(ch, parts) \in [channel : 0 .. 99, parts : Seq(Seq(Char))]
    BY <1>3 DEF Answer
<1> QED
    BY <1>1, <1>4 DEF GoodRequest

\* A request becomes a message.
LEMMA RequestMessageType ==
    ASSUME NEW a \in GoodRequest
    PROVE  RequestMessage(a) \in Message
BY DEF GoodRequest, RequestMessage, Message

\* So do several, and one more request is one message more.
LEMMA RequestMessagesType ==
    ASSUME NEW requests \in Seq(GoodRequest)
    PROVE  /\ RequestMessages(requests) \in Seq(Message)
           /\ Len(RequestMessages(requests)) = Len(requests)
           /\ \A i \in 1 .. Len(requests) :
                 RequestMessages(requests)[i] = RequestMessage(requests[i])
<1>1. DOMAIN requests = 1 .. Len(requests) /\ Len(requests) \in Nat
    OBVIOUS
<1>2. \A i \in 1 .. Len(requests) : RequestMessage(requests[i]) \in Message
    BY RequestMessageType
<1> QED
    BY <1>1, <1>2 DEF RequestMessages

\* The messages of one request more.
LEMMA RequestMessagesAppend ==
    ASSUME NEW requests \in Seq(GoodRequest), NEW a \in GoodRequest
    PROVE  RequestMessages(Append(requests, a))
             = Append(RequestMessages(requests), RequestMessage(a))
<1> DEFINE more == Append(requests, a)
           m == RequestMessage(a)
           ms == RequestMessages(requests)
           ns == Append(ms, m)
           N == Len(requests)
<1>1. more \in Seq(GoodRequest) /\ Len(more) = N + 1 /\ N \in Nat
      /\ more[N + 1] = a /\ \A i \in 1 .. N : more[i] = requests[i]
    OBVIOUS
<1>2. m \in Message
    BY RequestMessageType
<1>3. ms \in Seq(Message) /\ Len(ms) = N /\ \A i \in 1 .. N : ms[i] = RequestMessage(requests[i])
    BY RequestMessagesType
<1> HIDE DEF ms, more
<1>4. /\ RequestMessages(more) \in Seq(Message) /\ Len(RequestMessages(more)) = Len(more)
      /\ \A i \in 1 .. Len(more) : RequestMessages(more)[i] = RequestMessage(more[i])
    BY <1>1, RequestMessagesType
<1> DEFINE all == RequestMessages(more)
<1> HIDE DEF all, m
<1>5. ns \in Seq(Message) /\ Len(ns) = N + 1 /\ ns[N + 1] = m /\ \A i \in 1 .. N : ns[i] = ms[i]
    BY <1>2, <1>3
<1> HIDE DEF ns, N
<1>6. all \in Seq(Message) /\ Len(all) = N + 1
      /\ \A i \in 1 .. N + 1 : all[i] = RequestMessage(more[i])
    BY <1>1, <1>4 DEF all
<1>7. ASSUME NEW i \in 1 .. N + 1
      PROVE  all[i] = ns[i]
    <2>1. CASE i \in 1 .. N
        BY <1>1, <1>3, <1>5, <1>6, <2>1
    <2>2. CASE i = N + 1
        BY <1>1, <1>5, <1>6, <2>2 DEF m
    <2> QED
        BY <1>1, <2>1, <2>2
<1>8. all = ns
    BY <1>5, <1>6, <1>7, SeqEqual
<1> QED
    BY <1>8 DEF all, ns, more, ms, m

\* The name of a request is a text.
LEMMA RequestName ==
    ASSUME NEW n \in {"gDC", "gAPI", "gASL", "gGI", "gEDI", "gAPS"}
    PROVE  <<n>> \in Seq(Payload)
<1>1. n \in Names /\ n # "\n"
    BY DEF Names
<1>2. n \in Payload
    BY <1>1 DEF Payload, Char, Terminator
<1> QED
    BY <1>2

\* The group that the extended information of a port names is a text.
LEMMA GroupOfType ==
    ASSUME NEW info \in Seq(Payload)
    PROVE  GroupOf(info) \in Seq(Payload)
<1> DEFINE I == {i \in 1 .. Len(info) : info[i] = "group"}
           i == SelectInSeq(info, LAMBDA c : c = "group")
<1>1. i = IF I = {} THEN 0 ELSE Min(I)
    BY DEF SelectInSeq
<1>2. I \in SUBSET Nat
    OBVIOUS
<1>3. GroupOf(info) = IF i = 0 THEN <<>> ELSE SubSeq(info, i + 1, Len(info))
    BY DEF GroupOf
<1> HIDE DEF i
<1>4. CASE I = {}
    BY <1>1, <1>3, <1>4
<1>5. CASE I # {}
    <2>1. Min(I) \in I
        <3>1. PICK n \in I : \A k \in I : n <= k
            <4> HIDE DEF I
            <4> QED
                BY <1>2, <1>5, LeastNumber
        <3> HIDE DEF I
        <3> QED
            BY <1>2, <3>1 DEF Min
    <2>2. i \in 1 .. Len(info)
        BY <1>1, <1>5, <2>1
    <2>3. SubSeq(info, i + 1, Len(info)) \in Seq(Payload)
        BY <2>2, Halves
    <2> QED
        BY <1>3, <2>3
<1> QED
    BY <1>4, <1>5

\* While nothing is disturbed the master knows and sends only texts that can be encoded,
\* on channels with two digits at most.
PortsKnown ==
    /\ ports \in Seq(KnownPort)
    /\ phase \in {"askLabels", "label", "extendedInfo"} => ports # <<>>

\* What the master has taken out of messages can be put into others, and the channels
\* and requests it has used are those the code produces.
TextsOK ==
    /\ inQueue \in Seq(Message)
    /\ PortsKnown
    /\ path \in Seq(Seq(Payload))
    /\ currentChannel \in 19 .. 99 /\ channel \in 0 .. 99
    /\ masterSent \in Seq(GoodRequest)

TextsInv == ~fault => TextsOK

\* A message is sent, or none.
Sends(a) ==
    /\ masterSent' = Append(masterSent, a)
    /\ toSlave' = toSlave \o OnWire(a.channel, JavaJoin(a.parts, Separator), config.cipher)

SendsNothing == UNCHANGED masterSent /\ UNCHANGED toSlave

\* What is queued of messages are messages.
LEMMA QueuedReplies ==
    ASSUME NEW M \in SUBSET Message, NEW messages \in Seq(M)
    PROVE  Queued(messages) \in Seq({m \in M : IsReply(m)})
<1> DEFINE W == {m \in M : IsReply(m)}
           f == [x \in M |-> ChosenAt(x, W)]
<1>1. \A i \in DOMAIN messages : messages[i] \in W <=> IsReply(messages[i])
    OBVIOUS
<1> HIDE DEF W
<1>2. \A x \in M : ChosenAt(x, W) \in Seq(W)
    BY DEF ChosenAt
<1>3. Queued(messages) = Chosen(messages, W)
    BY <1>1 DEF Queued, Only, Chosen
<1> DEFINE picks == [i \in DOMAIN messages |-> ChosenAt(messages[i], W)]
<1>4. Chosen(messages, W) = FlattenSeq(picks)
    BY DEF Chosen, ChosenAt
<1>5. picks \in Seq(Seq(W))
    <2>1. Len(messages) \in Nat /\ DOMAIN messages = 1 .. Len(messages)
        OBVIOUS
    <2>2. \A i \in 1 .. Len(messages) : ChosenAt(messages[i], W) \in Seq(W)
        BY <1>2
    <2>3. picks \in [1 .. Len(messages) -> Seq(W)]
        BY <2>1, <2>2
    <2> HIDE DEF picks
    <2> QED
        BY <2>1, <2>3
<1> HIDE DEF picks
<1>6. FlattenSeq(picks) \in Seq(W)
    BY <1>5, FlattenType
<1> QED
    BY <1>3, <1>4, <1>6 DEF W

\* So they are messages.
LEMMA QueuedType ==
    ASSUME NEW messages \in Seq(Message)
    PROVE  Queued(messages) \in Seq(Message)
<1> DEFINE W == {m \in Message : IsReply(m)}
<1>1. Queued(messages) \in Seq(W)
    BY QueuedReplies
<1>2. W \subseteq Message
    OBVIOUS
<1> HIDE DEF W
<1> QED
    BY <1>1, <1>2, Larger

\* The message the master sends before its requests, if it can be encoded.
LEMMA FirstSent ==
    ASSUME ConfigOK, SendFirst
    PROVE  (\E a \in GoodRequest : Sends(a)) \/ SendsNothing
<1> DEFINE parts == config.first
           text == JavaJoin(parts, Separator)
           a == Answer(0, parts)
<1>1. CASE Encodable(text)
    <2>1. parts \in Seq(Seq(Char))
        BY TextType, Larger DEF ConfigOK
    <2> HIDE DEF parts
    <2>2. text \in Seq(Char)
        BY <2>1, SomeCharacters, JavaJoinType
    <2>3. text \in Seq(Payload)
        <3> HIDE DEF text
        <3> QED
            BY <1>1, <2>2, Clean DEF Encodable
    <2>4. a.channel = 0 /\ a.parts = parts /\ a \in [channel : 0 .. 99, parts : Seq(Seq(Char))]
        BY <2>1 DEF Answer
    <2>5. a \in GoodRequest
        BY <2>3, <2>4 DEF GoodRequest
    <2>6. Transmit(0, parts)
        BY <1>1 DEF SendFirst, parts
    <2>7. Sends(a)
        <3> HIDE DEF a
        <3>1. /\ toSlave' = toSlave \o OnWire(0, text, config.cipher)
              /\ masterSent' = Append(masterSent, Answer(0, parts))
            BY <2>6 DEF Transmit
        <3> QED
            BY <2>4, <3>1 DEF Sends, a
    <2> QED
        BY <2>5, <2>7
<1>2. CASE ~Encodable(text)
    BY <1>2 DEF SendFirst, SendsNothing
<1> QED
    BY <1>1, <1>2

\* A request with encodable parts is sent, unless the connection has ended.
LEMMA RequestSent ==
    ASSUME NEW place, NEW ch \in 0 .. 99, NEW parts \in Seq(Seq(Payload)), NEW next,
           Request(place, ch, parts, next)
    PROVE  (\E a \in GoodRequest : Sends(a)) \/ SendsNothing
<1> DEFINE a == Answer(ch, parts)
<1>1. a \in GoodRequest
    BY RequestGood
<1>2. a.channel = ch /\ a.parts = parts
    BY DEF Answer
<1>3. Transmit(ch, parts) \/ SendsNothing
    BY DEF Request, SendsNothing
<1>4. ASSUME Transmit(ch, parts)
      PROVE  Sends(a)
    <2>1. /\ toSlave' = toSlave \o OnWire(ch, JavaJoin(parts, Separator), config.cipher)
          /\ masterSent' = Append(masterSent, a)
        BY <1>4 DEF Transmit
    <2> HIDE DEF a
    <2> QED
        BY <1>2, <2>1 DEF Sends
<1> QED
    BY <1>1, <1>3, <1>4

\* The channel after the current one.
LEMMA NextChannelType ==
    ASSUME currentChannel \in 19 .. 99
    PROVE  NextChannel \in 20 .. 99
BY DEF NextChannel, CHANNEL_ROLLOVER, CHANNEL_LOWEST_SYNCHRONOUS

\* The parts of requests.
LEMMA RequestParts ==
    ASSUME NEW n \in {"gDC", "gAPI", "gASL", "gGI", "gEDI", "gAPS"}, NEW id \in Seq(Payload)
    PROVE  << <<n>> >> \in Seq(Seq(Payload)) /\ << <<n>>, id >> \in Seq(Seq(Payload))
<1> DEFINE name == <<n>>
<1>1. name \in Seq(Payload)
    BY RequestName
<1> HIDE DEF name
<1>2. << name >> \in Seq(Seq(Payload)) /\ << name, id >> \in Seq(Seq(Payload))
    BY <1>1
<1> QED
    BY <1>2 DEF name

\* All requests of the query.
LEMMA RequestsSent ==
    ASSUME TextsOK, GroupInv, SendRequest
    PROVE  (\E a \in GoodRequest : Sends(a)) \/ SendsNothing
<1>1. NextChannel \in 0 .. 99 /\ channel \in 0 .. 99 /\ <<>> \in Seq(Payload)
    BY NextChannelType DEF TextsOK
<1>2. ASSUME NEW n \in {"gDC", "gAPI", "gEDI", "gAPS"}, NEW place, NEW next, NEW ch \in 0 .. 99,
             Request(place, ch, << <<n>> >>, next)
      PROVE  (\E a \in GoodRequest : Sends(a)) \/ SendsNothing
    <2> DEFINE parts == << <<n>> >>
    <2>1. parts \in Seq(Seq(Payload))
        BY <1>1, RequestParts
    <2>2. Request(place, ch, parts, next)
        BY <1>2
    <2> HIDE DEF parts
    <2> QED
        BY <2>1, <2>2, RequestSent
<1>3. ASSUME NEW n \in {"gASL", "gGI"}, NEW place, NEW next, NEW ch \in 0 .. 99,
             NEW id \in Seq(Payload), Request(place, ch, << <<n>>, id >>, next)
      PROVE  (\E a \in GoodRequest : Sends(a)) \/ SendsNothing
    <2> DEFINE parts == << <<n>>, id >>
    <2>1. parts \in Seq(Seq(Payload))
        BY RequestParts
    <2>2. Request(place, ch, parts, next)
        BY <1>3
    <2> HIDE DEF parts
    <2> QED
        BY <2>1, <2>2, RequestSent
<1>4. CASE \/ \E next : RequestAnew("query", << <<"gDC">> >>, next)
           \/ \E next : RequestAnew("askDeviceInfo", << <<"gEDI">> >>, next)
           \/ \E next : RequestAnew("states", << <<"gAPS">> >>, next)
    BY <1>1, <1>2, <1>4 DEF RequestAnew
<1>5. CASE Request("infos", channel, << <<"gAPI">> >>, "info")
    BY <1>1, <1>2, <1>5
<1>6. CASE \E next : Request("askLabels", NextChannel, << <<"gASL">>, NewestPort.id >>, next)
    <2>1. phase = "askLabels"
        BY <1>6 DEF Request
    <2>2. ports \in Seq(KnownPort) /\ ports # <<>>
        BY <2>1 DEF TextsOK, PortsKnown
    <2>3. ports[Len(ports)] \in KnownPort
        BY <2>2
    <2>4. NewestPort.id \in Seq(Payload)
        BY <2>3 DEF NewestPort, Last, KnownPort
    <2> QED
        BY <1>1, <1>3, <1>6, <2>4
<1>7. CASE Request("askGroup", channel, << <<"gGI">>, Last(path) >>, "group")
    <2>1. phase = "askGroup"
        BY <1>7 DEF Request
    <2>2. path \in Seq(Seq(Payload)) /\ path # <<>>
        BY <2>1 DEF TextsOK, GroupInv, PathInv
    <2>3. Last(path) \in Seq(Payload)
        <3> DEFINE S == Seq(Payload)
        <3>1. path \in Seq(S) /\ path # <<>>
            BY <2>2
        <3> HIDE DEF S
        <3>2. path[Len(path)] \in S
            BY <3>1
        <3> QED
            BY <3>2 DEF Last, S
    <2> QED
        BY <1>1, <1>3, <1>7, <2>3
<1> QED
    BY <1>4, <1>5, <1>6, <1>7 DEF SendRequest

\* A sequence in which an element is replaced.
LEMMA Replaced ==
    ASSUME NEW S, NEW ps \in Seq(S), NEW i, NEW new, i \in 1 .. Len(ps) => new \in S
    PROVE  [ps EXCEPT ![i] = new] \in Seq(S) /\ Len([ps EXCEPT ![i] = new]) = Len(ps)
<1> DEFINE qs == [ps EXCEPT ![i] = new]
<1>1. DOMAIN ps = 1 .. Len(ps) /\ Len(ps) \in Nat /\ \A k \in 1 .. Len(ps) : ps[k] \in S
    OBVIOUS
<1>2. qs = [k \in 1 .. Len(ps) |-> IF k = i THEN new ELSE ps[k]]
    BY <1>1
<1>3. \A k \in 1 .. Len(ps) : (IF k = i THEN new ELSE ps[k]) \in S
    BY <1>1
<1> HIDE DEF qs
<1>4. qs \in Seq(S) /\ Len(qs) = Len(ps)
    BY <1>1, <1>2, <1>3
<1> QED
    BY <1>4 DEF qs

\* A port the master gets to know.
LEMMA NewPort ==
    ASSUME NEW id \in Seq(Payload), NEW name \in Seq(Payload)
    PROVE  [UnknownPort EXCEPT !.id = id, !.name = name] \in KnownPort
<1> DEFINE a == UnknownPort
           b == [a EXCEPT !.id = id]
           c == [b EXCEPT !.name = name]
<1>1. a \in KnownPort
    <2>1. <<>> \in Seq(Payload) /\ <<>> \in Seq(Seq(Payload)) /\ 0 \in 0 .. 9
        OBVIOUS
    <2> QED
        BY <2>1 DEF UnknownPort, KnownPort
<1> HIDE DEF a
<1>2. b \in KnownPort
    BY <1>1 DEF KnownPort
<1> HIDE DEF b
<1>3. c \in KnownPort
    BY <1>2 DEF KnownPort
<1> QED
    BY <1>3 DEF a, b, c

\* With the number of its positions, if it is a select port.
LEMMA NewSelectPort ==
    ASSUME NEW id \in Seq(Payload), NEW name \in Seq(Payload), NEW n \in 0 .. 9
    PROVE  [UnknownPort EXCEPT !.id = id, !.name = name, !.posCount = n] \in KnownPort
<1> DEFINE c == [UnknownPort EXCEPT !.id = id, !.name = name]
           d == [c EXCEPT !.posCount = n]
<1>1. c \in KnownPort
    BY NewPort
<1> HIDE DEF c
<1>2. d \in KnownPort
    BY <1>1 DEF KnownPort
<1> QED
    BY <1>2 DEF c, d

\* A state comes with the end of an error.
LEMMA StateReplaced ==
    ASSUME NEW S, NEW ps \in Seq(S), NEW i, NEW s
    PROVE  [ps EXCEPT ![i].state = s, ![i].error = FALSE]
             = [ps EXCEPT ![i] = [[ps[i] EXCEPT !.state = s] EXCEPT !.error = FALSE]]
<1> DEFINE stated == [ps[i] EXCEPT !.state = s]
           new == [stated EXCEPT !.error = FALSE]
           qs == [ps EXCEPT ![i] = stated]
           all == [ps EXCEPT ![i].state = s, ![i].error = FALSE]
<1>1. all = [qs EXCEPT ![i] = [qs[i] EXCEPT !.error = FALSE]]
    OBVIOUS
<1>2. DOMAIN ps = 1 .. Len(ps)
    OBVIOUS
<1> HIDE DEF all
<1>3. CASE i \in 1 .. Len(ps)
    <2> HIDE DEF stated
    <2>1. qs[i] = stated
        BY <1>2, <1>3
    <2>2. all = [ps EXCEPT ![i] = [stated EXCEPT !.error = FALSE]]
        BY <1>1, <1>2, <2>1
    <2> QED
        BY <2>2 DEF all, stated
<1>4. CASE ~(i \in 1 .. Len(ps))
    <2>1. qs = ps
        BY <1>2, <1>4
    <2> HIDE DEF qs
    <2> DEFINE x == [qs[i] EXCEPT !.error = FALSE]
    <2>2. all = [ps EXCEPT ![i] = x]
        BY <1>1, <2>1
    <2> HIDE DEF x, new
    <2>3. [ps EXCEPT ![i] = x] = [ps EXCEPT ![i] = new]
        BY <1>2, <1>4
    <2> QED
        BY <2>2, <2>3 DEF new, all
<1> QED
    BY <1>3, <1>4

\* What a message changes of the ports.
LEMMA TakePorts ==
    ASSUME PortsKnown, NEW parts \in Seq(Seq(Payload)),
           \/ TakeCaps(parts) \/ TakeInfo(parts) \/ TakeLabel(parts) \/ TakeExtendedInfo(parts)
           \/ TakeGroup(parts) \/ TakeDeviceInfo(parts) \/ TakeState(parts)
           \/ TakeExtendedState(parts)
    PROVE  PortsKnown'
<1> DEFINE late == {"askLabels", "label", "extendedInfo"}
           S == Seq(Payload)
<1>1. ports \in Seq(KnownPort) /\ (phase \in late => ports # <<>>)
    BY DEF PortsKnown
<1>2. parts \in Seq(S) /\ <<>> \in S
    OBVIOUS
<1>3. \A k \in 1 .. Len(parts) : parts[k] \in S
    BY <1>2
<1>4. SUFFICES ports' \in Seq(KnownPort) /\ (phase' \in late => ports' # <<>>)
    BY DEF PortsKnown
<1>5. ASSUME UNCHANGED ports, phase' \in late => phase \in late
      PROVE  ports' \in Seq(KnownPort) /\ (phase' \in late => ports' # <<>>)
    BY <1>1, <1>5
<1>6. ASSUME NEW i, NEW new, ports' = [ports EXCEPT ![i] = new],
             i \in 1 .. Len(ports) => new \in KnownPort, phase' \in late => phase \in late
      PROVE  ports' \in Seq(KnownPort) /\ (phase' \in late => ports' # <<>>)
    <2>1. ports' \in Seq(KnownPort) /\ Len(ports') = Len(ports)
        BY <1>1, <1>6, Replaced
    <2>2. phase' \in late => Len(ports) # 0
        BY <1>1, <1>6
    <2> QED
        BY <2>1, <2>2
<1>7. \A k \in 1 .. Len(ports) : ports[k] \in KnownPort
    BY <1>1
<1>8. CASE TakeCaps(parts)
    <2>1. phase' \in {"infos", "failed"} /\ (ports' = <<>> \/ UNCHANGED ports)
        BY <1>8 DEF TakeCaps, Fail, Goto, Keep
    <2>2. <<>> \in Seq(KnownPort)
        OBVIOUS
    <2>3. ports' \in Seq(KnownPort)
        BY <1>1, <2>1, <2>2
    <2>4. phase' \notin late
        BY <2>1
    <2> QED
        BY <2>3, <2>4
<1>9. CASE TakeInfo(parts)
    <2>1. CASE UNCHANGED ports /\ phase' = "failed"
        BY <1>5, <2>1
    <2>2. CASE IsA(parts, "DP", 3) /\ ports' = Append(ports, [UnknownPort EXCEPT !.id = parts[2], !.name = parts[3]])
        <3> DEFINE new == [UnknownPort EXCEPT !.id = parts[2], !.name = parts[3]]
        <3>1. parts[2] \in S /\ parts[3] \in S
            BY <1>3, <2>2 DEF IsA
        <3> HIDE DEF S
        <3>2. new \in KnownPort
            BY <3>1, NewPort DEF S
        <3> HIDE DEF new
        <3> QED
            BY <1>1, <2>2, <3>2, OneMore DEF new
    <2>3. CASE /\ IsA(parts, "SLP", 4)
               /\ \E n \in 0 .. 9 : ports' = Append(ports, [UnknownPort EXCEPT
                                       !.id = parts[2], !.name = parts[3], !.posCount = n])
        <3>1. PICK n \in 0 .. 9 : ports' = Append(ports, [UnknownPort EXCEPT
                                       !.id = parts[2], !.name = parts[3], !.posCount = n])
            BY <2>3
        <3> DEFINE new == [UnknownPort EXCEPT !.id = parts[2], !.name = parts[3], !.posCount = n]
        <3>2. parts[2] \in S /\ parts[3] \in S
            BY <1>3, <2>3 DEF IsA
        <3> HIDE DEF S
        <3>3. new \in KnownPort
            BY <3>2, NewSelectPort DEF S
        <3> HIDE DEF new
        <3> QED
            BY <1>1, <3>1, <3>3, OneMore DEF new
    <2> QED
        BY <1>9, <2>1, <2>2, <2>3 DEF TakeInfo, Fail, Goto, Keep
<1>10. CASE TakeLabel(parts)
    <2>1. CASE UNCHANGED ports /\ phase' = "failed"
        BY <1>5, <2>1
    <2>2. CASE /\ IsA(parts, "SLL", 4)
               /\ ports' = [ports EXCEPT ![Len(ports)].labels = Append(@, parts[4])]
        <3> DEFINE i == Len(ports)
                   new == [ports[i] EXCEPT !.labels = Append(ports[i].labels, parts[4])]
        <3>1. ports' = [ports EXCEPT ![i] = new]
            BY <2>2
        <3>2. parts[4] \in S
            BY <1>3, <2>2 DEF IsA
        <3>3. ASSUME i \in 1 .. Len(ports)
              PROVE  new \in KnownPort
            <4> DEFINE port == ports[i]
                       ls == Append(port.labels, parts[4])
            <4>1. port \in KnownPort
                BY <1>7, <3>3
            <4> HIDE DEF port
            <4>2. port.labels \in Seq(S)
                BY <4>1 DEF KnownPort
            <4>3. ls \in Seq(S)
                BY <3>2, <4>2, OneMore
            <4> HIDE DEF ls
            <4>4. [port EXCEPT !.labels = ls] \in KnownPort
                BY <4>1, <4>3 DEF KnownPort
            <4> QED
                BY <4>4 DEF port, ls
        <3>4. phase \in late
            BY <1>10 DEF TakeLabel
        <3> HIDE DEF new, i
        <3> QED
            BY <1>6, <3>1, <3>3, <3>4
    <2> QED
        BY <1>10, <2>1, <2>2 DEF TakeLabel, Fail, Goto, Keep
<1>11. CASE TakeExtendedInfo(parts)
    <2>1. CASE UNCHANGED ports /\ phase' = "failed"
        BY <1>5, <2>1
    <2>2. CASE /\ IsA(parts, "EPI", 3)
               /\ ports' = [ports EXCEPT ![Len(ports)].info = parts[3]]
        <3> DEFINE i == Len(ports)
                   new == [ports[i] EXCEPT !.info = parts[3]]
        <3>1. ports' = [ports EXCEPT ![i] = new]
            BY <2>2
        <3>2. parts[3] \in S
            BY <1>3, <2>2 DEF IsA
        <3>3. ASSUME i \in 1 .. Len(ports)
              PROVE  new \in KnownPort
            BY <1>7, <3>2, <3>3 DEF KnownPort
        <3>4. phase \in late
            BY <1>11 DEF TakeExtendedInfo
        <3> HIDE DEF new, i
        <3> QED
            BY <1>6, <3>1, <3>3, <3>4
    <2> QED
        BY <1>11, <2>1, <2>2 DEF TakeExtendedInfo, Fail, Goto, Keep
<1>12. CASE TakeGroup(parts)
    BY <1>5, <1>12 DEF TakeGroup, Return, Fail, Goto, Keep
<1>13. CASE TakeDeviceInfo(parts)
    BY <1>5, <1>13 DEF TakeDeviceInfo, Fail, Goto, Keep
<1>14. CASE TakeState(parts)
    <2> DEFINE i == counter + 1
    <2>1. phase' \in {"extendedState", "failed"}
        BY <1>14 DEF TakeState
    <2>2. CASE UNCHANGED ports
        BY <1>5, <2>1, <2>2
    <2>3. CASE ports' = [ports EXCEPT ![counter + 1].error = TRUE]
        <3> DEFINE new == [ports[i] EXCEPT !.error = TRUE]
        <3>1. ports' = [ports EXCEPT ![i] = new]
            BY <2>3
        <3>2. ASSUME i \in 1 .. Len(ports)
              PROVE  new \in KnownPort
            BY <1>7, <3>2 DEF KnownPort
        <3> HIDE DEF new, i
        <3> QED
            BY <1>6, <2>1, <3>1, <3>2
    <2>4. CASE /\ IsA(parts, "DPS", 3)
               /\ ports' = [ports EXCEPT ![counter + 1].state = parts[3],
                                         ![counter + 1].error = FALSE]
        <3> DEFINE new == [[ports[i] EXCEPT !.state = parts[3]] EXCEPT !.error = FALSE]
        <3>1. ports' = [ports EXCEPT ![i] = new]
            <4>1. [ports EXCEPT ![counter + 1].state = parts[3],
                                ![counter + 1].error = FALSE]
                    = [ports EXCEPT ![i] = new]
                BY <1>1, StateReplaced
            <4> QED
                BY <2>4, <4>1
        <3>2. parts[3] \in S
            BY <1>3, <2>4 DEF IsA
        <3>3. ASSUME i \in 1 .. Len(ports)
              PROVE  new \in KnownPort
            BY <1>7, <3>2, <3>3 DEF KnownPort
        <3> HIDE DEF new, i
        <3> QED
            BY <1>6, <2>1, <3>1, <3>3
    <2> QED
        BY <1>14, <2>2, <2>3, <2>4 DEF TakeState
<1>15. CASE TakeExtendedState(parts)
    <2> DEFINE i == counter + 1
    <2>1. phase' \in {"done", "state"}
        BY <1>15 DEF TakeExtendedState, NextState
    <2>2. CASE UNCHANGED ports
        BY <1>5, <2>1, <2>2
    <2>3. CASE IsA(parts, "EPS", 3) /\ ports' = [ports EXCEPT ![counter + 1].more = parts[3]]
        <3> DEFINE new == [ports[i] EXCEPT !.more = parts[3]]
        <3>1. ports' = [ports EXCEPT ![i] = new]
            BY <2>3
        <3>2. parts[3] \in S
            BY <1>3, <2>3 DEF IsA
        <3>3. ASSUME i \in 1 .. Len(ports)
              PROVE  new \in KnownPort
            BY <1>7, <3>2, <3>3 DEF KnownPort
        <3> HIDE DEF new, i
        <3> QED
            BY <1>6, <2>1, <3>1, <3>3
    <2> QED
        BY <1>15, <2>2, <2>3 DEF TakeExtendedState
<1> QED
    BY <1>8, <1>9, <1>10, <1>11, <1>12, <1>13, <1>14, <1>15

\* The place of the message that is expected.
LEMMA PositionType ==
    ASSUME inQueue \in Seq(Message), Position # 0
    PROVE  Position \in 1 .. Len(inQueue)
<1> DEFINE I == {i \in 1 .. Len(inQueue) : inQueue[i].channel = Expected}
<1>1. Position = IF I = {} THEN 0 ELSE Min(I)
    BY DEF Position, SelectInSeq
<1>2. I \in SUBSET Nat /\ I \subseteq 1 .. Len(inQueue)
    OBVIOUS
<1>3. I # {}
    BY <1>1
<1> HIDE DEF I
<1>4. PICK n \in I : \A k \in I : n <= k
    BY <1>2, <1>3, LeastNumber
<1>5. Min(I) \in I
    BY <1>2, <1>4 DEF Min
<1> QED
    BY <1>1, <1>2, <1>3, <1>5

\* A sequence without one of its elements, and without the last one.
LEMMA OneLess ==
    ASSUME NEW S, NEW s \in Seq(S), NEW i \in 1 .. Len(s)
    PROVE  RemoveAt(s, i) \in Seq(S)
<1> DEFINE a == SubSeq(s, 1, i - 1)
           b == SubSeq(s, i + 1, Len(s))
<1>1. i - 1 \in 0 .. Len(s)
    OBVIOUS
<1>2. a \in Seq(S)
    BY <1>1, Beginning
<1>3. b \in Seq(S)
    BY Halves
<1>4. RemoveAt(s, i) = a \o b
    BY DEF RemoveAt
<1> HIDE DEF a, b
<1> QED
    BY <1>2, <1>3, <1>4

\* All but the last are a sequence of the same elements.
LEMMA LastLess ==
    ASSUME NEW S, NEW s \in Seq(S), s # <<>>
    PROVE  Front(s) \in Seq(S)
<1>1. Len(s) - 1 \in 0 .. Len(s)
    OBVIOUS
<1>2. SubSeq(s, 1, Len(s) - 1) \in Seq(S)
    BY <1>1, Beginning
<1> QED
    BY <1>2 DEF Front

\* What a message changes of the path to the root.
LEMMA TakePath ==
    ASSUME path \in Seq(Seq(Payload)), GroupInv, NEW parts \in Seq(Seq(Payload)),
           \/ TakeCaps(parts) \/ TakeInfo(parts) \/ TakeLabel(parts) \/ TakeExtendedInfo(parts)
           \/ TakeGroup(parts) \/ TakeDeviceInfo(parts) \/ TakeState(parts)
           \/ TakeExtendedState(parts)
    PROVE  path' \in Seq(Seq(Payload))
<1> DEFINE S == Seq(Payload)
<1>1. path \in Seq(S) /\ parts \in Seq(S)
    OBVIOUS
<1>2. \A k \in 1 .. Len(parts) : parts[k] \in S
    BY <1>1
<1> HIDE DEF S
<1>3. SUFFICES path' \in Seq(S)
    BY DEF S
<1>4. CASE UNCHANGED path
    BY <1>1, <1>4
<1>5. CASE TakeGroup(parts)
    <2>1. path # <<>>
        BY <1>5 DEF TakeGroup, GroupInv, PathInv
    <2>2. CASE path' = Front(path)
        BY <1>1, <2>1, <2>2, LastLess
    <2>3. CASE IsA(parts, "GI", 5) /\ path' = Append(path, parts[4])
        <3>1. parts[4] \in S
            BY <1>2, <2>3 DEF IsA
        <3> QED
            BY <1>1, <2>3, <3>1, OneMore
    <2> QED
        BY <1>4, <1>5, <2>2, <2>3 DEF TakeGroup, Return, Fail, Goto, Keep, groupVars
<1>6. CASE \/ TakeCaps(parts) \/ TakeInfo(parts) \/ TakeLabel(parts) \/ TakeExtendedInfo(parts)
           \/ TakeDeviceInfo(parts) \/ TakeState(parts) \/ TakeExtendedState(parts)
    <2>1. CASE TakeCaps(parts)
        BY <1>4, <2>1 DEF TakeCaps, Fail, Goto, Keep, groupVars
    <2>2. CASE TakeInfo(parts)
        BY <1>4, <2>2 DEF TakeInfo, Fail, Goto, Keep, groupVars
    <2>3. CASE TakeLabel(parts)
        BY <1>4, <2>3 DEF TakeLabel, Fail, Goto, Keep, groupVars
    <2>4. CASE TakeExtendedInfo(parts)
        BY <1>4, <2>4 DEF TakeExtendedInfo, Fail, Goto, Keep, groupVars
    <2>5. CASE TakeDeviceInfo(parts)
        BY <1>4, <2>5 DEF TakeDeviceInfo, Fail, Goto, Keep, groupVars
    <2>6. CASE TakeState(parts)
        BY <1>4, <2>6 DEF TakeState, groupVars
    <2>7. CASE TakeExtendedState(parts)
        BY <1>4, <2>7 DEF TakeExtendedState, NextState, groupVars
    <2> QED
        BY <1>6, <2>1, <2>2, <2>3, <2>4, <2>5, <2>6, <2>7
<1> QED
    BY <1>5, <1>6

\* A message is taken out of the queue.
LEMMA TakeTexts ==
    ASSUME TextsOK, GroupInv, TakeMessage
    PROVE  TextsOK'
<1> DEFINE at == Position
           text == inQueue[at].text
           parts == JavaSplit(text, Separator)
<1>1. inQueue \in Seq(Message) /\ PortsKnown /\ path \in Seq(Seq(Payload))
    BY DEF TextsOK
<1>2. at # 0 /\ inQueue' = RemoveAt(inQueue, at)
    BY DEF TakeMessage
<1>3. at \in 1 .. Len(inQueue)
    BY <1>1, <1>2, PositionType
<1>4. \/ TakeCaps(parts) \/ TakeInfo(parts) \/ TakeLabel(parts) \/ TakeExtendedInfo(parts)
      \/ TakeGroup(parts) \/ TakeDeviceInfo(parts) \/ TakeState(parts)
      \/ TakeExtendedState(parts)
    BY DEF TakeMessage
<1>5. UNCHANGED channelVars /\ UNCHANGED masterSent
    BY DEF TakeMessage
<1> HIDE DEF at
<1>6. inQueue[at] \in Message
    BY <1>1, <1>3
<1>7. text \in Seq(Payload)
    BY <1>6 DEF Message
<1> HIDE DEF text
<1>8. parts \in Seq(Seq(Payload))
    BY <1>7, SomeCharacters, JavaSplitType
<1> HIDE DEF parts
<1>9. PortsKnown'
    BY <1>1, <1>4, <1>8, TakePorts
<1>10. path' \in Seq(Seq(Payload))
    BY <1>1, <1>4, <1>8, TakePath
<1>11. inQueue' \in Seq(Message)
    BY <1>1, <1>2, <1>3, OneLess
<1> QED
    BY <1>5, <1>9, <1>10, <1>11 DEF TextsOK, channelVars

\* The groups of the ports are looked up.
LEMMA GroupTexts ==
    ASSUME TextsOK, CounterInv, GoThroughGroups
    PROVE  TextsOK'
<1> DEFINE i == counter + 1
           group == GroupOf(ports[i].info)
           S == Seq(Payload)
<1>1. /\ ports \in Seq(KnownPort) /\ path \in Seq(S)
      /\ phase' \in {"groups", "askDeviceInfo", "askGroup"}
    BY DEF TextsOK, PortsKnown, GoThroughGroups
<1>2. UNCHANGED inQueue /\ UNCHANGED channelVars /\ UNCHANGED masterSent
    BY DEF GoThroughGroups, processorVars
<1>3. \/ UNCHANGED ports /\ UNCHANGED path
      \/ /\ counter # Len(ports)
         /\ \/ ports' = [ports EXCEPT ![i].group = group] /\ UNCHANGED path
            \/ UNCHANGED ports /\ path' = <<group>>
    BY DEF GoThroughGroups
<1>4. CASE UNCHANGED ports /\ UNCHANGED path
    BY <1>1, <1>2, <1>4 DEF TextsOK, PortsKnown, channelVars
<1>5. CASE /\ counter # Len(ports)
           /\ \/ ports' = [ports EXCEPT ![i].group = group] /\ UNCHANGED path
              \/ UNCHANGED ports /\ path' = <<group>>
    <2>1. i \in 1 .. Len(ports)
        <3>1. counter \in 0 .. Len(ports) /\ Len(ports) \in Nat
            BY <1>1 DEF CounterInv
        <3> QED
            BY <1>5, <3>1
    <2>2. ports[i] \in KnownPort
        BY <1>1, <2>1
    <2> HIDE DEF i
    <2>3. ports[i].info \in S
        BY <2>2 DEF KnownPort
    <2>4. group \in S
        BY <2>3, GroupOfType
    <2> HIDE DEF group
    <2>5. path' \in Seq(S)
        <3>1. <<group>> \in Seq(S)
            BY <2>4, Single
        <3> QED
            BY <1>1, <1>5, <3>1
    <2>6. ports' \in Seq(KnownPort)
        <3> DEFINE new == [ports[i] EXCEPT !.group = group]
        <3>1. new \in KnownPort
            BY <2>2, <2>4 DEF KnownPort
        <3>2. \/ ports' = [ports EXCEPT ![i] = new]
              \/ UNCHANGED ports
            BY <1>5
        <3> HIDE DEF new
        <3> QED
            BY <1>1, <3>1, <3>2, Replaced
    <2>7. PortsKnown'
        BY <1>1, <2>6 DEF PortsKnown
    <2> QED
        BY <1>2, <2>5, <2>7 DEF TextsOK, channelVars
<1> QED
    BY <1>3, <1>4, <1>5

\* A group gets its parent.
LEMMA ParentTexts ==
    ASSUME TextsOK, GroupInv, AssignParent
    PROVE  TextsOK'
<1> DEFINE S == Seq(Payload)
<1>1. path \in Seq(S) /\ ports \in Seq(KnownPort)
    BY DEF TextsOK, PortsKnown
<1>2. path # <<>>
    BY DEF AssignParent, GroupInv, PathInv
<1>3. /\ path' = Front(path) \/ UNCHANGED path
      /\ phase' \in {"groups", "assign", "failed", "endless"}
      /\ UNCHANGED ports /\ UNCHANGED inQueue /\ UNCHANGED channelVars /\ UNCHANGED masterSent
    BY DEF AssignParent, Return, processorVars
<1> HIDE DEF S
<1>4. path' \in Seq(S)
    BY <1>1, <1>2, <1>3, LastLess
<1>5. PortsKnown'
    BY <1>1, <1>3 DEF PortsKnown
<1> QED
    BY <1>3, <1>4, <1>5 DEF TextsOK, channelVars, S

\* A message is sent, or the master fails to send it.
LEMMA SentTexts ==
    ASSUME TextsOK, (\E a \in GoodRequest : Sends(a)) \/ SendsNothing, SendFirst \/ SendRequest
    PROVE  TextsOK'
<1>1. masterSent' \in Seq(GoodRequest)
    <2>1. masterSent \in Seq(GoodRequest)
        BY DEF TextsOK
    <2> QED
        BY <2>1, OneMore DEF Sends, SendsNothing
<1>2. UNCHANGED ports /\ UNCHANGED path /\ UNCHANGED inQueue
    BY DEF SendFirst, SendRequest, RequestAnew, Request, processorVars, groupVars
<1>3. phase' \in {"label", "extendedInfo"} => phase = "askLabels"
    BY DEF SendFirst, SendRequest, RequestAnew, Request
<1>4. phase' # "askLabels"
    BY DEF SendFirst, SendRequest, RequestAnew, Request
<1>5. currentChannel' \in 19 .. 99 /\ channel' \in 0 .. 99
    <2>1. currentChannel \in 19 .. 99 /\ channel \in 0 .. 99
        BY DEF TextsOK
    <2>2. NextChannel \in 20 .. 99
        BY <2>1, NextChannelType
    <2>3. /\ currentChannel' = currentChannel \/ currentChannel' = NextChannel
          /\ channel' = channel \/ channel' = NextChannel
        BY DEF SendFirst, SendRequest, RequestAnew, channelVars
    <2> HIDE DEF NextChannel
    <2> QED
        BY <2>1, <2>2, <2>3
<1>6. PortsKnown'
    BY <1>2, <1>3, <1>4 DEF TextsOK, PortsKnown
<1> QED
    BY <1>1, <1>2, <1>5, <1>6 DEF TextsOK

\* Every step keeps the texts.
LEMMA NextTexts == BulkInv /\ AnswersInv /\ TextsInv /\ [Next]_vars => TextsInv'
<1> SUFFICES ASSUME BulkInv, AnswersInv, TextsInv, [Next]_vars, ~fault'
             PROVE  TextsOK'
    BY DEF TextsInv
<1>1. ~fault
    BY DEF Next, vars, SlaveReads, SlaveStreams, MasterReads, Query, QueryAgain, Disturb,
           SendFirst, SendRequest, RequestAnew, Request, TakeMessage, GoThroughGroups,
           AssignParent, ExpectFails
<1>2. TextsOK /\ ConfigOK /\ GroupInv /\ CounterInv
    BY <1>1, ConfigFacts DEF TextsInv, BulkInv, FlagInv
<1>3. CASE SlaveReads \/ SlaveStreams \/ Disturb \/ UNCHANGED vars
    <2>1. UNCHANGED <<processorVars, queryVars>>
        BY <1>3 DEF SlaveReads, SlaveStreams, Disturb, vars
    <2> QED
        BY <1>2, <2>1 DEF processorVars, queryVars, channelVars, groupVars, TextsOK, PortsKnown
<1>4. CASE MasterReads
    <2>1. UNCHANGED queryVars
        BY <1>4 DEF MasterReads
    <2>2. PICK messages \in Seq(Message) : inQueue' = inQueue \o Queued(messages)
        BY <1>1, <1>2, <1>4, MasterStepAnswers DEF MoreQueued
    <2>3. inQueue \in Seq(Message) /\ Queued(messages) \in Seq(Message)
        BY <1>2, QueuedType DEF TextsOK
    <2>4. inQueue' \in Seq(Message)
        BY <2>2, <2>3
    <2> QED
        BY <1>2, <2>1, <2>4 DEF queryVars, channelVars, groupVars, TextsOK, PortsKnown
<1>5. CASE SendFirst
    BY <1>2, <1>5, FirstSent, SentTexts
<1>6. CASE SendRequest
    BY <1>2, <1>6, RequestsSent, SentTexts
<1>7. CASE TakeMessage
    BY <1>2, <1>7, TakeTexts
<1>8. CASE GoThroughGroups
    BY <1>2, <1>8, GroupTexts
<1>9. CASE AssignParent
    BY <1>2, <1>9, ParentTexts
<1>10. CASE ExpectFails
    <2>1. /\ UNCHANGED ports /\ UNCHANGED path /\ UNCHANGED inQueue /\ UNCHANGED channelVars
          /\ UNCHANGED masterSent /\ phase' \in {"failed", "states", "state", "done"}
        BY <1>10 DEF ExpectFails, NextState, Fail, Goto, Keep, groupVars, processorVars
    <2> QED
        BY <1>2, <2>1 DEF channelVars, TextsOK, PortsKnown
<1>11. CASE QueryAgain
    <2>1. /\ UNCHANGED ports /\ UNCHANGED path /\ UNCHANGED inQueue /\ UNCHANGED channelVars
          /\ UNCHANGED masterSent /\ phase' \in {"states", "query"}
        BY <1>11 DEF QueryAgain, Keep, groupVars, processorVars
    <2> QED
        BY <1>2, <2>1 DEF channelVars, TextsOK, PortsKnown
<1> QED
    BY <1>3, <1>4, <1>5, <1>6, <1>7, <1>8, <1>9, <1>10, <1>11 DEF Next, Query

\* Nothing is known when the connection has just been made.
LEMMA InitTexts == Init => TextsInv
<1> SUFFICES ASSUME Init
             PROVE  TextsOK
    BY DEF TextsInv
<1>1. /\ inQueue = <<>> /\ ports = <<>> /\ path = <<>> /\ masterSent = <<>>
      /\ currentChannel = 19 /\ channel = 0 /\ phase \in {"query", "first"}
    BY DEF Init, CHANNEL_LOWEST_SYNCHRONOUS
<1>2. /\ <<>> \in Seq(Message) /\ <<>> \in Seq(KnownPort) /\ <<>> \in Seq(Seq(Payload))
      /\ <<>> \in Seq(GoodRequest)
    OBVIOUS
<1> QED
    BY <1>1, <1>2 DEF TextsOK, PortsKnown

-----------------------------------------------------------------------------
(* What the slave receives                                                 *)

\* What the slave gets of messages: the parts of those it accepts.  Only the first
\* message it accepts may be left untrimmed.
Fitting == {m \in Message : Accepted(m)}

\* The parts the slave takes out of the i-th message it serves, and all of them.
SplitOf(m, i) == strings_split(m.text, Separator, config.trim \/ i > 1)

GotFrom(messages) ==
    [i \in DOMAIN Chosen(messages, Fitting) |-> SplitOf(Chosen(messages, Fitting)[i], i)]

\* The frames of all requests are shorter than the buffer of the slave.  The rest of a
\* longer one is read as the beginning of the next message: for messages that are long
\* enough its checksum may happen to be right.
RequestsBuffered ==
    \A i \in DOMAIN masterSent : Short(RequestMessage(masterSent[i]), config.cipher)

\* The slave has served the first messages, and the others are under way or in its reader.
RequestsInv ==
    ~fault /\ RequestsBuffered =>
        \E served \in Seq(Message), waiting \in Seq(Message) :
            /\ JoinOf(RequestMessages(masterSent), served, waiting)
            /\ slaveGot = GotFrom(served)
            /\ serving => ReadingOf(reader, toSlave, waiting, config.cipher)

\* The slave gets one message more, if it accepts it.
LEMMA GotMore ==
    ASSUME NEW messages \in Seq(Message), NEW m \in Message
    PROVE  GotFrom(Append(messages, m)) =
             IF Accepted(m)
             THEN Append(GotFrom(messages),
                         strings_split(m.text, Separator,
                                       config.trim \/ GotFrom(messages) # <<>>))
             ELSE GotFrom(messages)
<1> DEFINE c == Chosen(messages, Fitting)
           d == Chosen(Append(messages, m), Fitting)
           n == Len(c)
           got == GotFrom(messages)
           all == GotFrom(Append(messages, m))
           last == SplitOf(m, n + 1)
<1>1. c \in Seq(Message)
    BY ChosenType
<1>2. n \in Nat /\ DOMAIN c = 1 .. n
    BY <1>1
<1>3. d = IF Accepted(m) THEN Append(c, m) ELSE c
    BY ChosenAppend DEF Fitting
<1>4. got = [i \in DOMAIN c |-> SplitOf(c[i], i)] /\ all = [i \in DOMAIN d |-> SplitOf(d[i], i)]
    BY DEF GotFrom
<1> HIDE DEF got, all, c, d
<1>5. CASE ~Accepted(m)
    BY <1>3, <1>4, <1>5 DEF got, all
<1>6. CASE Accepted(m)
    <2>1. d = Append(c, m)
        BY <1>3, <1>6
    <2>2. /\ DOMAIN d = 1 .. n + 1 /\ d[n + 1] = m
          /\ \A i \in 1 .. n : d[i] = c[i]
        BY <1>1, <2>1
    <2> DEFINE R(i) == SplitOf(d[i], i)
               T == {R(i) : i \in 1 .. n + 1}
    <2>3. \A i \in 1 .. n + 1 : R(i) \in T
        OBVIOUS
    <2>4. all = [i \in 1 .. n + 1 |-> R(i)] /\ got = [i \in 1 .. n |-> R(i)] /\ R(n + 1) = last
        BY <1>2, <1>4, <2>2
    <2> HIDE DEF R, T, last, n
    <2>5. all \in Seq(T) /\ Len(all) = n + 1 /\ \A i \in 1 .. n + 1 : all[i] = R(i)
        BY <1>2, <2>3, <2>4
    <2>6. got \in Seq(T) /\ Len(got) = n /\ \A i \in 1 .. n : got[i] = R(i)
        BY <1>2, <2>3, <2>4
    <2>7. last \in T
        BY <1>2, <2>3, <2>4
    <2> DEFINE more == Append(got, last)
    <2>8. /\ more \in Seq(T) /\ Len(more) = n + 1 /\ more[n + 1] = last
          /\ \A i \in 1 .. n : more[i] = got[i]
        BY <2>6, <2>7
    <2> HIDE DEF more
    <2>9. ASSUME NEW i \in 1 .. n + 1
          PROVE  all[i] = more[i]
        <3>1. CASE i \in 1 .. n
            BY <2>5, <2>6, <2>8, <3>1
        <3>2. CASE i = n + 1
            BY <1>2, <2>4, <2>5, <2>8, <3>2
        <3> QED
            BY <1>2, <3>1, <3>2
    <2>10. all = more
        BY <2>5, <2>8, <2>9, SeqEqual
    <2>11. n + 1 > 1 <=> got # <<>>
        BY <1>2, <2>6
    <2>12. last = strings_split(m.text, Separator, config.trim \/ got # <<>>)
        BY <2>11 DEF last, SplitOf
    <2> QED
        BY <1>6, <2>10, <2>12 DEF more, got, all
<1> QED
    BY <1>5, <1>6

\* The first of the waiting messages is among those that have been sent.
LEMMA WaitingShort ==
    ASSUME RequestsBuffered, masterSent \in Seq(GoodRequest),
           NEW served \in Seq(Message), NEW waiting \in Seq(Message), waiting # <<>>,
           JoinOf(RequestMessages(masterSent), served, waiting)
    PROVE  Short(Head(waiting), config.cipher)
<1> DEFINE all == RequestMessages(masterSent)
           i == Len(served) + 1
<1>1. /\ all \in Seq(Message) /\ Len(all) = Len(masterSent)
      /\ \A k \in 1 .. Len(masterSent) : all[k] = RequestMessage(masterSent[k])
    BY RequestMessagesType
<1>2. JoinOf(all, served, waiting)
    OBVIOUS
<1> HIDE DEF all
<1>3. IsJoin(all, served, waiting)
    BY <1>2, Joined DEF JoinOf
<1>4. Len(waiting) \in Nat /\ Len(waiting) # 0 /\ Len(served) \in Nat /\ waiting[1] = Head(waiting)
    OBVIOUS
<1>5. i \in 1 .. Len(masterSent) /\ all[i] = Head(waiting)
    <2>1. Len(all) = Len(served) + Len(waiting) /\ 1 \in 1 .. Len(waiting)
        BY <1>3, <1>4 DEF IsJoin
    <2>2. all[Len(served) + 1] = waiting[1]
        BY <1>3, <2>1 DEF IsJoin
    <2> QED
        BY <1>1, <1>4, <2>1, <2>2
<1>6. i \in DOMAIN masterSent
    BY <1>5
<1> HIDE DEF i
<1> QED
    BY <1>1, <1>5, <1>6 DEF RequestsBuffered

\* A message of those that wait has been served.
LEMMA OneServed ==
    ASSUME NEW all, NEW served \in Seq(Message), NEW waiting \in Seq(Message), waiting # <<>>,
           JoinOf(all, served, waiting)
    PROVE  /\ Head(waiting) \in Message /\ Tail(waiting) \in Seq(Message)
           /\ Append(served, Head(waiting)) \in Seq(Message)
           /\ JoinOf(all, Append(served, Head(waiting)), Tail(waiting))
<1> DEFINE m == Head(waiting)
           one == <<m>>
           rest == Tail(waiting)
<1>1. m \in Message /\ rest \in Seq(Message) /\ waiting = one \o rest
    BY WireFirst
<1> HIDE DEF m, rest
<1>2. one \in Seq(Message)
    BY <1>1
<1>3. Append(served, m) \in Seq(Message) /\ Append(served, m) = served \o one
    BY <1>1, OneMore
<1> HIDE DEF one
<1>4. Regrouped(served, one, rest)
    BY <1>1, <1>2, Regroup
<1>5. JoinOf(all, Append(served, m), rest)
    BY <1>1, <1>3, <1>4 DEF JoinOf, Regrouped
<1> QED
    BY <1>1, <1>3, <1>5 DEF m, rest

\* What the invariant says of certain messages.
Serves(served, waiting) ==
    /\ served \in Seq(Message) /\ waiting \in Seq(Message)
    /\ JoinOf(RequestMessages(masterSent), served, waiting)
    /\ slaveGot = GotFrom(served)
    /\ serving => ReadingOf(reader, toSlave, waiting, config.cipher)

\* The slave handles the first of the messages that wait.
LEMMA FirstHandled ==
    ASSUME NEW served \in Seq(Message), NEW waiting \in Seq(Message), waiting # <<>>,
           JoinOf(RequestMessages(masterSent), served, waiting), slaveGot = GotFrom(served),
           Accepted(Head(waiting)), Handle(Head(waiting)),
           ReadingOf(reader', toSlave', Tail(waiting), config.cipher),
           UNCHANGED config, UNCHANGED masterSent
    PROVE  \E s, w : Serves(s, w)'
<1> DEFINE m == Head(waiting)
           now == Append(served, m)
           rest == Tail(waiting)
           parts == SplitBySlave(m.text)
<1>1. /\ m \in Message /\ rest \in Seq(Message) /\ now \in Seq(Message)
      /\ JoinOf(RequestMessages(masterSent), now, rest)
    BY OneServed
<1>2. \/ serving' = FALSE /\ UNCHANGED slaveGot
      \/ slaveGot' = Append(slaveGot, parts)
    BY DEF Handle
<1> HIDE DEF m, rest
<1>3. CASE serving' = FALSE /\ UNCHANGED slaveGot
    <2>1. GotFrom(served)' = GotFrom(served)
        BY DEF GotFrom, SplitOf
    <2>2. Serves(served, waiting)'
        BY <1>3, <2>1 DEF Serves
    <2> QED
        BY <2>2
<1>4. CASE slaveGot' = Append(slaveGot, parts)
    <2>1. parts = strings_split(m.text, Separator, config.trim \/ GotFrom(served) # <<>>)
        BY DEF SplitBySlave
    <2>2. GotFrom(now) = Append(GotFrom(served), parts)
        BY <1>1, <2>1, GotMore DEF m
    <2> HIDE DEF now, parts
    <2>3. GotFrom(now)' = GotFrom(now)
        BY DEF GotFrom, SplitOf, now, m
    <2>4. Serves(now, rest)'
        BY <1>1, <1>4, <2>2, <2>3 DEF Serves, rest, now, m
    <2> QED
        BY <2>4
<1> QED
    BY <1>2, <1>3, <1>4

\* The slave reads a byte, and handles a message if one is complete.
LEMMA SlaveReadsRequests ==
    ASSUME RequestsInv, TextsInv, ConfigOK, SlaveReads, ~fault, RequestsBuffered
    PROVE  \E s, w : Serves(s, w)'
<1> DEFINE cipher == config.cipher
           b == Head(toSlave)
           rest == Tail(toSlave)
           read == ReadByte(reader, b, cipher)
           all == RequestMessages(masterSent)
<1>1. PICK served \in Seq(Message), waiting \in Seq(Message) :
         /\ JoinOf(all, served, waiting) /\ slaveGot = GotFrom(served)
         /\ serving => ReadingOf(reader, toSlave, waiting, cipher)
    BY DEF RequestsInv
<1>2. /\ serving /\ toSlave # <<>> /\ toSlave' = rest /\ reader' = read.reader
      /\ UNCHANGED config /\ UNCHANGED masterSent
      /\ IF read.message = <<>> THEN UNCHANGED slaveGot /\ UNCHANGED serving
         ELSE Handle(read.message[1])
    BY DEF SlaveReads, SlaveTakes, queryVars
<1>3. masterSent \in Seq(GoodRequest) /\ cipher \in BOOLEAN
    BY DEF TextsInv, TextsOK, ConfigOK
<1>4. ReadingOf(reader, toSlave, waiting, cipher)
    BY <1>1, <1>2
<1>5. toSlave \in Seq(Char)
    BY <1>4 DEF ReadingOf
<1>6. b \in Char /\ rest \in Seq(Char) /\ toSlave = <<b>> \o rest
    BY <1>2, <1>5
<1> HIDE DEF b, rest, all
<1>7. ReadingOf(reader, <<b>> \o rest, waiting, cipher)
    BY <1>4, <1>6
<1>8. waiting # <<>> => Short(Head(waiting), cipher)
    <2>1. ASSUME waiting # <<>>
          PROVE  Short(Head(waiting), config.cipher)
        BY <1>1, <1>3, <2>1, WaitingShort DEF all
    <2> QED
        BY <2>1
<1> HIDE DEF cipher
<1>9. \/ Continues(read, rest, waiting, cipher)
      \/ Completes(read, rest, waiting, cipher)
    BY <1>3, <1>6, <1>7, <1>8, ByteRead
<1> HIDE DEF read
<1>10. CASE Continues(read, rest, waiting, cipher)
    <2>1. read.message = <<>> /\ ReadingOf(reader', toSlave', waiting, cipher)
        BY <1>2, <1>10 DEF Continues
    <2>2. GotFrom(served)' = GotFrom(served)
        BY <1>2 DEF GotFrom, SplitOf
    <2>3. Serves(served, waiting)'
        BY <1>1, <1>2, <2>1, <2>2 DEF Serves, all, cipher
    <2> QED
        BY <2>3
<1>11. CASE Completes(read, rest, waiting, cipher)
    <2> DEFINE m == Head(waiting)
               later == Tail(waiting)
               now == Append(served, m)
    <2>1. /\ waiting # <<>> /\ ReadingOf(reader', toSlave', later, cipher)
          /\ read.message = IF Accepted(m) THEN <<m>> ELSE <<>>
        BY <1>2, <1>11 DEF Completes
    <2>2. CASE Accepted(m)
        <3>1. read.message = <<m>>
            BY <2>1, <2>2
        <3> HIDE DEF m
        <3>2. read.message # <<>> /\ read.message[1] = m
            BY <3>1
        <3>3. Handle(m)
            BY <1>2, <3>2
        <3> QED
            BY <1>1, <1>2, <2>1, <2>2, <3>3, FirstHandled DEF m, all, cipher
    <2>3. CASE ~Accepted(m)
        <3>1. read.message = <<>> /\ UNCHANGED slaveGot /\ UNCHANGED serving
            BY <1>2, <2>1, <2>3
        <3>2. /\ m \in Message /\ later \in Seq(Message) /\ now \in Seq(Message)
              /\ JoinOf(all, now, later)
            BY <1>1, <2>1, OneServed
        <3>3. GotFrom(now) = GotFrom(served)
            BY <1>1, <2>3, <3>2, GotMore
        <3> HIDE DEF m, later, now
        <3>4. GotFrom(now)' = GotFrom(now)
            BY <1>2 DEF GotFrom, SplitOf, now, m
        <3>5. Serves(now, later)'
            BY <1>1, <1>2, <2>1, <3>1, <3>2, <3>3, <3>4 DEF Serves, all, cipher, now, later, m
        <3> QED
            BY <3>5
    <2> QED
        BY <2>2, <2>3
<1> QED
    BY <1>9, <1>10, <1>11

\* Requests that are under way leave the reader and what has been received alone.
LEMMA RequestsWait ==
    ASSUME RequestsInv, ~fault, RequestsBuffered, UNCHANGED config, UNCHANGED slaveGot,
           UNCHANGED serving, UNCHANGED masterSent, UNCHANGED toSlave,
           serving => UNCHANGED reader
    PROVE  \E s, w : Serves(s, w)'
<1>1. PICK served, waiting : Serves(served, waiting)
    BY DEF RequestsInv, Serves
<1>2. GotFrom(served)' = GotFrom(served)
    BY DEF GotFrom, SplitOf
<1>3. Serves(served, waiting)'
    BY <1>1, <1>2 DEF Serves
<1> QED
    BY <1>3

\* The master sends a message.
LEMMA RequestsMore ==
    ASSUME RequestsInv, TextsInv, ConfigOK, ~fault, RequestsBuffered,
           UNCHANGED config, UNCHANGED slaveGot, UNCHANGED serving, UNCHANGED reader,
           NEW a \in GoodRequest, Sends(a)
    PROVE  \E s, w : Serves(s, w)'
<1> DEFINE cipher == config.cipher
           m == RequestMessage(a)
           all == RequestMessages(masterSent)
<1>1. PICK served \in Seq(Message), waiting \in Seq(Message) :
         /\ JoinOf(all, served, waiting) /\ slaveGot = GotFrom(served)
         /\ serving => ReadingOf(reader, toSlave, waiting, cipher)
    BY DEF RequestsInv
<1>2. masterSent \in Seq(GoodRequest) /\ cipher \in BOOLEAN
    BY DEF TextsInv, TextsOK, ConfigOK
<1>3. m \in Message
    BY RequestMessageType
<1>4. RequestMessages(masterSent)' = Append(all, m)
    BY <1>2, RequestMessagesAppend DEF Sends
<1>5. toSlave' = toSlave \o OnWire(m.channel, m.text, cipher)
    <2>1. m.channel = a.channel /\ m.text = JavaJoin(a.parts, Separator)
        BY DEF RequestMessage
    <2> HIDE DEF m
    <2> QED
        BY <2>1 DEF Sends
<1> DEFINE then == Append(waiting, m)
           one == <<m>>
<1> HIDE DEF m, all, cipher
<1>6. serving => ReadingOf(reader, toSlave \o OnWire(m.channel, m.text, cipher), then, cipher)
    BY <1>1, <1>2, <1>3, MoreAhead
<1>7. then \in Seq(Message) /\ then = waiting \o one /\ one \in Seq(Message)
    BY <1>3, OneMore, Single
<1> HIDE DEF then, one
<1>8. JoinOf(Append(all, m), served, then)
    <2>1. Regrouped(served, waiting, one)
        BY <1>7, Regroup
    <2>2. all \in Seq(Message)
        BY <1>2, RequestMessagesType DEF all
    <2>3. Append(all, m) = all \o one
        BY <1>3, <2>2, OneMore DEF one
    <2> QED
        BY <1>1, <1>7, <2>1, <2>3 DEF JoinOf, Regrouped
<1>9. GotFrom(served)' = GotFrom(served)
    BY DEF GotFrom, SplitOf
<1>10. Serves(served, then)'
    BY <1>1, <1>4, <1>5, <1>6, <1>7, <1>8, <1>9 DEF Serves, cipher, then, m
<1> QED
    BY <1>10

\* The frames of the requests so far were short when those of one more are.
LEMMA BufferedBefore ==
    ASSUME RequestsBuffered', masterSent \in Seq(GoodRequest), UNCHANGED config,
           \/ UNCHANGED masterSent
           \/ \E a \in GoodRequest : masterSent' = Append(masterSent, a)
    PROVE  RequestsBuffered
<1>1. CASE UNCHANGED masterSent
    BY <1>1 DEF RequestsBuffered
<1>2. ASSUME NEW a \in GoodRequest, masterSent' = Append(masterSent, a)
      PROVE  RequestsBuffered
    <2>1. \A i \in DOMAIN masterSent : i \in DOMAIN masterSent' /\ masterSent'[i] = masterSent[i]
        BY <1>2
    <2> QED
        BY <2>1 DEF RequestsBuffered
<1> QED
    BY <1>1, <1>2

\* Every step keeps the invariant of the requests.
LEMMA NextRequests ==
    BulkInv /\ TextsInv /\ RequestsInv /\ [Next]_vars => RequestsInv'
<1> SUFFICES ASSUME BulkInv, TextsInv, RequestsInv, [Next]_vars, ~fault', RequestsBuffered'
             PROVE  \E s, w : Serves(s, w)'
    BY DEF RequestsInv, Serves
<1>0. ~fault
    BY DEF Next, vars, SlaveReads, SlaveStreams, MasterReads, Query, QueryAgain, Disturb,
           SendFirst, SendRequest, RequestAnew, Request, TakeMessage, GoThroughGroups,
           AssignParent, ExpectFails
<1>01. UNCHANGED config
    BY DEF Next, vars, SlaveReads, SlaveStreams, MasterReads, Query, QueryAgain, Disturb,
           SendFirst, SendRequest, RequestAnew, Request, TakeMessage, GoThroughGroups,
           AssignParent, ExpectFails
<1>1. ~fault /\ UNCHANGED config
    BY <1>0, <1>01
<1>2. TextsOK /\ ConfigOK /\ GroupInv /\ masterSent \in Seq(GoodRequest)
    BY <1>1, ConfigFacts DEF TextsInv, TextsOK, BulkInv, FlagInv
<1>3. ASSUME UNCHANGED slaveGot, UNCHANGED serving, UNCHANGED masterSent, UNCHANGED toSlave,
             serving => UNCHANGED reader
      PROVE  \E s, w : Serves(s, w)'
    BY <1>1, <1>2, <1>3, BufferedBefore, RequestsWait
<1>4. CASE SlaveReads
    <2>1. UNCHANGED masterSent
        BY <1>4 DEF SlaveReads, queryVars
    <2> QED
        BY <1>1, <1>2, <1>4, <2>1, BufferedBefore, SlaveReadsRequests
<1>5. CASE SlaveStreams
    <2>1. /\ UNCHANGED slaveGot /\ UNCHANGED serving /\ UNCHANGED masterSent /\ UNCHANGED toSlave
          /\ reader = EmptyReader
          /\ reader' = Overwritten(reader, Encoded(StreamChannel, <<"x">>), config.cipher)
        BY <1>5 DEF SlaveStreams, MaySend, queryVars
    <2> DEFINE bytes == Encoded(StreamChannel, <<"x">>)
    <2> HIDE DEF bytes
    <2>2. Overwritten(EmptyReader, bytes, config.cipher) = EmptyReader
        BY DEF Overwritten, EmptyReader
    <2> QED
        BY <1>3, <2>1, <2>2 DEF bytes
<1>6. CASE SendFirst \/ SendRequest
    <2>1. (\E a \in GoodRequest : Sends(a)) \/ SendsNothing
        BY <1>2, <1>6, FirstSent, RequestsSent
    <2>2. UNCHANGED slaveGot /\ UNCHANGED serving /\ UNCHANGED reader
        BY <1>6 DEF SendFirst, SendRequest, RequestAnew, Request, slaveVars
    <2>3. CASE SendsNothing
        BY <1>3, <2>2, <2>3 DEF SendsNothing
    <2>4. ASSUME NEW a \in GoodRequest, Sends(a)
          PROVE  \E s, w : Serves(s, w)'
        <3>1. RequestsBuffered
            BY <1>1, <1>2, <2>4, BufferedBefore DEF Sends
        <3> QED
            BY <1>1, <1>2, <2>2, <2>4, <3>1, RequestsMore
    <2> QED
        BY <2>1, <2>3, <2>4
<1>7. CASE \/ MasterReads \/ TakeMessage \/ GoThroughGroups \/ AssignParent \/ ExpectFails
           \/ QueryAgain \/ UNCHANGED vars
    <2>1. UNCHANGED slaveVars /\ UNCHANGED masterSent /\ UNCHANGED toSlave
        BY <1>7 DEF MasterReads, TakeMessage, GoThroughGroups, AssignParent, ExpectFails,
                    QueryAgain, vars, queryVars
    <2> QED
        BY <1>3, <2>1 DEF slaveVars
<1>8. CASE Disturb
    BY <1>8 DEF Disturb
<1> QED
    BY <1>4, <1>5, <1>6, <1>7, <1>8 DEF Next, Query

\* Nothing has been requested when the connection has just been made.
LEMMA InitRequests == Init => RequestsInv
<1> SUFFICES ASSUME Init
             PROVE  Serves(<<>>, <<>>)
    BY DEF RequestsInv, Serves
<1>1. /\ masterSent = <<>> /\ slaveGot = <<>> /\ toSlave = <<>> /\ reader = EmptyReader
    BY DEF Init
<1>2. RequestMessages(<<>>) = <<>>
    BY DEF RequestMessages
<1>3. GotFrom(<<>>) = <<>>
    BY ChosenEmpty DEF GotFrom
<1>4. <<>> \in Seq(Message) /\ <<>> \in Seq(Payload) /\ <<>> \in Seq(Char) /\ <<>> = <<>> \o <<>>
    OBVIOUS
<1>5. Multiple(Len(<<>>)) /\ Len(<<>>) < BlockSize
    <2>1. BlockSize * 0 = 0 /\ BlockSize > 0
        BY FramingAssumption DEF FramingAssumption
    <2> QED
        BY <2>1 DEF Multiple
<1>6. <<>> \o (<<>> \o <<>>) = Wire(<<>>, config.cipher)
    BY <1>4, WireEmpty
<1>7. EmptyReader.assembled = <<>> /\ EmptyReader.block = <<>>
    BY DEF EmptyReader
<1>8. ReadingOf(EmptyReader, <<>>, <<>>, config.cipher)
    BY <1>4, <1>5, <1>6, <1>7 DEF ReadingOf
<1> QED
    BY <1>1, <1>2, <1>3, <1>4, <1>8 DEF Serves, JoinOf

-----------------------------------------------------------------------------
(* The theorems about both directions                                      *)

\* Requests that are short enough for the buffer of the slave and can be taken apart,
\* and those of them that the slave accepts.
ShortRequest ==
    {a \in GoodRequest :
        Short(RequestMessage(a), config.cipher) /\ Unambiguous(a.parts, Separator)}

AcceptedRequest == {a \in ShortRequest : Accepted(RequestMessage(a))}

\* Of short requests the slave accepts those that fit.
LEMMA FitsAccepted ==
    ASSUME NEW a \in ShortRequest
    PROVE  Fits(a) <=> a \in AcceptedRequest
<1>1. /\ RequestMessage(a).channel = a.channel
      /\ RequestMessage(a).text = JavaJoin(a.parts, Separator)
    BY DEF RequestMessage
<1>2. Short(RequestMessage(a), config.cipher)
    BY DEF ShortRequest
<1> QED
    BY <1>1, <1>2 DEF Fits, FitsSlave, Short, Accepted, AcceptedRequest, OnWire

\* What it accepts of the messages are the messages of the requests it accepts.
LEMMA AcceptedMessages ==
    ASSUME NEW requests \in Seq(ShortRequest)
    PROVE  /\ Chosen(requests, AcceptedRequest) \in Seq(AcceptedRequest)
           /\ Chosen(RequestMessages(requests), Fitting)
                = RequestMessages(Chosen(requests, AcceptedRequest))
<1> DEFINE P == {s \in Seq(ShortRequest) :
                    /\ Chosen(s, AcceptedRequest) \in Seq(AcceptedRequest)
                    /\ Chosen(RequestMessages(s), Fitting)
                         = RequestMessages(Chosen(s, AcceptedRequest))}
<1>1. <<>> \in P
    <2>1. RequestMessages(<<>>) = <<>>
        BY DEF RequestMessages
    <2>2. <<>> \in Seq(ShortRequest) /\ <<>> \in Seq(AcceptedRequest)
        OBVIOUS
    <2> QED
        BY <2>1, <2>2, ChosenEmpty
<1>2. ASSUME NEW s \in Seq(ShortRequest), NEW a \in ShortRequest, s \in P
      PROVE  Append(s, a) \in P
    <2> DEFINE more == Append(s, a)
               m == RequestMessage(a)
               c == Chosen(s, AcceptedRequest)
               d == Chosen(RequestMessages(s), Fitting)
    <2>1. ShortRequest \subseteq GoodRequest /\ AcceptedRequest \subseteq GoodRequest
        BY DEF ShortRequest, AcceptedRequest
    <2>2. s \in Seq(GoodRequest) /\ a \in GoodRequest
        BY <2>1, Larger
    <2>3. m \in Message /\ RequestMessages(s) \in Seq(Message)
        BY <2>2, RequestMessageType, RequestMessagesType
    <2>4. RequestMessages(more) = Append(RequestMessages(s), m)
        BY <2>2, RequestMessagesAppend
    <2>5. c \in Seq(AcceptedRequest) /\ d = RequestMessages(c)
        BY <1>2
    <2>6. c \in Seq(GoodRequest)
        BY <2>1, <2>5, Larger
    <2>7. Chosen(more, AcceptedRequest) = IF a \in AcceptedRequest THEN Append(c, a) ELSE c
        BY ChosenAppend
    <2>8. Chosen(Append(RequestMessages(s), m), Fitting)
            = IF m \in Fitting THEN Append(d, m) ELSE d
        BY <2>3, ChosenAppend
    <2>9. a \in AcceptedRequest <=> m \in Fitting
        BY <2>3 DEF AcceptedRequest, Fitting
    <2>10. RequestMessages(Append(c, a)) = Append(RequestMessages(c), m)
        BY <2>2, <2>6, RequestMessagesAppend
    <2>11. more \in Seq(ShortRequest)
        BY OneMore
    <2> HIDE DEF c, d, m, more
    <2>12. Chosen(more, AcceptedRequest) \in Seq(AcceptedRequest)
        BY <2>5, <2>7, OneMore
    <2>13. Chosen(RequestMessages(more), Fitting)
             = RequestMessages(Chosen(more, AcceptedRequest))
        BY <2>4, <2>5, <2>7, <2>8, <2>9, <2>10
    <2> QED
        BY <2>11, <2>12, <2>13 DEF more
<1> HIDE DEF P
<1>3. Seq(ShortRequest) \subseteq P
    BY <1>1, <1>2, SequenceInduction
<1>4. requests \in P
    BY <1>3
<1> QED
    BY <1>4 DEF P

\* What the slave gets of a request it accepts is what the parts are received as.
LEMMA AcceptedIsReceived ==
    ASSUME ConfigOK, NEW a \in AcceptedRequest, NEW i \in Nat
    PROVE  SplitOf(RequestMessage(a), i) = SlaveReceives(a.parts, config.trim \/ i > 1)
<1> DEFINE parts == a.parts
           trim == config.trim \/ i > 1
           text == JavaJoin(parts, Separator)
<1>1. parts \in Seq(Seq(Char)) /\ Unambiguous(parts, Separator)
    BY DEF AcceptedRequest, ShortRequest, GoodRequest
<1>2. Len(text) \in 1 .. PayloadLength - 1
    BY DEF AcceptedRequest, Accepted, RequestMessage
<1>3. SplitOf(RequestMessage(a), i) = strings_split(text, Separator, trim)
    BY DEF SplitOf, RequestMessage
<1>4. trim \in BOOLEAN
    BY DEF ConfigOK
<1> HIDE DEF parts, trim
<1>5. parts # <<>>
    <2> SUFFICES ASSUME parts = <<>>
                 PROVE  FALSE
        OBVIOUS
    <2>1. JavaJoin(<<>>, Separator) = <<>>
        BY FlattenEmpty DEF JavaJoin, Separated
    <2> QED
        BY <1>2, <2>1
<1>6. strings_split(text, Separator, trim) = SlaveReceives(parts, trim)
    BY <1>1, <1>4, <1>5, SomeCharacters, SlaveSplitsWhatMasterJoins
<1> QED
    BY <1>3, <1>6 DEF parts, trim

\* The invariants say what the slave has received.
LEMMA RequestsFollow ==
    ConfigOK /\ TextsInv /\ RequestsInv /\ RequestsBuffered => RequestsFaithful
<1> SUFFICES ASSUME ConfigOK, TextsInv, RequestsInv, RequestsBuffered, ~fault,
                    AllUnambiguous(masterSent)
             PROVE  IsPrefix(slaveGot, SentToSlave)
    BY DEF RequestsFaithful
<1>1. PICK served \in Seq(Message), waiting \in Seq(Message) :
          /\ JoinOf(RequestMessages(masterSent), served, waiting)
          /\ slaveGot = GotFrom(served)
    BY DEF RequestsInv
<1>2. masterSent \in Seq(GoodRequest)
    BY DEF TextsInv, TextsOK
<1>3. masterSent \in Seq(ShortRequest)
    <2>1. \A i \in 1 .. Len(masterSent) : masterSent[i] \in GoodRequest
        BY <1>2
    <2>2. DOMAIN masterSent = 1 .. Len(masterSent) /\ Len(masterSent) \in Nat
        BY <1>2
    <2>3. \A i \in 1 .. Len(masterSent) : masterSent[i] \in ShortRequest
        BY <2>1, <2>2 DEF RequestsBuffered, AllUnambiguous, ShortRequest
    <2> QED
        BY <1>2, <2>2, <2>3
<1> DEFINE fitting == Chosen(masterSent, AcceptedRequest)
           got == Chosen(served, Fitting)
           later == Chosen(waiting, Fitting)
           expected == RequestMessages(fitting)
<1>4. fitting \in Seq(AcceptedRequest) /\ Chosen(RequestMessages(masterSent), Fitting) = expected
    BY <1>3, AcceptedMessages
<1>5. got \in Seq(Message) /\ later \in Seq(Message)
    BY ChosenType
<1>6. JoinOf(expected, got, later)
    <2>1. Chosen(served \o waiting, Fitting) = got \o later
        BY ChosenConcat
    <2> QED
        BY <1>1, <1>4, <2>1 DEF JoinOf
<1>7. Only(masterSent, Fits) = fitting
    <2>1. \A i \in DOMAIN masterSent : masterSent[i] \in ShortRequest
        BY <1>3
    <2>2. \A i \in DOMAIN masterSent : Fits(masterSent[i]) <=> masterSent[i] \in AcceptedRequest
        BY <2>1, FitsAccepted
    <2>3. [i \in DOMAIN masterSent |-> IF Fits(masterSent[i]) THEN <<masterSent[i]>> ELSE <<>>]
            = [i \in DOMAIN masterSent |->
                  IF masterSent[i] \in AcceptedRequest THEN <<masterSent[i]>> ELSE <<>>]
        BY <2>2
    <2> QED
        BY <2>3 DEF Only, Chosen
<1>8. SentToSlave = [i \in DOMAIN fitting |->
                        SlaveReceives(fitting[i].parts, config.trim \/ i > 1)]
    BY <1>7 DEF SentToSlave
<1>9. slaveGot = [i \in DOMAIN got |-> SplitOf(got[i], i)]
    BY <1>1 DEF GotFrom
<1> HIDE DEF fitting, got, later
<1> DEFINE n == Len(got)
           N == Len(fitting)
<1>10. n \in Nat /\ DOMAIN got = 1 .. n /\ N \in Nat /\ DOMAIN fitting = 1 .. N
    BY <1>4, <1>5
<1>11. \A i \in 1 .. N : fitting[i] \in AcceptedRequest /\ fitting[i] \in GoodRequest
    <2>1. AcceptedRequest \subseteq GoodRequest
        BY DEF AcceptedRequest, ShortRequest
    <2> QED
        BY <1>4, <2>1
<1>12. /\ expected \in Seq(Message) /\ Len(expected) = N
       /\ \A i \in 1 .. N : expected[i] = RequestMessage(fitting[i])
    <2>1. \A i \in 1 .. N : RequestMessage(fitting[i]) \in Message
        BY <1>11, RequestMessageType
    <2>2. expected = [i \in 1 .. N |-> RequestMessage(fitting[i])]
        BY <1>10 DEF RequestMessages
    <2> QED
        BY <1>10, <2>1, <2>2
<1> HIDE DEF expected, n, N
<1>13. n <= N /\ \A i \in 1 .. n : got[i] = expected[i]
    <2>1. IsJoin(expected, got, later)
        BY <1>5, <1>6, <1>12, Joined DEF JoinOf
    <2>2. Len(later) \in Nat /\ N = n + Len(later)
        BY <1>5, <1>12, <2>1 DEF IsJoin, n
    <2>3. \A i \in 1 .. n : got[i] = expected[i]
        BY <2>1 DEF IsJoin, n
    <2> QED
        BY <1>10, <2>2, <2>3
<1> DEFINE Result(i) == SlaveReceives(fitting[i].parts, config.trim \/ i > 1)
           T == {Result(i) : i \in 1 .. N}
<1>14. SentToSlave = [i \in 1 .. N |-> Result(i)]
    BY <1>8, <1>10
<1>15. slaveGot = [i \in 1 .. n |-> SplitOf(got[i], i)]
    BY <1>9, <1>10
<1>16. ASSUME NEW i \in 1 .. n
       PROVE  i \in 1 .. N /\ SplitOf(got[i], i) = Result(i)
    <2>1. i \in 1 .. N /\ i \in Nat
        BY <1>10, <1>13
    <2> DEFINE a == fitting[i]
    <2>2. a \in AcceptedRequest /\ got[i] = RequestMessage(a)
        BY <1>11, <1>12, <1>13, <2>1
    <2> HIDE DEF a
    <2>3. SplitOf(RequestMessage(a), i) = SlaveReceives(a.parts, config.trim \/ i > 1)
        BY <2>1, <2>2, AcceptedIsReceived
    <2> QED
        BY <2>1, <2>2, <2>3 DEF a
<1>17. \A i \in 1 .. N : Result(i) \in T
    OBVIOUS
<1> HIDE DEF Result, T
<1>18. SentToSlave \in Seq(T) /\ Len(SentToSlave) = N /\ \A i \in 1 .. N : SentToSlave[i] = Result(i)
    BY <1>10, <1>14, <1>17
<1>19. slaveGot \in Seq(T) /\ Len(slaveGot) = n /\ \A i \in 1 .. n : slaveGot[i] = Result(i)
    BY <1>10, <1>15, <1>16, <1>17
<1>20. \A i \in 1 .. Len(slaveGot) : slaveGot[i] = SentToSlave[i]
    BY <1>16, <1>18, <1>19
<1>21. Len(slaveGot) <= Len(SentToSlave)
    BY <1>13, <1>18, <1>19
<1> QED
    BY <1>18, <1>19, <1>20, <1>21, Prefix

\* The invariants of both directions hold in every state.
LEMMA BothDirections == Spec => [](BulkInv /\ AnswersInv /\ TextsInv /\ RequestsInv)
<1>1. Init => AnswersInv /\ TextsInv /\ RequestsInv
    BY InitAnswers, InitTexts, InitRequests
<1>2. BulkInv /\ (AnswersInv /\ TextsInv /\ RequestsInv) /\ [Next]_vars
        => (AnswersInv /\ TextsInv /\ RequestsInv)'
    BY NextAnswers, NextTexts, NextRequests
<1> QED
    BY <1>1, <1>2, BulkInvariant, PTL DEF Spec

\* Every request the master sends on a connection that is not disturbed is what the slave
\* gets, in order, if it fits: the ones whose text is too long or empty are dropped, and
\* all others arrive with the parts they were sent with, up to blanks at their ends; for
\* every device, in the clear and with a cipher, and also when a streaming port sends
\* while a request is being read.  The frames fit in the buffer of the slave.
THEOREM RequestsArrive == Spec => [](RequestsBuffered => RequestsFaithful)
<1>1. BulkInv => ConfigOK
    BY ConfigFacts DEF BulkInv, FlagInv
<1>2. BulkInv /\ TextsInv /\ RequestsInv => (RequestsBuffered => RequestsFaithful)
    BY <1>1, RequestsFollow
<1> QED
    BY <1>2, BothDirections, PTL

\* Both directions: joining, framing, encryption, the two readers and splitting undo each
\* other as long as no request overflows the buffer of the slave.
THEOREM MessagesArrive == Spec => [](RequestsBuffered => MessagesFaithful)
<1>1. AnswersFaithful /\ (RequestsBuffered => RequestsFaithful)
        => (RequestsBuffered => MessagesFaithful)
    BY DEF MessagesFaithful
<1> QED
    BY <1>1, AnswersArrive, RequestsArrive, PTL

-----------------------------------------------------------------------------
(* Replies belong to requests                                              *)

\* What the slave sends for a request on a channel: answers on it, and reports of errors.
AnswerOn(ch) == {a \in GoodAnswer : a.channel \in {0, ch} /\ Truthful(a.parts)}

\* What is sent of a reply is on its channel or reports an error.
LEMMA SentChannels ==
    ASSUME NEW ch \in 0 .. 99, NEW reply, reply.sent \in Seq(RawAnswerOn(ch))
    PROVE  Sent(reply) \in Seq(AnswerOn(ch))
<1> DEFINE R == RawAnswerOn(ch)
           T == R \cup {ErrorAnswer}
           s == reply.sent
           bad == {i \in 1 .. Len(s) : ~Sendable(s[i])}
           failing == SelectInSeq(s, LAMBDA a : ~Sendable(a))
           before == SubSeq(s, 1, failing - 1)
           all == Sent(reply)
<1>1. failing = IF bad = {} THEN 0 ELSE Min(bad)
    BY DEF SelectInSeq
<1>2. all = IF failing # 0 THEN Append(before, ErrorAnswer)
            ELSE IF reply.status = "refused" THEN Append(s, ErrorAnswer) ELSE s
    BY DEF Sent, ErrorAnswer
<1>3. s \in Seq(R) /\ reply.sent \in Seq(RawAnswer)
    <2>1. R \subseteq RawAnswer
        BY AnyChannel
    <2> QED
        BY <2>1, Larger
<1>4. all \in Seq(GoodAnswer)
    BY <1>3, SentType
<1> HIDE DEF failing, before, s, R
<1>5. ASSUME failing # 0
      PROVE  failing - 1 \in 0 .. Len(s)
    <2>1. bad # {} /\ failing = Min(bad)
        BY <1>1, <1>5
    <2>2. bad \in SUBSET Nat
        OBVIOUS
    <2>3. \A k \in bad : k \in 1 .. Len(s)
        OBVIOUS
    <2> HIDE DEF bad
    <2>4. PICK n \in bad : \A k \in bad : n <= k
        BY <2>1, <2>2, LeastNumber
    <2>5. failing \in bad
        BY <2>1, <2>4 DEF Min
    <2> QED
        BY <1>3, <2>3, <2>5
<1>6. ASSUME failing # 0
      PROVE  before \in Seq(R)
    BY <1>3, <1>5, <1>6, Beginning DEF before
<1>7. R \subseteq T /\ ErrorAnswer \in T
    OBVIOUS
<1> HIDE DEF T
<1>8. all \in Seq(T)
    <2>1. CASE failing # 0
        <3>1. before \in Seq(T)
            BY <1>6, <1>7, <2>1, Larger
        <3> QED
            BY <1>2, <1>7, <2>1, <3>1, OneMore
    <2>2. CASE failing = 0
        <3>1. s \in Seq(T)
            BY <1>3, <1>7, Larger
        <3> QED
            BY <1>2, <1>7, <2>2, <3>1, OneMore
    <2> QED
        BY <2>1, <2>2
<1>9. ASSUME NEW a \in T, a \in GoodAnswer
      PROVE  a \in AnswerOn(ch)
    <2>1. a \in R => a.channel = ch /\ Truthful(a.parts)
        BY DEF R, RawAnswerOn
    <2>2. ErrorAnswer.channel = 0 /\ Truthful(ErrorAnswer.parts)
        BY OtherAnswer DEF ErrorAnswer, Answer
    <2> QED
        BY <1>9, <2>1, <2>2 DEF T, AnswerOn
<1> HIDE DEF all
<1>10. \A i \in 1 .. Len(all) : all[i] \in AnswerOn(ch)
    BY <1>4, <1>8, <1>9
<1>11. all \in Seq(AnswerOn(ch))
    BY <1>4, <1>10
<1> QED
    BY <1>11 DEF all

\* The slave answers a message on its channel.
LEMMA HandleAnswersOn ==
    ASSUME ConfigOK, NEW message, message.channel \in 0 .. 99, Handle(message)
    PROVE  \E more \in Seq(AnswerOn(message.channel)) :
              UNCHANGED slaveSent \/ slaveSent' = slaveSent \o more
<1> DEFINE parts == SplitBySlave(message.text)
           ch == message.channel
           reply(dangling) == IF ch = 0 THEN EmptyReply ELSE Reply(ch, parts, dangling)
<1>1. \/ UNCHANGED slaveSent
      \/ \E dangling \in {<<"29">>, <<Noise>>} :
            slaveSent' = slaveSent \o Sent(reply(dangling))
    BY DEF Handle
<1>2. CASE UNCHANGED slaveSent
    <2>1. <<>> \in Seq(AnswerOn(ch))
        OBVIOUS
    <2> QED
        BY <1>2, <2>1
<1>3. ASSUME NEW dangling \in {<<"29">>, <<Noise>>},
             slaveSent' = slaveSent \o Sent(reply(dangling))
      PROVE  \E more \in Seq(AnswerOn(ch)) : slaveSent' = slaveSent \o more
    <2>1. dangling \in Dangling
        BY DEF Dangling
    <2> DEFINE r == reply(dangling)
               now == Sent(r)
    <2>2. r.sent \in Seq(RawAnswerOn(ch))
        <3>1. EmptyReply.sent \in Seq(RawAnswerOn(ch))
            BY DEF EmptyReply
        <3>2. Reply(ch, parts, dangling).sent \in Seq(RawAnswerOn(ch))
            <4> HIDE DEF parts
            <4> QED
                BY <2>1, ReplyType
        <3> QED
            BY <3>1, <3>2
    <2>3. slaveSent' = slaveSent \o now
        BY <1>3
    <2> HIDE DEF r
    <2>4. now \in Seq(AnswerOn(ch))
        BY <2>2, SentChannels
    <2> HIDE DEF now
    <2> QED
        BY <2>3, <2>4
<1> QED
    BY <1>1, <1>2, <1>3

\* The channels on which there were requests, what the slave may send, and the replies
\* the master may find.
Requested == {masterSent[i].channel : i \in DOMAIN masterSent}

ExpectedAnswer == {a \in GoodAnswer : a.channel \in {0, StreamChannel} \cup Requested}

RequestedReply == {m \in Message : m.channel \in Requested}

\* While nothing is disturbed the slave sends only on channels it was asked on.
ChannelsInv ==
    ~fault /\ RequestsBuffered =>
        slaveSent \in Seq(ExpectedAnswer) /\ inQueue \in Seq(RequestedReply)

\* More requests allow more answers.
LEMMA ChannelsKept ==
    ASSUME slaveSent \in Seq(ExpectedAnswer), inQueue \in Seq(RequestedReply),
           masterSent \in Seq(GoodRequest),
           \/ UNCHANGED masterSent
           \/ \E a \in GoodRequest : masterSent' = Append(masterSent, a)
    PROVE  slaveSent \in Seq(ExpectedAnswer') /\ inQueue \in Seq(RequestedReply')
<1>1. Requested \subseteq Requested'
    <2>1. \A i \in DOMAIN masterSent : i \in DOMAIN masterSent' /\ masterSent'[i] = masterSent[i]
        <3>1. CASE UNCHANGED masterSent
            BY <3>1
        <3>2. ASSUME NEW a \in GoodRequest, masterSent' = Append(masterSent, a)
              PROVE  \A i \in DOMAIN masterSent :
                        i \in DOMAIN masterSent' /\ masterSent'[i] = masterSent[i]
            BY <3>2, AppendProperties
        <3> QED
            BY <3>1, <3>2
    <2> QED
        BY <2>1 DEF Requested
<1>2. ExpectedAnswer \subseteq ExpectedAnswer' /\ RequestedReply \subseteq RequestedReply'
    BY <1>1 DEF ExpectedAnswer, RequestedReply
<1> QED
    BY <1>2, Larger

\* The message the slave handles is one of the requests.
LEMMA HandledIsRequested ==
    ASSUME RequestsInv, TextsInv, ConfigOK, serving, toSlave # <<>>, ~fault, RequestsBuffered,
           ReadByte(reader, Head(toSlave), config.cipher).message # <<>>
    PROVE  ReadByte(reader, Head(toSlave), config.cipher).message[1] \in RequestedReply
<1> DEFINE cipher == config.cipher
           b == Head(toSlave)
           rest == Tail(toSlave)
           read == ReadByte(reader, b, cipher)
           all == RequestMessages(masterSent)
<1>1. PICK served \in Seq(Message), waiting \in Seq(Message) :
         JoinOf(all, served, waiting) /\ ReadingOf(reader, toSlave, waiting, cipher)
    BY DEF RequestsInv
<1>2. masterSent \in Seq(GoodRequest) /\ cipher \in BOOLEAN
    BY DEF TextsInv, TextsOK, ConfigOK
<1>3. toSlave \in Seq(Char)
    BY <1>1 DEF ReadingOf
<1>4. b \in Char /\ rest \in Seq(Char) /\ toSlave = <<b>> \o rest
    BY <1>3
<1>5. read.message # <<>>
    OBVIOUS
<1> HIDE DEF b, rest, all
<1>6. ReadingOf(reader, <<b>> \o rest, waiting, cipher)
    BY <1>1, <1>4
<1>7. waiting # <<>> => Short(Head(waiting), cipher)
    <2>1. ASSUME waiting # <<>>
          PROVE  Short(Head(waiting), config.cipher)
        BY <1>1, <1>2, <2>1, WaitingShort DEF all
    <2> QED
        BY <2>1
<1> HIDE DEF cipher
<1>8. \/ Continues(read, rest, waiting, cipher)
      \/ Completes(read, rest, waiting, cipher)
    BY <1>2, <1>4, <1>6, <1>7, ByteRead
<1> HIDE DEF read
<1> DEFINE m == Head(waiting)
<1>9. waiting # <<>> /\ read.message[1] = m
    <2>1. waiting # <<>> /\ read.message = IF Accepted(m) THEN <<m>> ELSE <<>>
        BY <1>5, <1>8 DEF Continues, Completes
    <2> HIDE DEF m
    <2> QED
        BY <1>5, <2>1
<1>10. m \in RequestedReply
    <2>1. /\ all \in Seq(Message) /\ Len(all) = Len(masterSent)
          /\ \A k \in 1 .. Len(masterSent) : all[k] = RequestMessage(masterSent[k])
        BY <1>2, RequestMessagesType DEF all
    <2> DEFINE i == Len(served) + 1
    <2>2. IsJoin(all, served, waiting)
        BY <1>1, Joined DEF JoinOf
    <2>3. Len(waiting) \in Nat /\ Len(waiting) # 0 /\ Len(served) \in Nat /\ waiting[1] = m
        BY <1>9
    <2>4. i \in 1 .. Len(masterSent) /\ all[i] = m
        <3>1. Len(all) = Len(served) + Len(waiting) /\ 1 \in 1 .. Len(waiting)
            BY <2>2, <2>3 DEF IsJoin
        <3>2. all[Len(served) + 1] = waiting[1]
            BY <2>2, <3>1 DEF IsJoin
        <3> QED
            BY <2>1, <2>3, <3>1, <3>2
    <2> HIDE DEF m, i
    <2>5. m \in Message /\ m.channel = masterSent[i].channel /\ i \in DOMAIN masterSent
        <3>1. i \in DOMAIN masterSent /\ m \in Message /\ m = RequestMessage(masterSent[i])
            BY <1>2, <2>1, <2>4
        <3> DEFINE text == JavaJoin(masterSent[i].parts, Separator)
        <3>2. RequestMessage(masterSent[i]) = [channel |-> masterSent[i].channel, text |-> text]
            BY DEF RequestMessage
        <3> HIDE DEF text
        <3> QED
            BY <3>1, <3>2
    <2>6. m.channel \in Requested
        BY <2>5 DEF Requested
    <2> QED
        BY <2>5, <2>6 DEF RequestedReply
<1> QED
    BY <1>9, <1>10 DEF read, b, cipher

\* Every step keeps the invariant of the channels.
LEMMA NextChannels ==
    BulkInv /\ AnswersInv /\ TextsInv /\ RequestsInv /\ ChannelsInv /\ [Next]_vars => ChannelsInv'
<1> SUFFICES ASSUME BulkInv, AnswersInv, TextsInv, RequestsInv, ChannelsInv, [Next]_vars,
                    ~fault', RequestsBuffered'
             PROVE  slaveSent' \in Seq(ExpectedAnswer') /\ inQueue' \in Seq(RequestedReply')
    BY DEF ChannelsInv
<1>1. ~fault
    BY DEF Next, vars, SlaveReads, SlaveStreams, MasterReads, Query, QueryAgain, Disturb,
           SendFirst, SendRequest, RequestAnew, Request, TakeMessage, GoThroughGroups,
           AssignParent, ExpectFails
<1>2. UNCHANGED config
    BY DEF Next, vars, SlaveReads, SlaveStreams, MasterReads, Query, QueryAgain, Disturb,
           SendFirst, SendRequest, RequestAnew, Request, TakeMessage, GoThroughGroups,
           AssignParent, ExpectFails
<1>3. TextsOK /\ ConfigOK /\ GroupInv /\ ReaderInv /\ masterSent \in Seq(GoodRequest)
    BY <1>1, ConfigFacts DEF TextsInv, TextsOK, BulkInv, FlagInv
<1>4. ASSUME UNCHANGED masterSent
      PROVE  /\ RequestsBuffered
             /\ slaveSent \in Seq(ExpectedAnswer) /\ inQueue \in Seq(RequestedReply)
             /\ ExpectedAnswer' = ExpectedAnswer /\ RequestedReply' = RequestedReply
    <2>1. RequestsBuffered
        BY <1>2, <1>3, <1>4, BufferedBefore
    <2>2. slaveSent \in Seq(ExpectedAnswer) /\ inQueue \in Seq(RequestedReply)
        BY <1>1, <2>1 DEF ChannelsInv
    <2>3. Requested' = Requested
        BY <1>4 DEF Requested
    <2> QED
        BY <2>1, <2>2, <2>3 DEF ExpectedAnswer, RequestedReply
<1>5. CASE SlaveReads
    <2> DEFINE read == ReadByte(reader, Head(toSlave), config.cipher)
               m == read.message[1]
    <2>1. /\ UNCHANGED masterSent /\ UNCHANGED inQueue /\ serving /\ toSlave # <<>>
          /\ \/ UNCHANGED slaveSent
             \/ read.message # <<>> /\ Handle(m)
        BY <1>5 DEF SlaveReads, SlaveTakes, queryVars, processorVars
    <2>2. CASE read.message # <<>> /\ Handle(m)
        <3>1. m \in RequestedReply
            BY <1>1, <1>3, <1>4, <2>1, <2>2, HandledIsRequested
        <3> HIDE DEF read
        <3> HIDE DEF m
        <3>2. m.channel \in 0 .. 99 /\ m.channel \in Requested
            BY <3>1 DEF RequestedReply, Message
        <3>3. PICK more \in Seq(AnswerOn(m.channel)) :
                  UNCHANGED slaveSent \/ slaveSent' = slaveSent \o more
            BY <1>3, <2>2, <3>2, HandleAnswersOn
        <3>4. AnswerOn(m.channel) \subseteq ExpectedAnswer
            BY <3>2 DEF AnswerOn, ExpectedAnswer
        <3>5. more \in Seq(ExpectedAnswer)
            BY <3>4, Larger
        <3>6. /\ slaveSent \in Seq(ExpectedAnswer) /\ inQueue' \in Seq(RequestedReply)
              /\ ExpectedAnswer' = ExpectedAnswer /\ RequestedReply' = RequestedReply
            BY <1>4, <2>1
        <3>7. slaveSent' \in Seq(ExpectedAnswer)
            <4>1. slaveSent \o more \in Seq(ExpectedAnswer)
                BY <3>5, <3>6, Joined
            <4> QED
                BY <3>3, <3>6, <4>1
        <3> QED
            BY <3>6, <3>7
    <2> QED
        BY <1>4, <2>1, <2>2
<1>6. CASE SlaveStreams
    <2>1. /\ UNCHANGED masterSent /\ UNCHANGED inQueue
          /\ slaveSent' = Append(slaveSent, StreamAnswer)
        BY <1>6 DEF SlaveStreams, queryVars, processorVars, StreamAnswer
    <2>2. StreamAnswer.channel = StreamChannel
        BY DEF StreamAnswer, Answer
    <2>3. StreamAnswer \in ExpectedAnswer
        BY <2>2, StreamOnWire DEF ExpectedAnswer
    <2> QED
        BY <1>4, <2>1, <2>3, OneMore
<1>7. CASE MasterReads
    <2>1. UNCHANGED masterSent /\ UNCHANGED slaveSent
        BY <1>7 DEF MasterReads, queryVars, slaveVars
    <2>2. PICK messages \in Seq(Message) :
              messages \in Seq(AsSent) /\ inQueue' = inQueue \o Queued(messages)
        BY <1>1, <1>3, <1>7, MasterStepAnswers DEF MoreQueued
    <2> DEFINE M == {m \in Message : m.channel \in {0, StreamChannel} \cup Requested}
               replies == Queued(messages)
    <2>3. AsSent \subseteq M
        <3> SUFFICES ASSUME NEW i \in DOMAIN slaveSent
                     PROVE  MessageOf(slaveSent[i]) \in M
            BY DEF AsSent
        <3> DEFINE a == slaveSent[i]
        <3>1. a \in ExpectedAnswer
            BY <1>4, <2>1
        <3> HIDE DEF a
        <3>2. a \in GoodAnswer /\ a.channel \in {0, StreamChannel} \cup Requested
            BY <3>1 DEF ExpectedAnswer
        <3>3. MessageOf(a) \in Message /\ MessageOf(a).channel = a.channel
            BY <3>2 DEF GoodAnswer, RawAnswer, MessageOf, Message
        <3> QED
            BY <3>2, <3>3 DEF a
    <2>4. messages \in Seq(M)
        BY <2>2, <2>3, Larger
    <2>5. M \subseteq Message
        OBVIOUS
    <2>6. \A m \in M : IsReply(m) => m \in RequestedReply
        BY DEF IsReply, RequestedReply
    <2> HIDE DEF M
    <2>7. replies \in Seq({m \in M : IsReply(m)})
        BY <2>4, <2>5, QueuedReplies
    <2> HIDE DEF replies
    <2>8. replies \in Seq(RequestedReply)
        <3>1. {m \in M : IsReply(m)} \subseteq RequestedReply
            BY <2>6
        <3> QED
            BY <2>7, <3>1, Larger
    <2>9. inQueue' = inQueue \o replies
        BY <2>2 DEF replies
    <2>10. /\ slaveSent' \in Seq(ExpectedAnswer) /\ inQueue \in Seq(RequestedReply)
           /\ ExpectedAnswer' = ExpectedAnswer /\ RequestedReply' = RequestedReply
        BY <1>4, <2>1
    <2>11. inQueue' \in Seq(RequestedReply)
        BY <2>8, <2>9, <2>10
    <2> QED
        BY <2>10, <2>11
<1>8. CASE SendFirst \/ SendRequest
    <2>1. UNCHANGED slaveSent /\ UNCHANGED inQueue
        BY <1>8 DEF SendFirst, SendRequest, RequestAnew, Request, slaveVars, processorVars
    <2>2. \/ UNCHANGED masterSent
          \/ \E a \in GoodRequest : masterSent' = Append(masterSent, a)
        BY <1>3, <1>8, FirstSent, RequestsSent DEF Sends, SendsNothing
    <2>3. RequestsBuffered
        BY <1>2, <1>3, <2>2, BufferedBefore
    <2>4. slaveSent \in Seq(ExpectedAnswer) /\ inQueue \in Seq(RequestedReply)
        BY <1>1, <2>3 DEF ChannelsInv
    <2> QED
        BY <1>3, <2>1, <2>2, <2>4, ChannelsKept
<1>9. CASE TakeMessage
    <2> DEFINE at == Position
    <2>1. /\ UNCHANGED masterSent /\ UNCHANGED slaveSent
          /\ at # 0 /\ inQueue' = RemoveAt(inQueue, at)
        BY <1>9 DEF TakeMessage, slaveVars
    <2>2. inQueue \in Seq(Message)
        BY <1>3 DEF TextsOK
    <2>3. at \in 1 .. Len(inQueue)
        BY <2>1, <2>2, PositionType
    <2> HIDE DEF at
    <2>4. RemoveAt(inQueue, at) \in Seq(RequestedReply)
        BY <1>4, <2>1, <2>3, OneLess
    <2> QED
        BY <1>4, <2>1, <2>4
<1>10. CASE GoThroughGroups \/ AssignParent \/ ExpectFails \/ QueryAgain \/ UNCHANGED vars
    <2>1. UNCHANGED masterSent /\ UNCHANGED slaveSent /\ UNCHANGED inQueue
        BY <1>10 DEF GoThroughGroups, AssignParent, ExpectFails, QueryAgain, vars, slaveVars,
                     processorVars, queryVars
    <2> QED
        BY <1>4, <2>1
<1>11. CASE Disturb
    BY <1>11 DEF Disturb
<1> QED
    BY <1>5, <1>6, <1>7, <1>8, <1>9, <1>10, <1>11 DEF Next, Query

\* Nothing has been said when the connection has just been made.
LEMMA InitChannels == Init => ChannelsInv
<1> SUFFICES ASSUME Init
             PROVE  slaveSent \in Seq(ExpectedAnswer) /\ inQueue \in Seq(RequestedReply)
    BY DEF ChannelsInv
<1>1. slaveSent = <<>> /\ inQueue = <<>>
    BY DEF Init
<1> QED
    BY <1>1

\* On a connection that is not disturbed the master never finds a reply that it has not
\* asked for: neither the rest of a request that has been read anew, nor streamed data,
\* nor an answer of a handler on another channel than that of its request.
THEOREM RepliesAreRequested == Spec => [](~fault /\ RequestsBuffered => RepliesRequested)
<1>1. Init => ChannelsInv
    BY InitChannels
<1>2. (BulkInv /\ AnswersInv /\ TextsInv /\ RequestsInv) /\ ChannelsInv /\ [Next]_vars
        => ChannelsInv'
    BY NextChannels
<1>3. ChannelsInv => (~fault /\ RequestsBuffered => RepliesRequested)
    <2> SUFFICES ASSUME inQueue \in Seq(RequestedReply)
                 PROVE  RepliesRequested
        BY DEF ChannelsInv
    <2>1. \A i \in DOMAIN inQueue : inQueue[i] \in RequestedReply
        OBVIOUS
    <2> QED
        BY <2>1 DEF RequestedReply, Requested, RepliesRequested
<1> QED
    BY <1>1, <1>2, <1>3, BothDirections, PTL DEF Spec

-----------------------------------------------------------------------------
(* No port is given what belongs to another one                            *)

\* While nothing is disturbed the slave sends what is true of the device, whatever it is
\* asked.
TrueAnswer == {a \in GoodAnswer : Truthful(a.parts)}

TruthInv == ~fault => slaveSent \in Seq(TrueAnswer)

\* The device does not change.
LEMMA SameTruth ==
    ASSUME UNCHANGED config, NEW parts
    PROVE  Truthful(parts)' <=> Truthful(parts)
BY DEF Truthful, IsTrue, DevicePort, PortIDs, InfoFor, GroupIDs, ParentOf

\* Devices whose ids arrive as they are, because none begins with a blank, or with a
\* separator behind another part, and whose ids do not contain the key of the group.
Distinct ==
    /\ \A i \in DOMAIN config.ports :
          LET id == config.ports[i].id
          IN removeLeadingBlank(id) = id /\ \A k \in DOMAIN id : id[k] # "group"
    /\ \A i \in DOMAIN config.groups :
          /\ removeLeadingBlank(config.groups[i].id) = config.groups[i].id
          /\ removeLeadingBlank(config.groups[i].parent) = config.groups[i].parent
    /\ AllUnambiguous(slaveSent)

\* What the master takes out of an answer is as true as the answer.
Heard(parts) == IsTrue(parts, MasterReceives(DevicePort(parts[2]).labels))

\* An id of a port is that of the port the device means by it.
LEMMA DevicePortOK ==
    ASSUME ConfigOK, NEW id \in PortIDs
    PROVE  /\ PortOK(DevicePort(id)) /\ DevicePort(id).id = id
           /\ \E i \in DOMAIN config.ports : DevicePort(id) = config.ports[i]
<1> DEFINE list == config.ports
           at == FoundAt(list, id)
<1>1. list \in Seq(PortType) /\ \E i \in DOMAIN list : list[i].id = id
    BY DEF ConfigOK, PortIDs
<1> HIDE DEF list
<1>2. DOMAIN list = 1 .. Len(list)
    BY <1>1
<1>3. at \in DOMAIN list /\ list[at].id = id
    BY <1>1, <1>2, FoundIsThere
<1> HIDE DEF at
<1>4. PortOK(list[at])
    BY <1>3, PortAt DEF list
<1>5. DevicePort(id) = list[at]
    BY DEF DevicePort, at, list
<1> QED
    BY <1>3, <1>4, <1>5 DEF list

\* A text that does not begin with a blank loses nothing.
LEMMA NothingRemoved ==
    ASSUME NEW s, s = <<>> \/ Head(s) # Blank
    PROVE  removeLeadingBlank(s) = s
BY DEF removeLeadingBlank

\* What begins with a key of the protocol is received as it is.
LEMMA KeyKept ==
    ASSUME NEW C, NEW c \in C, c # Blank, NEW s \in Seq(C)
    PROVE  removeLeadingBlank(<<c>> \o s) = <<c>> \o s
<1> DEFINE t == <<c>> \o s
<1>1. t # <<>> /\ Head(t) = c
    OBVIOUS
<1> HIDE DEF t
<1>2. removeLeadingBlank(t) = t
    BY <1>1, NothingRemoved
<1> QED
    BY <1>2 DEF t

\* So are states, and the extended information.
LEMMA SayingsKept ==
    ASSUME ConfigOK
    PROVE  /\ \A id \in Seq(Char) : /\ removeLeadingBlank(PortState(id)) = PortState(id)
                                    /\ removeLeadingBlank(ExtendedState(id)) = ExtendedState(id)
           /\ \A id \in PortIDs : removeLeadingBlank(InfoFor(id)) = InfoFor(id)
<1>1. /\ "state" \in Char /\ "more" \in Char /\ "info" \in Char /\ "group" \in Char
      /\ "state" # Blank /\ "more" # Blank /\ "info" # Blank
    BY DEF Char, Names, Blank
<1>2. ASSUME NEW id \in Seq(Char)
      PROVE  /\ removeLeadingBlank(PortState(id)) = PortState(id)
             /\ removeLeadingBlank(ExtendedState(id)) = ExtendedState(id)
    BY <1>1, KeyKept DEF PortState, ExtendedState
<1>3. ASSUME NEW id \in PortIDs
      PROVE  removeLeadingBlank(InfoFor(id)) = InfoFor(id)
    <2> DEFINE port == DevicePort(id)
               i == <<"info">>
               g == <<"group">>
               more == IF port.group = <<>> THEN <<>> ELSE g \o port.group
    <2>1. PortOK(port)
        BY DevicePortOK
    <2>2. InfoFor(id) = (i \o port.id) \o more
        BY DEF InfoFor, ExtendedInfo, DevicePort
    <2> HIDE DEF port
    <2>3. port.id \in Seq(Char) /\ port.group \in Seq(Char)
        <3>1. port.id \in Text /\ port.group \in Text
            BY <2>1 DEF PortOK, PortType
        <3> QED
            BY <3>1, TextType
    <2>4. g \in Seq(Char)
        BY <1>1, Single
    <2>5. more \in Seq(Char)
        <3> HIDE DEF g
        <3> QED
            BY <2>3, <2>4
    <2> HIDE DEF more
    <2>6. (i \o port.id) \o more = i \o (port.id \o more) /\ port.id \o more \in Seq(Char)
        <3>1. i \in Seq(Char)
            BY <1>1, Single
        <3>2. port.id \o more \in Seq(Char)
            BY <2>3, <2>5, Joined
        <3> DEFINE p == port.id
        <3>3. p \in Seq(Char)
            BY <2>3
        <3> HIDE DEF i, p
        <3>4. (i \o p) \o more = i \o (p \o more)
            BY <2>5, <3>1, <3>3
        <3> QED
            BY <3>2, <3>4 DEF p
    <2>7. removeLeadingBlank(i \o (port.id \o more)) = i \o (port.id \o more)
        BY <1>1, <2>6, KeyKept
    <2> HIDE DEF i
    <2> QED
        BY <2>2, <2>6, <2>7
<1> QED
    BY <1>2, <1>3

\* Digits are not blanks, and different for different numbers.
LEMMA NumberFacts ==
    ASSUME NEW k \in 0 .. 9
    PROVE  /\ removeLeadingBlank(Number(k)) = Number(k)
           /\ \A n \in 0 .. 9 : Number(n) = Number(k) => n = k
<1>1. Digit[k + 1] \in {"0", "1", "2", "3", "4", "5", "6", "7", "8", "9"}
    BY DEF Digit
<1>2. Digit[k + 1] # Blank
    BY <1>1 DEF Blank
<1>3. Number(k) # <<>> /\ Head(Number(k)) = Digit[k + 1]
    BY DEF Number
<1>4. removeLeadingBlank(Number(k)) = Number(k)
    BY <1>2, <1>3, NothingRemoved
<1>5. ASSUME NEW n \in 0 .. 9, Number(n) = Number(k)
      PROVE  n = k
    <2>1. Digit[n + 1] = Digit[k + 1]
        BY <1>5 DEF Number
    <2>2. DigitValue(Digit[n + 1]) = n /\ DigitValue(Digit[k + 1]) = k
        BY DigitFacts
    <2> QED
        BY <2>1, <2>2
<1> QED
    BY <1>4, <1>5

\* The ids of groups arrive as they are, and so do those of their parents.
LEMMA GroupTrue ==
    ASSUME ConfigOK, Distinct, NEW id \in GroupIDs
    PROVE  removeLeadingBlank(id) = id /\ removeLeadingBlank(ParentOf(id)) = ParentOf(id)
<1> DEFINE list == config.groups
           at == FoundAt(list, id)
<1>1. list \in Seq(GroupType) /\ \E i \in DOMAIN list : list[i].id = id
    BY DEF ConfigOK, GroupIDs
<1>2. \A i \in DOMAIN list : /\ removeLeadingBlank(list[i].id) = list[i].id
                             /\ removeLeadingBlank(list[i].parent) = list[i].parent
    BY DEF Distinct
<1>3. ParentOf(id) = list[at].parent
    BY DEF ParentOf
<1> HIDE DEF list
<1>4. DOMAIN list = 1 .. Len(list)
    BY <1>1
<1>5. at \in DOMAIN list /\ list[at].id = id
    BY <1>1, <1>4, FoundIsThere
<1> HIDE DEF at
<1> QED
    BY <1>2, <1>3, <1>5

\* What is true of the device is still true when the master has received it.
LEMMA TruthHeard ==
    ASSUME ConfigOK, Distinct, NEW parts \in Seq(Seq(Char)), parts # <<>>, Truthful(parts)
    PROVE  Heard(MasterReceives(parts))
<1> DEFINE r == MasterReceives(parts)
           id == parts[2]
           kind == parts[1][1]
           labels == DevicePort(id).labels
           heard == MasterReceives(labels)
<1>1. /\ DOMAIN parts = 1 .. Len(parts) /\ Len(parts) \in Nat /\ Len(parts) # 0
      /\ \A i \in 1 .. Len(parts) : parts[i] \in Seq(Char)
    OBVIOUS
<1>2. Len(r) = Len(parts) /\ \A i \in 1 .. Len(parts) : r[i] = removeLeadingBlank(parts[i])
    BY <1>1 DEF MasterReceives
<1> HIDE DEF r
<1>3. /\ kind # Blank
      /\ kind \in {"DP", "SLP", "EPI", "SLL", "DPS"} /\ Len(parts) > 1 => id \in PortIDs
      /\ kind = "EPI" /\ Len(parts) = 3 => parts[3] = InfoFor(id)
      /\ kind = "SLL" /\ Len(parts) = 4 =>
            \E n \in DOMAIN labels : parts[3] = Number(n - 1) /\ parts[4] = labels[n]
      /\ kind = "DPS" /\ Len(parts) = 3 => parts[3] = PortState(id)
      /\ kind = "EPS" /\ Len(parts) = 3 => id \in Dangling \cup PortIDs /\ parts[3] = ExtendedState(id)
      /\ kind = "GI" /\ Len(parts) = 5 => id \in GroupIDs /\ parts[4] = ParentOf(id)
    BY DEF Truthful, IsTrue
<1>4. r[1] = parts[1]
    <2>1. 1 \in 1 .. Len(parts)
        BY <1>1
    <2>2. parts[1] # <<>> => Head(parts[1]) = kind
        BY <1>1, <2>1
    <2>3. removeLeadingBlank(parts[1]) = parts[1]
        BY <1>3, <2>2, NothingRemoved
    <2> QED
        BY <1>2, <2>1, <2>3
<1> HIDE DEF kind, id
<1>5. \A k \in PortIDs \cup Dangling : removeLeadingBlank(k) = k /\ k \in Seq(Char)
    <2>1. ASSUME NEW k \in PortIDs
          PROVE  removeLeadingBlank(k) = k /\ k \in Seq(Char)
        <3>1. PICK i \in DOMAIN config.ports : k = config.ports[i].id
            BY DEF PortIDs
        <3>2. removeLeadingBlank(k) = k
            BY <3>1 DEF Distinct
        <3>3. PortOK(config.ports[i])
            BY <3>1, PortAt
        <3>4. config.ports[i].id \in Seq(Char)
            BY <3>3, PortTexts
        <3> QED
            BY <3>1, <3>2, <3>4
    <2>2. ASSUME NEW k \in Dangling
          PROVE  removeLeadingBlank(k) = k /\ k \in Seq(Char)
        <3>1. Head(<<"29">>) # Blank /\ Head(<<Noise>>) # Blank
            BY DEF Noise, Blank
        <3>2. Head(k) # Blank
            BY <3>1 DEF Dangling
        <3> QED
            BY <3>2, NothingRemoved, DanglingType
    <2> QED
        BY <2>1, <2>2
<1>6. ASSUME Len(parts) > 1, id \in PortIDs \cup Dangling
      PROVE  r[2] = id
    BY <1>1, <1>2, <1>5, <1>6 DEF id
<1>7. Len(r) > 1 => (kind \in {"DP", "SLP", "EPI", "SLL", "DPS"} => r[2] \in PortIDs)
    BY <1>2, <1>3, <1>6
<1>8. ASSUME kind = "EPI", Len(r) = 3
      PROVE  r[3] = InfoFor(r[2])
    <2>1. id \in PortIDs /\ r[2] = id /\ parts[3] = InfoFor(id)
        BY <1>2, <1>3, <1>6, <1>8
    <2>2. r[3] = removeLeadingBlank(parts[3])
        BY <1>2, <1>8
    <2> QED
        BY <2>1, <2>2, SayingsKept
<1>9. ASSUME kind = "SLL", Len(r) = 4
      PROVE  \E n \in DOMAIN heard : r[3] = Number(n - 1) /\ r[4] = heard[n]
    <2>1. id \in PortIDs
        BY <1>2, <1>3, <1>9
    <2>2. labels \in Seq(Seq(Char)) /\ Len(labels) \in 0 .. 9
        BY <2>1, DevicePortOK, PortTexts
    <2>3. PICK n \in DOMAIN labels : parts[3] = Number(n - 1) /\ parts[4] = labels[n]
        BY <1>2, <1>3, <1>9
    <2> HIDE DEF labels
    <2>4. n - 1 \in 0 .. 9 /\ n \in DOMAIN heard /\ heard[n] = removeLeadingBlank(labels[n])
        <3>1. n \in DOMAIN labels /\ DOMAIN labels = 1 .. Len(labels)
            BY <2>2, <2>3
        <3>2. n - 1 \in 0 .. 9
            BY <2>2, <3>1
        <3>3. heard = [k \in DOMAIN labels |-> removeLeadingBlank(labels[k])]
            BY DEF MasterReceives
        <3> QED
            BY <3>1, <3>2, <3>3
    <2>5. r[3] = Number(n - 1)
        BY <1>2, <1>9, <2>3, <2>4, NumberFacts
    <2>6. r[4] = heard[n]
        BY <1>2, <1>9, <2>3, <2>4
    <2> QED
        BY <2>4, <2>5, <2>6
<1>10. ASSUME kind = "DPS", Len(r) = 3
       PROVE  r[3] = PortState(r[2])
    <2>1. id \in PortIDs /\ r[2] = id /\ parts[3] = PortState(id) /\ id \in Seq(Char)
        BY <1>2, <1>3, <1>5, <1>6, <1>10
    <2>2. r[3] = removeLeadingBlank(parts[3])
        BY <1>2, <1>10
    <2> QED
        BY <2>1, <2>2, SayingsKept
<1>11. ASSUME kind = "EPS", Len(r) = 3
       PROVE  r[2] \in Dangling \cup PortIDs /\ r[3] = ExtendedState(r[2])
    <2>1. /\ id \in Dangling \cup PortIDs /\ r[2] = id /\ parts[3] = ExtendedState(id)
          /\ id \in Seq(Char)
        BY <1>2, <1>3, <1>5, <1>6, <1>11
    <2>2. r[3] = removeLeadingBlank(parts[3])
        BY <1>2, <1>11
    <2> QED
        BY <2>1, <2>2, SayingsKept
<1>12. ASSUME kind = "GI", Len(r) = 5
       PROVE  r[2] \in GroupIDs /\ r[4] = ParentOf(r[2])
    <2>1. id \in GroupIDs /\ parts[4] = ParentOf(id)
        BY <1>2, <1>3, <1>12
    <2>2. r[2] = removeLeadingBlank(id) /\ r[4] = removeLeadingBlank(parts[4])
        BY <1>2, <1>12 DEF id
    <2>3. removeLeadingBlank(id) = id /\ removeLeadingBlank(ParentOf(id)) = ParentOf(id)
        BY <2>1, GroupTrue
    <2> QED
        BY <2>1, <2>2, <2>3
<1>13. r[1][1] = kind
    BY <1>4 DEF kind
<1>14. heard = MasterReceives(DevicePort(r[2]).labels) \/ ~(kind = "SLL" /\ Len(r) = 4)
    BY <1>2, <1>3, <1>6
<1> HIDE DEF heard
<1>15. Heard(r)
    BY <1>3, <1>7, <1>8, <1>9, <1>10, <1>11, <1>12, <1>13, <1>14 DEF Heard, IsTrue
<1> QED
    BY <1>15 DEF r

\* The queue of the master holds what it has heard.
LEMMA AnswerHeard ==
    ASSUME ConfigOK, Distinct, slaveSent \in Seq(TrueAnswer), NEW m \in AsSent
    PROVE  Heard(JavaSplit(m.text, Separator))
<1>1. PICK i \in DOMAIN slaveSent : m = MessageOf(slaveSent[i])
    BY DEF AsSent
<1> DEFINE a == slaveSent[i]
<1>2. a \in TrueAnswer
    BY <1>1
<1>3. Unambiguous(a.parts, Separator)
    BY <1>1 DEF Distinct, AllUnambiguous
<1>4. m = MessageOf(a)
    BY <1>1
<1> HIDE DEF a
<1>5. a \in GoodAnswer /\ Truthful(a.parts)
    BY <1>2 DEF TrueAnswer
<1>6. a.parts \in Seq(Seq(Char)) /\ a.parts # <<>>
    BY <1>5 DEF GoodAnswer, RawAnswer
<1>7. Received(m) = Answer(a.channel, MasterReceives(a.parts))
    BY <1>3, <1>4, <1>5, ReceivedIsSent
<1>8. JavaSplit(m.text, Separator) = MasterReceives(a.parts)
    BY <1>7 DEF Received, Answer
<1> QED
    BY <1>5, <1>6, <1>8, TruthHeard

\* The group is what follows the first key of a group.
LEMMA GroupFollows ==
    ASSUME NEW C, "group" \in C, NEW s \in Seq(C), \A k \in DOMAIN s : s[k] # "group",
           NEW t \in Seq(C)
    PROVE  GroupOf(s) = <<>> /\ GroupOf(Append(s, "group") \o t) = t
<1> DEFINE h == Append(s, "group")
           u == h \o t
           At(info) == {k \in 1 .. Len(info) : info[k] = "group"}
           FirstIn(info) == SelectInSeq(info, LAMBDA c : c = "group")
           n == Len(s) + 1
<1>1. h \in Seq(C) /\ Len(h) = n /\ h[n] = "group" /\ \A k \in 1 .. Len(s) : h[k] = s[k]
    BY AppendProperties
<1> HIDE DEF h
<1>2. u \in Seq(C) /\ IsJoin(u, h, t)
    BY <1>1, Joined
<1>3. Len(s) \in Nat /\ Len(t) \in Nat /\ DOMAIN s = 1 .. Len(s)
    OBVIOUS
<1> HIDE DEF u
<1>4. ASSUME NEW info
      PROVE  /\ FirstIn(info) = IF At(info) = {} THEN 0 ELSE Min(At(info))
             /\ GroupOf(info) = IF FirstIn(info) = 0 THEN <<>>
                                ELSE SubSeq(info, FirstIn(info) + 1, Len(info))
    BY DEF SelectInSeq, GroupOf
<1> HIDE DEF FirstIn
<1>5. GroupOf(s) = <<>>
    <2>1. At(s) = {}
        BY <1>3
    <2> HIDE DEF At
    <2> QED
        BY <1>4, <2>1
<1>6. Min(At(u)) = n /\ At(u) # {}
    <2>1. Len(u) = n + Len(t) /\ u[n] = "group"
        BY <1>1, <1>2, <1>3 DEF IsJoin
    <2>2. n \in At(u)
        BY <1>3, <2>1
    <2>3. ASSUME NEW k \in 1 .. Len(s)
          PROVE  u[k] # "group"
        <3>1. k \in 1 .. Len(h) /\ h[k] = s[k] /\ s[k] # "group"
            BY <1>1, <1>3
        <3> QED
            BY <1>2, <3>1 DEF IsJoin
    <2>4. \A k \in At(u) : k \in Nat /\ n <= k
        BY <1>3, <2>1, <2>3
    <2> DEFINE I == At(u)
               m == Min(I)
    <2>5. n \in I /\ \A k \in I : k \in Nat /\ n <= k
        BY <2>2, <2>4
    <2> HIDE DEF I
    <2>6. m \in I /\ \A k \in I : m <= k
        BY <2>5 DEF Min
    <2> HIDE DEF m
    <2>7. m = n
        BY <1>3, <2>5, <2>6
    <2> QED
        BY <2>5, <2>7 DEF m, I
<1> HIDE DEF At
<1>7. FirstIn(u) = n
    BY <1>4, <1>6
<1>8. GroupOf(u) = SubSeq(u, n + 1, Len(u))
    <2>1. n # 0
        BY <1>3
    <2> QED
        BY <1>4, <1>7, <2>1
<1> DEFINE v == SubSeq(u, n + 1, Len(u))
<1>9. v = t
    <2>1. Len(u) = n + Len(t) /\ \A k \in 1 .. Len(t) : u[n + k] = t[k]
        BY <1>1, <1>2 DEF IsJoin
    <2>2. n + 1 \in Int /\ Len(u) \in Int /\ \A k \in n + 1 .. Len(u) : u[k] \in C
        BY <1>2, <1>3
    <2>3. /\ v \in Seq(C) /\ Len(v) = IF n + 1 <= Len(u) THEN Len(u) - (n + 1) + 1 ELSE 0
          /\ \A k \in 1 .. Len(u) - (n + 1) + 1 : v[k] = u[n + 1 + k - 1]
        BY <2>2, SubSeqProperties
    <2> HIDE DEF v
    <2>4. Len(v) = Len(t)
        BY <1>3, <2>1, <2>3
    <2>5. \A k \in 1 .. Len(v) : v[k] = t[k]
        <3> TAKE k \in 1 .. Len(v)
        <3>1. k \in 1 .. Len(u) - (n + 1) + 1 /\ n + 1 + k - 1 = n + k /\ k \in 1 .. Len(t)
            BY <1>3, <2>1, <2>4
        <3> QED
            BY <2>1, <2>3, <3>1
    <2> QED
        BY <2>3, <2>4, <2>5, SeqEqual
<1> HIDE DEF v
<1> QED
    BY <1>5, <1>8, <1>9 DEF v, u, h

\* What the extended information of a port says of its group.
LEMMA GroupOfInfo ==
    ASSUME ConfigOK, Distinct, NEW id \in PortIDs
    PROVE  GroupOf(<<>>) = <<>> /\ GroupOf(InfoFor(id)) = DevicePort(id).group
<1> DEFINE port == DevicePort(id)
           i == <<"info">>
           g == <<"group">>
           s == i \o port.id
<1>1. "info" \in Char /\ "group" \in Char
    BY DEF Char, Names
<1>2. PortOK(port) /\ port.id = id /\ \E k \in DOMAIN config.ports : port = config.ports[k]
    BY DevicePortOK
<1>3. InfoFor(id) = s \o (IF port.group = <<>> THEN <<>> ELSE g \o port.group)
    BY DEF InfoFor, ExtendedInfo, DevicePort
<1> HIDE DEF port
<1>4. port.id \in Seq(Char) /\ port.group \in Seq(Char)
    <2>1. port.id \in Text /\ port.group \in Text
        BY <1>2 DEF PortOK, PortType
    <2> QED
        BY <2>1, TextType
<1>5. \A k \in DOMAIN port.id : port.id[k] # "group"
    BY <1>2 DEF Distinct
<1>6. i \in Seq(Char) /\ g \in Seq(Char) /\ Len(i) = 1 /\ i[1] # "group"
    BY <1>1
<1> HIDE DEF i
<1>7. s \in Seq(Char) /\ IsJoin(s, i, port.id)
    BY <1>4, <1>6, Joined
<1> HIDE DEF s
<1>8. \A k \in DOMAIN s : s[k] # "group"
    <2>1. /\ Len(s) = 1 + Len(port.id) /\ s[1] = i[1]
          /\ \A k \in 1 .. Len(port.id) : s[1 + k] = port.id[k]
        BY <1>6, <1>7 DEF IsJoin
    <2>2. ASSUME NEW k \in DOMAIN s
          PROVE  s[k] # "group"
        <3>1. k \in 1 .. 1 + Len(port.id) /\ Len(port.id) \in Nat
            BY <1>4, <1>7, <2>1
        <3>2. CASE k = 1
            BY <1>6, <2>1, <3>2
        <3>3. CASE k # 1
            <4>1. k - 1 \in 1 .. Len(port.id) /\ k = 1 + (k - 1)
                BY <3>1, <3>3
            <4>2. s[k] = port.id[k - 1] /\ k - 1 \in DOMAIN port.id
                BY <1>4, <2>1, <4>1
            <4> QED
                BY <1>5, <4>2
        <3> QED
            BY <3>2, <3>3
    <2> QED
        BY <2>2
<1>9. GroupOf(s) = <<>> /\ GroupOf(Append(s, "group") \o port.group) = port.group
    BY <1>1, <1>4, <1>7, <1>8, GroupFollows
<1>10. GroupOf(<<>>) = <<>>
    <2>1. <<>> \in Seq(Char) /\ \A k \in DOMAIN <<>> : <<>>[k] # "group"
        OBVIOUS
    <2> QED
        BY <1>1, <1>4, <2>1, GroupFollows
<1>11. CASE port.group = <<>>
    BY <1>3, <1>7, <1>9, <1>10, <1>11, ConcatEmptySeq DEF port
<1>12. CASE port.group # <<>>
    <2>1. InfoFor(id) = s \o (g \o port.group)
        BY <1>3, <1>12
    <2>2. s \o (g \o port.group) = (s \o g) \o port.group
        <3> DEFINE key == g
                   group == port.group
        <3>1. key \in Seq(Char) /\ group \in Seq(Char)
            BY <1>4, <1>6
        <3> HIDE DEF key, group
        <3>2. s \o (key \o group) = (s \o key) \o group
            BY <1>7, <3>1
        <3> QED
            BY <3>2 DEF key, group
    <2>3. s \o g = Append(s, "group")
        BY <1>1, <1>7, OneMore
    <2>4. InfoFor(id) = Append(s, "group") \o port.group
        BY <2>1, <2>2, <2>3
    <2> QED
        BY <1>9, <1>10, <2>4 DEF port
<1> QED
    BY <1>11, <1>12

\* A sequence begins with another one.
Begins(s, t) == Len(s) <= Len(t) /\ \A k \in 1 .. Len(s) : s[k] = t[k]

\* What the master knows of a port is what the device says of the one with its id.
TruePort(port) ==
    LET device == DevicePort(port.id)
    IN /\ port.id \in PortIDs
       /\ port.info \in {<<>>, InfoFor(port.id)}
       /\ Begins(port.labels, MasterReceives(device.labels))
       /\ port.group \in {<<>>, device.group}
       /\ port.state \in {<<>>, PortState(port.id)}
       /\ port.more \in {<<>>, ExtendedState(port.id)}

TrueKnown == {port \in KnownPort : TruePort(port)}

\* The groups that are kept have the parents the device gives them, or none yet.
TrueCache(cache) ==
    \A g \in DOMAIN cache :
        cache[g].parent = ParentOf(g) /\ cache[g].link \in {<<>>, ParentOf(g)}

HeardReply == {m \in Message : Heard(JavaSplit(m.text, Separator))}

\* One field of a port is replaced by what is true.
LEMMA FieldsTrue ==
    ASSUME NEW port \in TrueKnown, NEW s \in Seq(Payload)
    PROVE  /\ [port EXCEPT !.error = TRUE] \in TrueKnown
           /\ s = InfoFor(port.id) => [port EXCEPT !.info = s] \in TrueKnown
           /\ s \in {<<>>, DevicePort(port.id).group} => [port EXCEPT !.group = s] \in TrueKnown
           /\ s = PortState(port.id) =>
                 [[port EXCEPT !.state = s] EXCEPT !.error = FALSE] \in TrueKnown
           /\ s = ExtendedState(port.id) => [port EXCEPT !.more = s] \in TrueKnown
<1>1. port \in KnownPort /\ TruePort(port)
    BY DEF TrueKnown
<1> DEFINE d == [port EXCEPT !.error = TRUE]
           i == [port EXCEPT !.info = s]
           g == [port EXCEPT !.group = s]
           t == [[port EXCEPT !.state = s] EXCEPT !.error = FALSE]
           m == [port EXCEPT !.more = s]
           Same(q) == q.id = port.id /\ q.labels = port.labels
<1>2. /\ d \in KnownPort /\ Same(d) /\ d.info = port.info /\ d.group = port.group
      /\ d.state = port.state /\ d.more = port.more
    BY <1>1 DEF KnownPort
<1>3. /\ i \in KnownPort /\ Same(i) /\ i.info = s /\ i.group = port.group
      /\ i.state = port.state /\ i.more = port.more
    BY <1>1 DEF KnownPort
<1>4. /\ g \in KnownPort /\ Same(g) /\ g.info = port.info /\ g.group = s
      /\ g.state = port.state /\ g.more = port.more
    BY <1>1 DEF KnownPort
<1>5. /\ t \in KnownPort /\ Same(t) /\ t.info = port.info /\ t.group = port.group
      /\ t.state = s /\ t.more = port.more
    BY <1>1 DEF KnownPort
<1>6. /\ m \in KnownPort /\ Same(m) /\ m.info = port.info /\ m.group = port.group
      /\ m.state = port.state /\ m.more = s
    BY <1>1 DEF KnownPort
<1> HIDE DEF d, i, g, t, m
<1>7. TruePort(d)
    BY <1>1, <1>2 DEF TruePort
<1>8. s = InfoFor(port.id) => TruePort(i)
    BY <1>1, <1>3 DEF TruePort
<1>9. s \in {<<>>, DevicePort(port.id).group} => TruePort(g)
    BY <1>1, <1>4 DEF TruePort
<1>10. s = PortState(port.id) => TruePort(t)
    BY <1>1, <1>5 DEF TruePort
<1>11. s = ExtendedState(port.id) => TruePort(m)
    BY <1>1, <1>6 DEF TruePort
<1>12. /\ d \in TrueKnown
       /\ s = InfoFor(port.id) => i \in TrueKnown
       /\ s \in {<<>>, DevicePort(port.id).group} => g \in TrueKnown
       /\ s = PortState(port.id) => t \in TrueKnown
       /\ s = ExtendedState(port.id) => m \in TrueKnown
    BY <1>2, <1>3, <1>4, <1>5, <1>6, <1>7, <1>8, <1>9, <1>10, <1>11 DEF TrueKnown
<1> QED
    BY <1>12 DEF d, i, g, t, m

\* A port of which only the id is known.
LEMMA NewPortTrue ==
    ASSUME ConfigOK, NEW port \in KnownPort, port.id \in PortIDs, port.labels = <<>>,
           port.info = <<>>, port.group = <<>>, port.state = <<>>, port.more = <<>>
    PROVE  port \in TrueKnown
<1> DEFINE labels == DevicePort(port.id).labels
           heard == MasterReceives(labels)
<1>1. labels \in Seq(Seq(Char))
    BY DevicePortOK, PortTexts
<1> HIDE DEF labels
<1>2. Len(heard) \in Nat
    BY <1>1 DEF MasterReceives
<1>3. Len(port.labels) = 0
    OBVIOUS
<1> HIDE DEF heard
<1>4. Begins(port.labels, heard)
    BY <1>2, <1>3 DEF Begins
<1> QED
    BY <1>4 DEF TrueKnown, TruePort, heard, labels

\* A label is put behind those that are there.
LEMMA NewLabelTrue ==
    ASSUME ConfigOK, NEW port \in TrueKnown, NEW s \in Seq(Payload),
           NEW k, k = Number(Len(port.labels)),
           \E n \in DOMAIN MasterReceives(DevicePort(port.id).labels) :
              k = Number(n - 1) /\ s = MasterReceives(DevicePort(port.id).labels)[n]
    PROVE  [port EXCEPT !.labels = Append(port.labels, s)] \in TrueKnown
<1> DEFINE labels == DevicePort(port.id).labels
           heard == MasterReceives(labels)
           ls == Append(port.labels, s)
           new == [port EXCEPT !.labels = ls]
<1>1. port \in KnownPort /\ TruePort(port)
    BY DEF TrueKnown
<1>2. labels \in Seq(Seq(Char)) /\ Len(labels) \in 0 .. 9
    <2>1. port.id \in PortIDs
        BY <1>1 DEF TruePort
    <2> QED
        BY <2>1, DevicePortOK, PortTexts
<1>3. PICK n \in DOMAIN heard : k = Number(n - 1) /\ s = heard[n]
    OBVIOUS
<1>4. Begins(port.labels, heard)
    BY <1>1 DEF TruePort
<1> HIDE DEF labels
<1>5. Len(heard) \in 0 .. 9 /\ DOMAIN heard = 1 .. Len(heard)
    BY <1>2 DEF MasterReceives
<1> HIDE DEF heard
<1>6. port.labels \in Seq(Seq(Payload))
    BY <1>1 DEF KnownPort
<1> DEFINE had == port.labels
           S == Seq(Payload)
<1>7. had \in Seq(S) /\ s \in S
    BY <1>6
<1> HIDE DEF had, S
<1>8. Len(had) \in Nat /\ Len(had) <= Len(heard)
    BY <1>4, <1>7 DEF Begins, had
<1>9. Len(had) = n - 1
    <2>1. Len(had) \in 0 .. 9 /\ n - 1 \in 0 .. 9
        <3> DEFINE a == Len(had)
                   b == Len(heard)
        <3>1. a \in Nat /\ a <= b /\ b \in 0 .. 9
            BY <1>5, <1>8
        <3>2. n \in 1 .. b
            BY <1>3, <1>5
        <3> HIDE DEF a, b
        <3>3. a \in 0 .. 9 /\ n - 1 \in 0 .. 9
            BY <3>1, <3>2
        <3> QED
            BY <3>3 DEF a
    <2>2. Number(Len(had)) = Number(n - 1)
        BY <1>3 DEF had
    <2> QED
        BY <2>1, <2>2, NumberFacts
<1> DEFINE now == Append(had, s)
<1>10. now \in Seq(S) /\ Len(now) = Len(had) + 1 /\ now[Len(had) + 1] = s
       /\ \A i \in 1 .. Len(had) : now[i] = had[i]
    BY <1>7, AppendProperties
<1> HIDE DEF now
<1>11. Begins(now, heard)
    <2>1. \A i \in 1 .. Len(had) : had[i] = heard[i]
        BY <1>4 DEF Begins, had
    <2>2. n = Len(had) + 1 /\ n <= Len(heard)
        BY <1>3, <1>5, <1>8, <1>9
    <2>3. ASSUME NEW i \in 1 .. Len(now)
          PROVE  now[i] = heard[i]
        <3>1. i \in 1 .. Len(had) \/ i = Len(had) + 1
            BY <1>8, <1>10
        <3> QED
            BY <1>3, <1>10, <2>1, <2>2, <3>1
    <2> QED
        BY <1>10, <2>2, <2>3 DEF Begins
<1>12. ls = now /\ ls \in Seq(Seq(Payload))
    BY <1>10 DEF now, had, S
<1> HIDE DEF ls
<1>13. /\ new \in KnownPort /\ new.id = port.id /\ new.labels = ls /\ new.info = port.info
       /\ new.group = port.group /\ new.state = port.state /\ new.more = port.more
    BY <1>1, <1>12 DEF KnownPort
<1> HIDE DEF new
<1>14. TruePort(new)
    BY <1>1, <1>11, <1>12, <1>13 DEF TruePort, heard, labels
<1>15. new \in TrueKnown
    BY <1>13, <1>14 DEF TrueKnown
<1> QED
    BY <1>15 DEF new, ls

\* What the kinds of messages say that the query looks for.
LEMMA HeardSays ==
    ASSUME NEW parts, Heard(parts)
    PROVE  /\ IsA(parts, "DP", 3) \/ IsA(parts, "SLP", 4) => parts[2] \in PortIDs
           /\ IsA(parts, "EPI", 3) => parts[3] = InfoFor(parts[2])
           /\ IsA(parts, "SLL", 4) =>
                 \E n \in DOMAIN MasterReceives(DevicePort(parts[2]).labels) :
                    /\ parts[3] = Number(n - 1)
                    /\ parts[4] = MasterReceives(DevicePort(parts[2]).labels)[n]
           /\ IsA(parts, "DPS", 3) => parts[3] = PortState(parts[2])
           /\ IsA(parts, "EPS", 3) => parts[3] = ExtendedState(parts[2])
           /\ IsA(parts, "GI", 5) => parts[4] = ParentOf(parts[2])
<1> DEFINE kind == parts[1][1]
           labels == MasterReceives(DevicePort(parts[2]).labels)
<1>1. \A k, n : IsA(parts, k, n) => kind = k /\ Len(parts) = n
    BY DEF IsA
<1>2. /\ kind \in {"DP", "SLP", "EPI", "SLL", "DPS"} /\ Len(parts) > 1 => parts[2] \in PortIDs
      /\ kind = "EPI" /\ Len(parts) = 3 => parts[3] = InfoFor(parts[2])
      /\ kind = "SLL" /\ Len(parts) = 4 =>
            \E n \in DOMAIN labels : parts[3] = Number(n - 1) /\ parts[4] = labels[n]
      /\ kind = "DPS" /\ Len(parts) = 3 => parts[3] = PortState(parts[2])
      /\ kind = "EPS" /\ Len(parts) = 3 => parts[3] = ExtendedState(parts[2])
      /\ kind = "GI" /\ Len(parts) = 5 => parts[4] = ParentOf(parts[2])
    BY DEF Heard, IsTrue
<1> HIDE DEF kind, labels
<1>3. IsA(parts, "DP", 3) \/ IsA(parts, "SLP", 4) => parts[2] \in PortIDs
    <2>1. IsA(parts, "DP", 3) => kind = "DP" /\ Len(parts) = 3
        BY <1>1
    <2>2. IsA(parts, "SLP", 4) => kind = "SLP" /\ Len(parts) = 4
        BY <1>1
    <2> QED
        BY <1>2, <2>1, <2>2
<1>4. IsA(parts, "SLL", 4) =>
         \E n \in DOMAIN labels : parts[3] = Number(n - 1) /\ parts[4] = labels[n]
    BY <1>1, <1>2
<1>5. /\ IsA(parts, "EPI", 3) => parts[3] = InfoFor(parts[2])
      /\ IsA(parts, "DPS", 3) => parts[3] = PortState(parts[2])
      /\ IsA(parts, "EPS", 3) => parts[3] = ExtendedState(parts[2])
      /\ IsA(parts, "GI", 5) => parts[4] = ParentOf(parts[2])
    BY <1>1, <1>2
<1> QED
    BY <1>3, <1>4, <1>5 DEF labels

\* What a message changes of the ports is true.
LEMMA TakeTruePorts ==
    ASSUME ConfigOK, ports \in Seq(TrueKnown), NEW parts \in Seq(Seq(Payload)), Heard(parts),
           \/ TakeCaps(parts) \/ TakeInfo(parts) \/ TakeLabel(parts) \/ TakeExtendedInfo(parts)
           \/ TakeGroup(parts) \/ TakeDeviceInfo(parts) \/ TakeState(parts)
           \/ TakeExtendedState(parts)
    PROVE  ports' \in Seq(TrueKnown)
<1> DEFINE S == Seq(Payload)
           T == TrueKnown
<1>1. ports \in Seq(T) /\ \A k \in 1 .. Len(ports) : ports[k] \in T
    OBVIOUS
<1>2. parts \in Seq(S) /\ <<>> \in S
    OBVIOUS
<1>3. \A k \in 1 .. Len(parts) : parts[k] \in S
    BY <1>2
<1> HIDE DEF T
<1>4. SUFFICES ports' \in Seq(T)
    BY DEF T
<1>5. CASE UNCHANGED ports
    BY <1>1, <1>5
<1>6. ASSUME NEW i, NEW new, ports' = [ports EXCEPT ![i] = new],
             i \in 1 .. Len(ports) => new \in T
      PROVE  ports' \in Seq(T)
    BY <1>1, <1>6, Replaced
<1>7. ASSUME NEW port \in KnownPort, NEW id, NEW name, NEW n, id \in PortIDs,
             port = [UnknownPort EXCEPT !.id = id, !.name = name]
               \/ port = [UnknownPort EXCEPT !.id = id, !.name = name, !.posCount = n],
             ports' = Append(ports, port)
      PROVE  ports' \in Seq(T)
    <2>1. /\ port.id = id /\ port.labels = <<>> /\ port.info = <<>> /\ port.group = <<>>
          /\ port.state = <<>> /\ port.more = <<>>
        BY <1>7 DEF UnknownPort
    <2>2. port \in T
        BY <1>7, <2>1, NewPortTrue DEF T
    <2> QED
        BY <1>1, <1>7, <2>2, OneMore
<1>8. CASE TakeCaps(parts)
    <2>1. ports' = <<>> \/ UNCHANGED ports
        BY <1>8 DEF TakeCaps, Fail, Goto, Keep
    <2>2. <<>> \in Seq(T)
        OBVIOUS
    <2> QED
        BY <1>5, <2>1, <2>2
<1>9. CASE TakeInfo(parts)
    <2>1. CASE IsA(parts, "DP", 3) /\ ports' = Append(ports, [UnknownPort EXCEPT !.id = parts[2], !.name = parts[3]])
        <3> DEFINE new == [UnknownPort EXCEPT !.id = parts[2], !.name = parts[3]]
        <3>1. parts[2] \in S /\ parts[3] \in S
            BY <1>3, <2>1 DEF IsA
        <3>2. parts[2] \in PortIDs
            BY <2>1, HeardSays
        <3> HIDE DEF S
        <3>3. new \in KnownPort
            BY <3>1, NewPort DEF S
        <3>4. ports' = Append(ports, new)
            BY <2>1
        <3> QED
            BY <1>7, <3>2, <3>3, <3>4
    <2>2. CASE /\ IsA(parts, "SLP", 4)
               /\ \E n \in 0 .. 9 : ports' = Append(ports, [UnknownPort EXCEPT
                                       !.id = parts[2], !.name = parts[3], !.posCount = n])
        <3>1. PICK n \in 0 .. 9 : ports' = Append(ports, [UnknownPort EXCEPT
                                       !.id = parts[2], !.name = parts[3], !.posCount = n])
            BY <2>2
        <3> DEFINE new == [UnknownPort EXCEPT !.id = parts[2], !.name = parts[3], !.posCount = n]
        <3>2. parts[2] \in S /\ parts[3] \in S
            BY <1>3, <2>2 DEF IsA
        <3>3. parts[2] \in PortIDs
            BY <2>2, HeardSays
        <3> HIDE DEF S
        <3>4. new \in KnownPort
            BY <3>2, NewSelectPort DEF S
        <3>5. ports' = Append(ports, new)
            BY <3>1
        <3> QED
            BY <1>7, <3>3, <3>4, <3>5
    <2> QED
        BY <1>5, <1>9, <2>1, <2>2 DEF TakeInfo, Fail, Goto, Keep
<1>10. CASE TakeLabel(parts)
    <2>1. CASE /\ IsA(parts, "SLL", 4) /\ IsFor(parts, NewestPort.id)
               /\ parts[3] = Number(Len(NewestPort.labels))
               /\ ports' = [ports EXCEPT ![Len(ports)].labels = Append(@, parts[4])]
        <3> DEFINE i == Len(ports)
                   port == ports[i]
                   new == [port EXCEPT !.labels = Append(port.labels, parts[4])]
        <3>1. ports' = [ports EXCEPT ![i] = new]
            BY <2>1
        <3>2. parts[4] \in S
            BY <1>3, <2>1 DEF IsA
        <3>3. port.id = parts[2] /\ parts[3] = Number(Len(port.labels))
            BY <2>1 DEF IsFor, NewestPort, Last
        <3>4. \E n \in DOMAIN MasterReceives(DevicePort(port.id).labels) :
                 /\ parts[3] = Number(n - 1)
                 /\ parts[4] = MasterReceives(DevicePort(port.id).labels)[n]
            BY <2>1, <3>3, HeardSays
        <3>5. i \in 1 .. Len(ports) => port \in TrueKnown
            BY <1>1 DEF T
        <3> HIDE DEF port
        <3>6. i \in 1 .. Len(ports) => new \in T
            BY <3>2, <3>3, <3>4, <3>5, NewLabelTrue DEF T
        <3> HIDE DEF new, i
        <3> QED
            BY <1>6, <3>1, <3>6
    <2> QED
        BY <1>5, <1>10, <2>1 DEF TakeLabel, Fail, Goto, Keep
<1>11. CASE TakeExtendedInfo(parts)
    <2>1. CASE /\ IsA(parts, "EPI", 3) /\ IsFor(parts, NewestPort.id)
               /\ ports' = [ports EXCEPT ![Len(ports)].info = parts[3]]
        <3> DEFINE i == Len(ports)
                   port == ports[i]
                   new == [port EXCEPT !.info = parts[3]]
        <3>1. ports' = [ports EXCEPT ![i] = new]
            BY <2>1
        <3>2. parts[3] \in S /\ parts[3] = InfoFor(port.id)
            <4>1. port.id = parts[2]
                BY <2>1 DEF IsFor, NewestPort, Last
            <4>2. parts[3] = InfoFor(parts[2])
                BY <2>1, HeardSays
            <4>3. parts[3] \in S
                BY <1>3, <2>1 DEF IsA
            <4> QED
                BY <4>1, <4>2, <4>3
        <3>3. i \in 1 .. Len(ports) => port \in TrueKnown
            BY <1>1 DEF T
        <3> HIDE DEF port
        <3>4. i \in 1 .. Len(ports) => new \in T
            BY <3>2, <3>3, FieldsTrue DEF T
        <3> HIDE DEF new, i
        <3> QED
            BY <1>6, <3>1, <3>4
    <2> QED
        BY <1>5, <1>11, <2>1 DEF TakeExtendedInfo, Fail, Goto, Keep
<1>12. CASE TakeGroup(parts)
    BY <1>5, <1>12 DEF TakeGroup, Return, Fail, Goto, Keep
<1>13. CASE TakeDeviceInfo(parts)
    BY <1>5, <1>13 DEF TakeDeviceInfo, Fail, Goto, Keep
<1>14. CASE TakeState(parts)
    <2> DEFINE i == counter + 1
               port == ports[i]
    <2>1. i \in 1 .. Len(ports) => port \in TrueKnown
        BY <1>1 DEF T
    <2>2. CASE ports' = [ports EXCEPT ![counter + 1].error = TRUE]
        <3> DEFINE new == [port EXCEPT !.error = TRUE]
        <3>1. ports' = [ports EXCEPT ![i] = new]
            BY <2>2
        <3> HIDE DEF port
        <3>2. i \in 1 .. Len(ports) => new \in T
            BY <1>2, <2>1, FieldsTrue DEF T
        <3> HIDE DEF new, i
        <3> QED
            BY <1>6, <3>1, <3>2
    <2>3. CASE /\ IsA(parts, "DPS", 3) /\ IsFor(parts, port.id)
               /\ ports' = [ports EXCEPT ![counter + 1].state = parts[3],
                                         ![counter + 1].error = FALSE]
        <3> DEFINE new == [[port EXCEPT !.state = parts[3]] EXCEPT !.error = FALSE]
        <3>1. ports' = [ports EXCEPT ![i] = new]
            <4>1. [ports EXCEPT ![counter + 1].state = parts[3],
                                ![counter + 1].error = FALSE]
                    = [ports EXCEPT ![i] = new]
                BY <1>1, StateReplaced
            <4> QED
                BY <2>3, <4>1
        <3>2. parts[3] \in S /\ parts[3] = PortState(port.id)
            <4>1. port.id = parts[2]
                BY <2>3 DEF IsFor
            <4>2. parts[3] = PortState(parts[2])
                BY <2>3, HeardSays
            <4>3. parts[3] \in S
                BY <1>3, <2>3 DEF IsA
            <4> QED
                BY <4>1, <4>2, <4>3
        <3> HIDE DEF port
        <3>3. i \in 1 .. Len(ports) => new \in T
            BY <2>1, <3>2, FieldsTrue DEF T
        <3> HIDE DEF new, i
        <3> QED
            BY <1>6, <3>1, <3>3
    <2> QED
        BY <1>5, <1>14, <2>2, <2>3 DEF TakeState
<1>15. CASE TakeExtendedState(parts)
    <2> DEFINE i == counter + 1
               port == ports[i]
    <2>1. i \in 1 .. Len(ports) => port \in TrueKnown
        BY <1>1 DEF T
    <2>2. CASE /\ IsA(parts, "EPS", 3) /\ IsFor(parts, port.id)
               /\ ports' = [ports EXCEPT ![counter + 1].more = parts[3]]
        <3> DEFINE new == [port EXCEPT !.more = parts[3]]
        <3>1. ports' = [ports EXCEPT ![i] = new]
            BY <2>2
        <3>2. parts[3] \in S /\ parts[3] = ExtendedState(port.id)
            <4>1. port.id = parts[2]
                BY <2>2 DEF IsFor
            <4>2. parts[3] = ExtendedState(parts[2])
                BY <2>2, HeardSays
            <4>3. parts[3] \in S
                BY <1>3, <2>2 DEF IsA
            <4> QED
                BY <4>1, <4>2, <4>3
        <3> HIDE DEF port
        <3>3. i \in 1 .. Len(ports) => new \in T
            BY <2>1, <3>2, FieldsTrue DEF T
        <3> HIDE DEF new, i
        <3> QED
            BY <1>6, <3>1, <3>3
    <2> QED
        BY <1>5, <1>15, <2>2 DEF TakeExtendedState
<1> QED
    BY <1>8, <1>9, <1>10, <1>11, <1>12, <1>13, <1>14, <1>15

\* What a message changes of the groups is true.
LEMMA TakeTrueGroups ==
    ASSUME TrueCache(groupCache), NEW parts, Heard(parts),
           \/ TakeCaps(parts) \/ TakeInfo(parts) \/ TakeLabel(parts) \/ TakeExtendedInfo(parts)
           \/ TakeGroup(parts) \/ TakeDeviceInfo(parts) \/ TakeState(parts)
           \/ TakeExtendedState(parts)
    PROVE  TrueCache(groupCache')
<1>1. CASE UNCHANGED groupCache
    BY <1>1
<1>2. CASE TakeGroup(parts)
    <2> DEFINE last == Last(path)
               new == [parent |-> parts[4], link |-> <<>>]
    <2>1. CASE /\ IsA(parts, "GI", 5) /\ IsFor(parts, last)
               /\ groupCache' = [g \in DOMAIN groupCache \cup {last} |->
                                    IF g = last THEN new ELSE groupCache[g]]
        <3>1. parts[4] = ParentOf(last)
            BY <2>1, HeardSays DEF IsFor
        <3>2. new.parent = ParentOf(last) /\ new.link = <<>>
            BY <3>1
        <3> HIDE DEF last, new
        <3>3. /\ DOMAIN groupCache' = DOMAIN groupCache \cup {last} /\ groupCache'[last] = new
              /\ \A g \in DOMAIN groupCache : g # last => groupCache'[g] = groupCache[g]
            BY <2>1
        <3> QED
            BY <3>2, <3>3 DEF TrueCache
    <2> QED
        BY <1>1, <1>2, <2>1 DEF TakeGroup, Fail, Goto, Keep, groupVars
<1>3. CASE \/ TakeCaps(parts) \/ TakeInfo(parts) \/ TakeLabel(parts) \/ TakeExtendedInfo(parts)
           \/ TakeDeviceInfo(parts) \/ TakeState(parts) \/ TakeExtendedState(parts)
    <2>1. CASE TakeCaps(parts)
        BY <1>1, <2>1 DEF TakeCaps, Fail, Goto, Keep, groupVars
    <2>2. CASE TakeInfo(parts)
        BY <1>1, <2>2 DEF TakeInfo, Fail, Goto, Keep, groupVars
    <2>3. CASE TakeLabel(parts)
        BY <1>1, <2>3 DEF TakeLabel, Fail, Goto, Keep, groupVars
    <2>4. CASE TakeExtendedInfo(parts)
        BY <1>1, <2>4 DEF TakeExtendedInfo, Fail, Goto, Keep, groupVars
    <2>5. CASE TakeDeviceInfo(parts)
        BY <1>1, <2>5 DEF TakeDeviceInfo, Fail, Goto, Keep, groupVars
    <2>6. CASE TakeState(parts)
        BY <1>1, <2>6 DEF TakeState, groupVars
    <2>7. CASE TakeExtendedState(parts)
        BY <1>1, <2>7 DEF TakeExtendedState, NextState, groupVars
    <2> QED
        BY <1>3, <2>1, <2>2, <2>3, <2>4, <2>5, <2>6, <2>7
<1> QED
    BY <1>2, <1>3

\* A parent that is assigned is the one the device gives.
LEMMA AssignTrueParent ==
    ASSUME GroupInv, TrueCache(groupCache), AssignParent
    PROVE  TrueCache(groupCache')
<1> DEFINE last == Last(path)
           parent == groupCache[last].parent
<1>1. groupCache' = [groupCache EXCEPT ![last].link = parent]
    BY DEF AssignParent
<1>2. \A g \in DOMAIN groupCache :
         groupCache[g] = [parent |-> groupCache[g].parent, link |-> groupCache[g].link]
    BY DEF GroupInv
<1> HIDE DEF last
<1>3. /\ DOMAIN groupCache' = DOMAIN groupCache
      /\ \A g \in DOMAIN groupCache : g # last => groupCache'[g] = groupCache[g]
      /\ last \in DOMAIN groupCache => groupCache'[last] = [groupCache[last] EXCEPT !.link = parent]
    <2>1. groupCache = [g \in DOMAIN groupCache |-> groupCache[g]]
        BY DEF GroupInv
    <2> HIDE DEF parent
    <2> QED
        BY <1>1, <2>1
<1>4. ASSUME last \in DOMAIN groupCache
      PROVE  groupCache'[last].parent = parent /\ groupCache'[last].link = parent
    <2> DEFINE entry == groupCache[last]
    <2>1. entry = [parent |-> entry.parent, link |-> entry.link]
        BY <1>2, <1>4
    <2>2. groupCache'[last] = [entry EXCEPT !.link = parent] /\ parent = entry.parent
        BY <1>3, <1>4
    <2> HIDE DEF entry, parent
    <2> QED
        BY <2>1, <2>2
<1>5. last \in DOMAIN groupCache => parent = ParentOf(last)
    BY DEF TrueCache
<1> HIDE DEF parent
<1> QED
    BY <1>3, <1>4, <1>5 DEF TrueCache

\* The group a port gets is its own.
LEMMA GoThroughTrue ==
    ASSUME ConfigOK, Distinct, ports \in Seq(TrueKnown), GoThroughGroups
    PROVE  ports' \in Seq(TrueKnown)
<1> DEFINE i == counter + 1
           port == ports[i]
           group == GroupOf(port.info)
           new == [port EXCEPT !.group = group]
           T == TrueKnown
<1>1. UNCHANGED ports \/ ports' = [ports EXCEPT ![i] = new]
    BY DEF GoThroughGroups
<1>2. ports \in Seq(T) /\ \A k \in 1 .. Len(ports) : ports[k] \in T
    OBVIOUS
<1> HIDE DEF T
<1>3. i \in 1 .. Len(ports) => port \in T
    BY <1>2
<1> HIDE DEF port
<1>4. ASSUME port \in T
      PROVE  new \in T
    <2>1. port \in TrueKnown /\ port \in KnownPort /\ port.id \in PortIDs
          /\ port.info \in {<<>>, InfoFor(port.id)}
        BY <1>4 DEF T, TrueKnown, TruePort
    <2>2. group \in Seq(Payload)
        <3>1. port.info \in Seq(Payload)
            BY <2>1 DEF KnownPort
        <3> QED
            BY <3>1, GroupOfType
    <2>3. group \in {<<>>, DevicePort(port.id).group}
        BY <2>1, GroupOfInfo
    <2> HIDE DEF group
    <2> QED
        BY <2>1, <2>2, <2>3, FieldsTrue DEF T
<1> HIDE DEF new, i
<1>5. ports' \in Seq(T)
    BY <1>1, <1>2, <1>3, <1>4, Replaced
<1> QED
    BY <1>5 DEF T

\* While nothing is disturbed, and ids arrive as they are, all that the master has heard
\* and has put together is true.
KnownNow ==
    inQueue \in Seq(HeardReply) /\ ports \in Seq(TrueKnown) /\ TrueCache(groupCache)

KnownInv == ~fault /\ Distinct => KnownNow

\* What has been sent stays sent, so what is clear in the end has been clear before.
LEMMA DistinctBefore ==
    ASSUME Distinct', UNCHANGED config,
           \A i \in DOMAIN slaveSent : i \in DOMAIN slaveSent' /\ slaveSent'[i] = slaveSent[i]
    PROVE  Distinct
BY DEF Distinct, AllUnambiguous

\* What is true does not change with the device.
LEMMA TrueAfter ==
    ASSUME UNCHANGED config, inQueue' \in Seq(HeardReply), ports' \in Seq(TrueKnown),
           TrueCache(groupCache')
    PROVE  KnownNow'
<1>1. \A id : /\ DevicePort(id)' = DevicePort(id) /\ InfoFor(id)' = InfoFor(id)
              /\ ParentOf(id)' = ParentOf(id)
    BY DEF DevicePort, InfoFor, ParentOf
<1>2. PortIDs' = PortIDs /\ GroupIDs' = GroupIDs
    BY DEF PortIDs, GroupIDs
<1>3. HeardReply' = HeardReply
    <2>1. \A parts : Heard(parts)' <=> Heard(parts)
        BY <1>1, <1>2 DEF Heard, IsTrue
    <2> QED
        BY <2>1 DEF HeardReply
<1>4. TrueKnown' = TrueKnown
    <2>1. \A port : TruePort(port)' <=> TruePort(port)
        BY <1>1, <1>2 DEF TruePort
    <2> QED
        BY <2>1 DEF TrueKnown
<1>5. TrueCache(groupCache)'
    BY <1>1 DEF TrueCache
<1> QED
    BY <1>3, <1>4, <1>5 DEF KnownNow

\* What the slave has said, and what is true of it, stays.
LEMMA NextTruth ==
    ASSUME BulkInv, TruthInv, [Next]_vars, ~fault'
    PROVE  /\ ~fault /\ UNCHANGED config /\ slaveSent' \in Seq(TrueAnswer)
           /\ \A i \in DOMAIN slaveSent : i \in DOMAIN slaveSent' /\ slaveSent'[i] = slaveSent[i]
<1>1. ~fault
    BY DEF Next, vars, SlaveReads, SlaveStreams, MasterReads, Query, QueryAgain, Disturb,
           SendFirst, SendRequest, RequestAnew, Request, TakeMessage, GoThroughGroups,
           AssignParent, ExpectFails
<1>2. UNCHANGED config
    BY DEF Next, vars, SlaveReads, SlaveStreams, MasterReads, Query, QueryAgain, Disturb,
           SendFirst, SendRequest, RequestAnew, Request, TakeMessage, GoThroughGroups,
           AssignParent, ExpectFails
<1>3. ConfigOK /\ ReaderInv /\ slaveSent \in Seq(TrueAnswer)
    BY <1>1, ConfigFacts DEF BulkInv, FlagInv, TruthInv
<1>4. SUFFICES /\ slaveSent' \in Seq(TrueAnswer)
               /\ \A i \in DOMAIN slaveSent : i \in DOMAIN slaveSent' /\ slaveSent'[i] = slaveSent[i]
    BY <1>1, <1>2
<1>5. CASE UNCHANGED slaveSent
    BY <1>3, <1>5
<1>6. ASSUME NEW more \in Seq(TrueAnswer), slaveSent' = slaveSent \o more
      PROVE  /\ slaveSent' \in Seq(TrueAnswer)
             /\ \A i \in DOMAIN slaveSent : i \in DOMAIN slaveSent' /\ slaveSent'[i] = slaveSent[i]
    <2>1. slaveSent' \in Seq(TrueAnswer) /\ IsJoin(slaveSent', slaveSent, more)
        BY <1>3, <1>6, Joined
    <2>2. /\ DOMAIN slaveSent = 1 .. Len(slaveSent) /\ DOMAIN slaveSent' = 1 .. Len(slaveSent')
          /\ Len(slaveSent) \in Nat /\ Len(more) \in Nat
        BY <1>3, <2>1
    <2> QED
        BY <2>1, <2>2 DEF IsJoin
<1>7. CASE SlaveReads
    <2> DEFINE read == ReadByte(reader, Head(toSlave), config.cipher)
               m == read.message[1]
    <2>1. UNCHANGED slaveSent \/ (read.message # <<>> /\ Handle(m))
        BY <1>7 DEF SlaveReads
    <2>2. CASE read.message # <<>> /\ Handle(m)
        <3>1. m.channel \in 0 .. 99
            BY <1>3, <2>2, ReadChannel DEF ReaderInv
        <3> HIDE DEF m
        <3>2. PICK more \in Seq(AnswerOn(m.channel)) :
                  UNCHANGED slaveSent \/ slaveSent' = slaveSent \o more
            BY <1>3, <2>2, <3>1, HandleAnswersOn
        <3>3. AnswerOn(m.channel) \subseteq TrueAnswer
            BY DEF AnswerOn, TrueAnswer
        <3>4. more \in Seq(TrueAnswer)
            BY <3>3, Larger
        <3> QED
            BY <1>5, <1>6, <3>2, <3>4
    <2> QED
        BY <1>5, <2>1, <2>2
<1>8. CASE SlaveStreams
    <2>1. slaveSent' = Append(slaveSent, StreamAnswer) /\ StreamAnswer \in TrueAnswer
        BY <1>8, StreamOnWire DEF SlaveStreams, StreamAnswer, TrueAnswer
    <2>2. slaveSent' = slaveSent \o <<StreamAnswer>> /\ <<StreamAnswer>> \in Seq(TrueAnswer)
        BY <1>3, <2>1, OneMore, Single
    <2> QED
        BY <1>6, <2>2
<1>9. CASE \/ MasterReads \/ SendFirst \/ SendRequest \/ TakeMessage \/ GoThroughGroups
           \/ AssignParent \/ ExpectFails \/ QueryAgain \/ UNCHANGED vars
    <2>1. UNCHANGED slaveSent
        BY <1>9 DEF MasterReads, SendFirst, SendRequest, RequestAnew, Request, TakeMessage,
                    GoThroughGroups, AssignParent, ExpectFails, QueryAgain, vars, slaveVars,
                    queryVars
    <2> QED
        BY <1>5, <2>1
<1>10. CASE Disturb
    BY <1>10 DEF Disturb
<1> QED
    BY <1>7, <1>8, <1>9, <1>10 DEF Next, Query

\* The truth of what has been said is kept.
LEMMA TruthKept == BulkInv /\ TruthInv /\ [Next]_vars => TruthInv'
<1> SUFFICES ASSUME BulkInv, TruthInv, [Next]_vars, ~fault'
             PROVE  slaveSent' \in Seq(TrueAnswer')
    BY DEF TruthInv
<1>1. UNCHANGED config /\ slaveSent' \in Seq(TrueAnswer)
    BY NextTruth
<1>2. \A a \in GoodAnswer : Truthful(a.parts)' <=> Truthful(a.parts)
    BY <1>1, SameTruth
<1>3. TrueAnswer' = TrueAnswer
    BY <1>2 DEF TrueAnswer
<1> QED
    BY <1>1, <1>3

\* Every step keeps what is known true.
LEMMA NextKnown ==
    (BulkInv /\ AnswersInv /\ TextsInv) /\ TruthInv /\ KnownInv /\ [Next]_vars => KnownInv'
<1> SUFFICES ASSUME BulkInv, AnswersInv, TextsInv, TruthInv, KnownInv, [Next]_vars,
                    ~fault', Distinct'
             PROVE  KnownNow'
    BY DEF KnownInv
<1>1. /\ ~fault /\ UNCHANGED config
      /\ \A i \in DOMAIN slaveSent : i \in DOMAIN slaveSent' /\ slaveSent'[i] = slaveSent[i]
    BY NextTruth
<1>2. Distinct
    BY <1>1, DistinctBefore
<1>3. inQueue \in Seq(HeardReply) /\ ports \in Seq(TrueKnown) /\ TrueCache(groupCache)
    BY <1>1, <1>2 DEF KnownInv, KnownNow
<1>4. ConfigOK /\ TextsOK /\ GroupInv /\ inQueue \in Seq(Message)
    BY <1>1, ConfigFacts DEF TextsInv, TextsOK, BulkInv, FlagInv
<1>5. slaveSent \in Seq(TrueAnswer)
    BY <1>1 DEF TruthInv
<1>6. SUFFICES inQueue' \in Seq(HeardReply) /\ ports' \in Seq(TrueKnown) /\ TrueCache(groupCache')
    BY <1>1, TrueAfter
<1>7. CASE UNCHANGED <<inQueue, ports, groupCache>>
    BY <1>3, <1>7
<1>8. CASE \/ SlaveReads \/ SlaveStreams \/ SendFirst \/ SendRequest \/ ExpectFails \/ QueryAgain
           \/ UNCHANGED vars
    <2>1. UNCHANGED <<inQueue, ports, groupCache>>
        BY <1>8 DEF SlaveReads, SlaveStreams, SendFirst, SendRequest, RequestAnew, Request,
                    ExpectFails, NextState, Fail, Goto, Keep, QueryAgain, vars, queryVars,
                    groupVars, processorVars
    <2> QED
        BY <1>7, <2>1
<1>9. CASE MasterReads
    <2>1. UNCHANGED ports /\ UNCHANGED groupCache
        BY <1>9 DEF MasterReads, queryVars, groupVars
    <2>2. PICK messages \in Seq(Message) :
              messages \in Seq(AsSent) /\ inQueue' = inQueue \o Queued(messages)
        BY <1>1, <1>4, <1>9, MasterStepAnswers DEF MoreQueued
    <2> DEFINE replies == Queued(messages)
    <2>3. AsSent \subseteq HeardReply
        <3> SUFFICES ASSUME NEW m \in AsSent
                     PROVE  m \in HeardReply
            OBVIOUS
        <3>1. Heard(JavaSplit(m.text, Separator))
            BY <1>2, <1>4, <1>5, AnswerHeard
        <3>2. PICK i \in DOMAIN slaveSent : m = MessageOf(slaveSent[i])
            BY DEF AsSent
        <3> DEFINE a == slaveSent[i]
        <3>3. a \in TrueAnswer
            BY <1>5
        <3> HIDE DEF a
        <3>4. MessageOf(a) \in Message
            BY <3>3 DEF TrueAnswer, GoodAnswer, RawAnswer, MessageOf, Message
        <3> QED
            BY <3>1, <3>2, <3>4 DEF HeardReply, a
    <2>4. messages \in Seq(HeardReply) /\ HeardReply \subseteq Message
        BY <2>2, <2>3, Larger DEF HeardReply
    <2>5. replies \in Seq({m \in HeardReply : IsReply(m)})
        BY <2>4, QueuedReplies
    <2> HIDE DEF replies
    <2>6. replies \in Seq(HeardReply)
        <3>1. {m \in HeardReply : IsReply(m)} \subseteq HeardReply
            OBVIOUS
        <3> QED
            BY <2>5, <3>1, Larger
    <2>7. inQueue' = inQueue \o replies
        BY <2>2 DEF replies
    <2>8. inQueue' \in Seq(HeardReply)
        BY <1>3, <2>6, <2>7, Joined
    <2> QED
        BY <1>3, <2>1, <2>8
<1>10. CASE TakeMessage
    <2> DEFINE at == Position
               text == inQueue[at].text
               parts == JavaSplit(text, Separator)
    <2>1. at # 0 /\ inQueue' = RemoveAt(inQueue, at)
        BY <1>10 DEF TakeMessage
    <2>2. at \in 1 .. Len(inQueue)
        BY <1>4, <2>1, PositionType
    <2>3. \/ TakeCaps(parts) \/ TakeInfo(parts) \/ TakeLabel(parts) \/ TakeExtendedInfo(parts)
          \/ TakeGroup(parts) \/ TakeDeviceInfo(parts) \/ TakeState(parts)
          \/ TakeExtendedState(parts)
        BY <1>10 DEF TakeMessage
    <2> HIDE DEF at
    <2>4. inQueue[at] \in HeardReply
        BY <1>3, <2>2
    <2>5. text \in Seq(Payload) /\ Heard(parts)
        BY <2>4 DEF HeardReply, Message
    <2> HIDE DEF text
    <2>6. parts \in Seq(Seq(Payload))
        BY <2>5, SomeCharacters, JavaSplitType
    <2> HIDE DEF parts
    <2>7. ports' \in Seq(TrueKnown)
        BY <1>3, <1>4, <2>3, <2>5, <2>6, TakeTruePorts
    <2>8. TrueCache(groupCache')
        BY <1>3, <2>3, <2>5, TakeTrueGroups
    <2>9. inQueue' \in Seq(HeardReply)
        BY <1>3, <2>1, <2>2, OneLess
    <2> QED
        BY <2>7, <2>8, <2>9
<1>11. CASE GoThroughGroups
    <2>1. UNCHANGED inQueue /\ UNCHANGED groupCache
        BY <1>11 DEF GoThroughGroups, processorVars
    <2>2. ports' \in Seq(TrueKnown)
        BY <1>2, <1>3, <1>4, <1>11, GoThroughTrue
    <2> QED
        BY <1>3, <2>1, <2>2
<1>12. CASE AssignParent
    <2>1. UNCHANGED inQueue /\ UNCHANGED ports
        BY <1>12 DEF AssignParent, processorVars
    <2>2. TrueCache(groupCache')
        BY <1>3, <1>4, <1>12, AssignTrueParent
    <2> QED
        BY <1>3, <2>1, <2>2
<1>13. CASE Disturb
    BY <1>13 DEF Disturb
<1> QED
    BY <1>8, <1>9, <1>10, <1>11, <1>12, <1>13 DEF Next, Query

\* Nothing is known when the connection has just been made.
LEMMA InitKnown == Init => TruthInv /\ KnownInv
<1> SUFFICES ASSUME Init
             PROVE  slaveSent \in Seq(TrueAnswer) /\ KnownNow
    BY DEF TruthInv, KnownInv
<1>1. slaveSent = <<>> /\ inQueue = <<>> /\ ports = <<>> /\ DOMAIN groupCache = {}
    BY DEF Init
<1> QED
    BY <1>1 DEF KnownNow, TrueCache

\* What is received of texts are texts.
LEMMA ReceivedTexts ==
    ASSUME NEW parts \in Seq(Seq(Char))
    PROVE  MasterReceives(parts) \in Seq(Seq(Char))
<1>1. ASSUME NEW p \in Seq(Char)
      PROVE  removeLeadingBlank(p) \in Seq(Char)
    BY DEF removeLeadingBlank
<1>2. DOMAIN parts = 1 .. Len(parts) /\ Len(parts) \in Nat
    OBVIOUS
<1>3. \A k \in 1 .. Len(parts) : removeLeadingBlank(parts[k]) \in Seq(Char)
    BY <1>1
<1> QED
    BY <1>2, <1>3 DEF MasterReceives

\* What is known is not swapped.
LEMMA KnownIsRight ==
    ASSUME BulkInv, KnownInv, ~fault, Distinct
    PROVE  NothingSwapped
<1>1. ports \in Seq(TrueKnown) /\ TrueCache(groupCache) /\ ConfigOK
    BY ConfigFacts DEF KnownInv, KnownNow, BulkInv, FlagInv
<1>2. ASSUME NEW i \in DOMAIN ports
      PROVE  \E j \in DOMAIN config.ports :
                /\ ports[i].id = config.ports[j].id
                /\ ports[i].info \in {<<>>, ExtendedInfo(config.ports[j])}
                /\ IsPrefix(ports[i].labels, MasterReceives(config.ports[j].labels))
                /\ ports[i].group \in {<<>>, config.ports[j].group}
                /\ ports[i].state \in {<<>>, PortState(config.ports[j].id)}
                /\ ports[i].more \in {<<>>, ExtendedState(config.ports[j].id)}
    <2> DEFINE port == ports[i]
               device == DevicePort(port.id)
               labels == device.labels
               heard == MasterReceives(labels)
    <2>1. port \in KnownPort /\ TruePort(port) /\ port.id \in PortIDs
        <3>1. port \in TrueKnown
            BY <1>1
        <3> HIDE DEF port
        <3> QED
            BY <3>1 DEF TrueKnown, TruePort
    <2> HIDE DEF port
    <2>2. PortOK(device) /\ device.id = port.id /\ \E j \in DOMAIN config.ports : device = config.ports[j]
        BY <1>1, <2>1, DevicePortOK
    <2>3. InfoFor(port.id) = ExtendedInfo(device)
        BY DEF InfoFor, DevicePort
    <2>4. /\ port.info \in {<<>>, ExtendedInfo(device)} /\ Begins(port.labels, heard)
          /\ port.group \in {<<>>, device.group}
          /\ port.state \in {<<>>, PortState(device.id)}
          /\ port.more \in {<<>>, ExtendedState(device.id)}
        BY <2>1, <2>2, <2>3 DEF TruePort
    <2> HIDE DEF device
    <2>5. IsPrefix(port.labels, heard)
        <3>1. labels \in Seq(Seq(Char)) /\ port.labels \in Seq(Seq(Payload))
            BY <2>1, <2>2, PortTexts DEF KnownPort
        <3> HIDE DEF labels
        <3>2. heard \in Seq(Seq(Char))
            BY <3>1, ReceivedTexts
        <3> HIDE DEF heard
        <3>3. Seq(Payload) \subseteq Seq(Char)
            <4>1. Payload \subseteq Char
                BY DEF Payload
            <4> QED
                BY <4>1, Larger
        <3>4. port.labels \in Seq(Seq(Char))
            BY <3>1, <3>3, Larger
        <3> DEFINE known == port.labels
        <3>5. /\ known \in Seq(Seq(Char)) /\ Len(known) <= Len(heard)
              /\ \A k \in 1 .. Len(known) : known[k] = heard[k]
            BY <2>4, <3>4 DEF Begins
        <3> HIDE DEF known
        <3>6. IsPrefix(known, heard)
            BY <3>2, <3>5, Prefix
        <3> QED
            BY <3>6 DEF known
    <2>6. PICK j \in DOMAIN config.ports : device = config.ports[j]
        BY <2>2
    <2>7. /\ port.id = config.ports[j].id
          /\ port.info \in {<<>>, ExtendedInfo(config.ports[j])}
          /\ IsPrefix(port.labels, MasterReceives(config.ports[j].labels))
          /\ port.group \in {<<>>, config.ports[j].group}
          /\ port.state \in {<<>>, PortState(config.ports[j].id)}
          /\ port.more \in {<<>>, ExtendedState(config.ports[j].id)}
        BY <2>2, <2>4, <2>5, <2>6
    <2> QED
        BY <2>7 DEF port
<1>3. \A g \in DOMAIN groupCache : groupCache[g].link \in {<<>>, ParentOf(g)}
    BY <1>1 DEF TrueCache
<1> QED
    BY <1>2, <1>3 DEF NothingSwapped

\* Whatever the slave leaves out or sends for the wrong port, whatever it takes a request
\* for, and however often a query is repeated while the answers to the last one are still
\* under way: on a connection that is not disturbed no port gets the information, labels,
\* state or group of another one, and no group another one's parent.
THEOREM NothingIsSwapped == Spec => [](~fault /\ Distinct => NothingSwapped)
<1>1. Init => TruthInv /\ KnownInv
    BY InitKnown
<1>2. BulkInv /\ TruthInv /\ [Next]_vars => TruthInv'
    BY TruthKept
<1>3. (BulkInv /\ AnswersInv /\ TextsInv) /\ TruthInv /\ KnownInv /\ [Next]_vars => KnownInv'
    BY NextKnown
<1>4. BulkInv /\ KnownInv => (~fault /\ Distinct => NothingSwapped)
    BY KnownIsRight
<1> QED
    BY <1>1, <1>2, <1>3, <1>4, BothDirections, PTL DEF Spec

\* Together with the channels: while the requests fit the slave's buffer, the replies are
\* those to requests of the master, and what they say stays where it belongs.
THEOREM NothingIsMisattributed ==
    Spec => [](~fault /\ RequestsBuffered /\ Distinct => NothingMisattributed)
<1>1. (RequestsBuffered => RepliesRequested) /\ NothingSwapped
        => (RequestsBuffered => NothingMisattributed)
    BY DEF NothingMisattributed
<1> QED
    BY <1>1, RepliesAreRequested, NothingIsSwapped, PTL

=============================================================================
