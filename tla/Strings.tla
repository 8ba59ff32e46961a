------------------------------ MODULE Strings ------------------------------
(***************************************************************************)
(* Messages consist of parts: opdi_strings.c splits and joins them in the  *)
(* slave, Strings.java in the master.  Parts and texts are sequences of    *)
(* characters, and a character is a string of length one or a name for     *)
(* several that are never taken apart.                                     *)
(*                                                                         *)
(* A text that begins with a single separator is not modelled: no join     *)
(* makes one, and strings_split, which works in place, would write the end *)
(* of the empty first part into the first character of the second.         *)
(***************************************************************************)
EXTENDS Integers, SequencesExt

Blank == " "

-----------------------------------------------------------------------------
(* Joining                                                                 *)

\* A separator in a part is doubled.
Escaped(part, separator) ==
    FlattenSeq([i \in DOMAIN part |->
                   IF part[i] = separator THEN <<separator, separator>> ELSE <<part[i]>>])

Separated(wireParts, separator) ==
    FlattenSeq([i \in DOMAIN wireParts |->
                   IF i = 1 THEN wireParts[i] ELSE <<separator>> \o wireParts[i]])

\* The slave sends a blank for an empty part.
strings_join(parts, separator) ==
    Separated([i \in DOMAIN parts |->
                  IF parts[i] = <<>> THEN <<Blank>> ELSE Escaped(parts[i], separator)],
              separator)

\* strings_join fails when its position reaches maxLength - 1, where it needs room for
\* the end of the string.  It looks after every character of a part.
StringsOverflow(text, maxLength) == Len(text) >= maxLength - 1

\* The master also takes a blank for an empty part, and it doubles a leading blank.
JavaJoin(parts, separator) ==
    LET Wire(part) ==
            CASE part = <<>> -> <<Blank, Blank>>
              [] part # <<>> /\ Head(part) = Blank -> <<Blank>> \o Escaped(part, separator)
              [] OTHER -> Escaped(part, separator)
    IN Separated([i \in DOMAIN parts |-> Wire(parts[i])], separator)

-----------------------------------------------------------------------------
(* Splitting                                                               *)

\* What has been read of a text: the parts that are complete, the part at hand, and
\* whether a separator awaits the character after it.
Scanned(scan, c, separator) ==
    CASE c # separator /\ ~scan.open ->
           [parts |-> scan.parts, part |-> Append(scan.part, c), open |-> FALSE]
      [] c # separator /\ scan.open ->
           [parts |-> Append(scan.parts, scan.part), part |-> <<c>>, open |-> FALSE]
      [] c = separator /\ ~scan.open ->
           [parts |-> scan.parts, part |-> scan.part, open |-> TRUE]
      [] c = separator /\ scan.open ->
           [parts |-> scan.parts, part |-> Append(scan.part, separator), open |-> FALSE]

Scan(text, separator) ==
    LET scan[n \in 0 .. Len(text)] ==
            IF n = 0 THEN [parts |-> <<>>, part |-> <<>>, open |-> FALSE]
            ELSE Scanned(scan[n - 1], text[n], separator)
    IN scan[Len(text)]

\* Two separators stand for one that is part of the text, and at any other the text is cut.
Pieces(text, separator) ==
    LET scan == Scan(text, separator)
    IN IF scan.open THEN scan.parts \o <<scan.part, <<>>>> ELSE Append(scan.parts, scan.part)

TrimStart(part) ==
    LET kept == {i \in DOMAIN part : part[i] # Blank}
    IN IF kept = {} THEN <<>> ELSE SubSeq(part, Min(kept), Len(part))

TrimEnd(part) ==
    LET kept == {i \in DOMAIN part : part[i] # Blank}
    IN IF kept = {} THEN <<>> ELSE SubSeq(part, 1, Max(kept))

\* With trim, blanks at the start of every part are skipped, and those at the end of
\* every part but the last are cut off.
strings_split(text, separator, trim) ==
    LET pieces == Pieces(text, separator)
        Trimmed(i) == IF i = Len(pieces) THEN TrimStart(pieces[i])
                      ELSE TrimEnd(TrimStart(pieces[i]))
    IN IF trim THEN [i \in DOMAIN pieces |-> Trimmed(i)] ELSE pieces

removeLeadingBlank(part) ==
    IF part # <<>> /\ Head(part) = Blank THEN Tail(part) ELSE part

JavaSplit(text, separator) ==
    LET pieces == Pieces(text, separator)
    IN [i \in DOMAIN pieces |-> removeLeadingBlank(pieces[i])]

-----------------------------------------------------------------------------
(* What the receiver of joined parts gets, without a text in between.  The  *)
(* separator of a part that begins with one melts with the one before it.   *)

Unambiguous(parts, separator) ==
    \A i \in DOMAIN parts : i > 1 /\ parts[i] # <<>> => Head(parts[i]) # separator

\* From the slave to the master.
MasterReceives(parts) == [i \in DOMAIN parts |-> removeLeadingBlank(parts[i])]

\* From the master to the slave.
SlaveReceives(parts, trim) ==
    LET Doubled(part) == IF part = <<>> THEN <<Blank, Blank>>
                         ELSE IF Head(part) = Blank THEN <<Blank>> \o part ELSE part
    IN [i \in DOMAIN parts |->
           IF ~trim THEN Doubled(parts[i])
           ELSE IF i = Len(parts) THEN TrimStart(parts[i])
           ELSE TrimEnd(TrimStart(parts[i]))]

=============================================================================
