--------------------------- MODULE Strings_proofs ---------------------------
(***************************************************************************)
(* Splitting undoes joining, for parts and texts of any length: whatever   *)
(* parts the slave joins, the master takes out of the text again, and the  *)
(* other way round.                                                        *)
(*                                                                         *)
(* What reads a text from the left is defined by a recursive function of   *)
(* the number of characters read.  Such a function is the one that begins  *)
(* right and goes on right (Recursion), and what holds of it is proved by  *)
(* Induction on that number.                                               *)
(***************************************************************************)
EXTENDS Strings, SequenceTheorems, FiniteSetTheorems, WellFoundedInduction, TLAPS

-----------------------------------------------------------------------------
(* Numbers                                                                 *)

\* A set of numbers that is not empty has a least element.
LEMMA LeastNumber ==
    ASSUME NEW S \in SUBSET Nat, S # {}
    PROVE  \E n \in S : \A k \in S : n <= k
<1> DEFINE R == StrictSubsetOrdering(Nat)
           T == {0 .. n : n \in S}
<1>1. T \subseteq FiniteSubsetsOf(Nat) /\ T # {}
    <2>1. ASSUME NEW n \in S
          PROVE  0 .. n \in FiniteSubsetsOf(Nat)
        <3>1. n \in Int /\ 0 \in Int
            OBVIOUS
        <3>2. IsFiniteSet(0 .. n) /\ 0 .. n \in SUBSET Nat
            BY <3>1, FS_Interval
        <3> QED
            BY <3>2 DEF FiniteSubsetsOf
    <2> QED
        BY <2>1
<1>2. PICK x \in T : \A y \in T : <<y, x>> \notin R
    <2>1. IsWellFoundedOn(R, FiniteSubsetsOf(Nat))
        BY FS_StrictSubsetOrderingWellFounded
    <2> HIDE DEF R, T
    <2> QED
        BY <1>1, <2>1, WFMin
<1>3. PICK n \in S : x = 0 .. n
    BY <1>2
<1>4. ASSUME NEW k \in S, k < n
      PROVE  FALSE
    <2>1. n \in 0 .. n /\ n \notin 0 .. k /\ 0 .. k \subseteq 0 .. n
        BY <1>4
    <2>2. <<0 .. k, 0 .. n>> \in R
        BY <2>1 DEF StrictSubsetOrdering
    <2> QED
        BY <1>2, <1>3, <2>2
<1> QED
    BY <1>4

\* Induction up to a number: a set with 0 and with the next of each of its numbers has
\* them all.
LEMMA Induction ==
    ASSUME NEW N \in Nat, NEW S, 0 \in S,
           \A n \in Nat : n < N /\ n \in S => n + 1 \in S
    PROVE  0 .. N \subseteq S
<1> SUFFICES ASSUME NEW k \in 0 .. N, k \notin S
             PROVE  FALSE
    OBVIOUS
<1> DEFINE missing == {n \in 0 .. N : n \notin S}
<1>1. missing \in SUBSET Nat /\ missing # {}
    OBVIOUS
<1>2. PICK n \in missing : \A m \in missing : n <= m
    <2> HIDE DEF missing
    <2> QED
        BY <1>1, LeastNumber
<1>3. n # 0 /\ n - 1 \in Nat /\ n - 1 < N
    BY <1>2
<1>4. n - 1 \in S
    BY <1>2, <1>3
<1>5. (n - 1) + 1 \in S
    BY <1>3, <1>4
<1> QED
    BY <1>2, <1>5

\* f begins with a and goes on with step.
Recursive(f, A, a, N, step) ==
    /\ f \in [0 .. N -> A]
    /\ f[0] = a
    /\ \A n \in 1 .. N : f[n] = step[n][f[n - 1]]

\* There is such a function.
LEMMA Recursion ==
    ASSUME NEW A, NEW a \in A, NEW N \in Nat, NEW step \in [1 .. N -> [A -> A]]
    PROVE  \E f : Recursive(f, A, a, N, step)
<1> DEFINE Goes(f, k) == f[0] = a /\ \A n \in 1 .. k : f[n] = step[n][f[n - 1]]
           S == {k \in Nat : k <= N => \E f \in [0 .. N -> A] : Goes(f, k)}
<1>1. 0 \in S
    <2>1. [n \in 0 .. N |-> a] \in [0 .. N -> A]
        OBVIOUS
    <2>2. Goes([n \in 0 .. N |-> a], 0)
        OBVIOUS
    <2> QED
        BY <2>1, <2>2
<1>2. ASSUME NEW k \in Nat, k < N, k \in S
      PROVE  k + 1 \in S
    <2>1. PICK f \in [0 .. N -> A] : Goes(f, k)
        BY <1>2
    <2> DEFINE e == step[k + 1][f[k]]
               g == [f EXCEPT ![k + 1] = e]
    <2>2. k + 1 \in 1 .. N /\ k \in 0 .. N
        BY <1>2
    <2>3. e \in A
        <3>1. step[k + 1] \in [A -> A] /\ f[k] \in A
            BY <2>2
        <3> QED
            BY <3>1
    <2>4. g \in [0 .. N -> A]
        BY <2>3
    <2>5. g[k + 1] = e /\ \A n \in 0 .. k : g[n] = f[n]
        BY <2>2
    <2> HIDE DEF g
    <2>6. g[0] = a
        BY <2>1, <2>5
    <2>7. ASSUME NEW n \in 1 .. k + 1
          PROVE  g[n] = step[n][g[n - 1]]
        <3>1. n - 1 \in 0 .. k /\ g[n - 1] = f[n - 1]
            BY <2>5
        <3>2. CASE n = k + 1
            <4>1. n - 1 = k
                BY <3>2
            <4> QED
                BY <2>5, <3>1, <3>2, <4>1
        <3>3. CASE n \in 1 .. k
            <4>1. g[n] = f[n]
                BY <2>5, <3>3
            <4> QED
                BY <2>1, <3>1, <3>3, <4>1
        <3> QED
            BY <3>2, <3>3
    <2>8. Goes(g, k + 1)
        BY <2>6, <2>7
    <2> QED
        BY <2>4, <2>8
<1>3. 0 .. N \subseteq S
    <2> HIDE DEF S
    <2> QED
        BY <1>1, <1>2, Induction
<1>4. N \in S
    BY <1>3
<1> QED
    BY <1>4 DEF Recursive

\* Two functions that begin alike and go on alike are alike.
GoOnAlike(f, g, N) ==
    f[0] = g[0] /\ \A n \in 1 .. N : f[n - 1] = g[n - 1] => f[n] = g[n]

AreAlike(f, g, N) == \A n \in 0 .. N : f[n] = g[n]

\* Two functions that start alike and go on alike are the same up to N.
LEMMA Alike ==
    ASSUME NEW N \in Nat, NEW f, NEW g, GoOnAlike(f, g, N)
    PROVE  AreAlike(f, g, N)
<1> DEFINE S == {n \in Nat : f[n] = g[n]}
<1>1. 0 \in S
    BY DEF GoOnAlike
<1>2. ASSUME NEW n \in Nat, n < N, n \in S
      PROVE  n + 1 \in S
    <2>1. n + 1 \in 1 .. N /\ (n + 1) - 1 = n
        BY <1>2
    <2> QED
        BY <1>2, <2>1 DEF GoOnAlike
<1>3. 0 .. N \subseteq S
    <2> HIDE DEF S
    <2> QED
        BY <1>1, <1>2, Induction
<1> QED
    BY <1>3 DEF AreAlike

-----------------------------------------------------------------------------
(* Sequences                                                               *)

\* Induction over sequences: a set with the empty sequence and with every continuation of
\* each of its sequences has them all.
LEMMA SequenceInduction ==
    ASSUME NEW T, NEW P, <<>> \in P,
           \A s \in Seq(T), e \in T : s \in P => Append(s, e) \in P
    PROVE  Seq(T) \subseteq P
<1> SUFFICES ASSUME NEW t \in Seq(T)
             PROVE  t \in P
    OBVIOUS
<1> DEFINE S == {n \in Nat : n <= Len(t) => SubSeq(t, 1, n) \in P}
<1>1. 0 \in S
    <2>1. SubSeq(t, 1, 0) = <<>>
        BY SubSeqEmpty
    <2> QED
        BY <2>1
<1>2. ASSUME NEW n \in Nat, n < Len(t), n \in S
      PROVE  n + 1 \in S
    <2> DEFINE s == SubSeq(t, 1, n)
    <2>1. s \in P
        BY <1>2
    <2>2. n + 1 \in 1 .. Len(t) /\ 1 \in 1 .. Len(t) /\ t[n + 1] \in T
        BY <1>2
    <2>3. s \in Seq(T)
        BY <1>2, SubSeqProperties
    <2>4. SubSeq(t, 1, n + 1) = Append(s, t[n + 1])
        <3>1. /\ SubSeq(t, 1, n + 1) \in Seq(T) /\ Len(SubSeq(t, 1, n + 1)) = n + 1
              /\ \A i \in 1 .. n + 1 : SubSeq(t, 1, n + 1)[i] = t[i]
            BY <1>2
        <3>2. Len(s) = n /\ \A i \in 1 .. n : s[i] = t[i]
            BY <1>2
        <3> HIDE DEF s
        <3>3. /\ Append(s, t[n + 1]) \in Seq(T) /\ Len(Append(s, t[n + 1])) = n + 1
              /\ \A i \in 1 .. n + 1 : Append(s, t[n + 1])[i] = t[i]
            BY <2>2, <2>3, <3>2
        <3> QED
            BY <3>1, <3>3, SeqEqual
    <2>5. Append(s, t[n + 1]) \in P
        <3> HIDE DEF s
        <3> QED
            BY <2>1, <2>2, <2>3
    <2>6. SubSeq(t, 1, n + 1) \in P
        BY <2>4, <2>5
    <2> QED
        BY <2>6
<1>3. 0 .. Len(t) \subseteq S
    <2> HIDE DEF S
    <2> QED
        BY <1>1, <1>2, Induction, LenProperties
<1>4. SubSeq(t, 1, Len(t)) \in P
    BY <1>3
<1> QED
    BY <1>4, SubSeqFull

\* What is concatenated, piece by piece.
LEMMA FlattenSteps ==
    ASSUME NEW C, NEW fs \in Seq(Seq(C))
    PROVE  \E f \in [0 .. Len(fs) -> Seq(C)] :
              /\ f[0] = <<>> /\ f[Len(fs)] = FlattenSeq(fs)
              /\ \A n \in 1 .. Len(fs) : f[n] = f[n - 1] \o fs[n]
<1> DEFINE N == Len(fs)
           step == [n \in 1 .. N |-> [s \in Seq(C) |-> s \o fs[n]]]
           Flat(f) == f = [i \in 1 .. N |-> IF i = 1 THEN fs[i] ELSE f[i - 1] \o fs[i]]
           flat == CHOOSE f : Flat(f)
<1>1. N \in Nat /\ \A n \in 1 .. N : fs[n] \in Seq(C)
    OBVIOUS
<1> HIDE DEF N
<1>2. step \in [1 .. N -> [Seq(C) -> Seq(C)]]
    <2>1. ASSUME NEW n \in 1 .. N
          PROVE  [s \in Seq(C) |-> s \o fs[n]] \in [Seq(C) -> Seq(C)]
        BY <1>1
    <2> QED
        BY <2>1
<1>3. <<>> \in Seq(C)
    OBVIOUS
<1>4. PICK f : Recursive(f, Seq(C), <<>>, N, step)
    <2> HIDE DEF step
    <2> QED
        BY <1>1, <1>2, <1>3, Recursion
<1>5. /\ f \in [0 .. N -> Seq(C)] /\ f[0] = <<>>
      /\ \A n \in 1 .. N : f[n] = step[n][f[n - 1]]
    BY <1>4 DEF Recursive
<1>6. \A n \in 1 .. N : f[n] = f[n - 1] \o fs[n]
    <2> SUFFICES ASSUME NEW n \in 1 .. N
                 PROVE  f[n] = f[n - 1] \o fs[n]
        OBVIOUS
    <2>1. n - 1 \in 0 .. N /\ f[n - 1] \in Seq(C)
        BY <1>1, <1>5
    <2>2. step[n][f[n - 1]] = f[n - 1] \o fs[n]
        BY <2>1
    <2> QED
        BY <1>5, <2>2
<1> HIDE DEF step
<1>7. f[N] = FlattenSeq(fs)
    <2>1. CASE N = 0
        BY <1>5, <2>1 DEF FlattenSeq, N
    <2>2. CASE N # 0
        <3> DEFINE g == [i \in 1 .. N |-> f[i]]
        <3>1. Flat(g)
            <4>1. ASSUME NEW i \in 1 .. N
                  PROVE  g[i] = IF i = 1 THEN fs[i] ELSE g[i - 1] \o fs[i]
                <5>1. CASE i = 1
                    <6>0. f[1] = f[1 - 1] \o fs[1] /\ fs[1] \in Seq(C)
                        BY <1>1, <1>6, <5>1
                    <6>1. f[1] = f[0] \o fs[1] /\ fs[1] \in Seq(C)
                        BY <6>0
                    <6>2. f[1] = fs[1]
                        BY <1>5, <6>1, ConcatEmptySeq
                    <6> QED
                        BY <5>1, <6>2
                <5>2. CASE i # 1
                    <6>1. i - 1 \in 1 .. N
                        BY <1>1, <5>2
                    <6> QED
                        BY <1>6, <5>2, <6>1
                <5> QED
                    BY <5>1, <5>2
            <4>2. g = [i \in 1 .. N |-> g[i]]
                OBVIOUS
            <4> HIDE DEF g
            <4> QED
                BY <4>1, <4>2
        <3>2. Flat(flat)
            <4> HIDE DEF g, Flat
            <4> QED
                BY <3>1
        <3> HIDE DEF flat, g
        <3> DEFINE h == [i \in 0 .. N |-> IF i = 0 THEN <<>> ELSE flat[i]]
        <3>3. ASSUME NEW i \in 1 .. N
              PROVE  h[i] = h[i - 1] \o fs[i]
            <4>1. flat[i] = IF i = 1 THEN fs[i] ELSE flat[i - 1] \o fs[i]
                BY <3>2
            <4>2. h[i] = flat[i]
                BY <1>1
            <4>3. CASE i = 1
                <5>1. h[i - 1] = <<>> /\ fs[i] \in Seq(C) /\ h[i] = fs[i]
                    BY <1>1, <4>1, <4>2, <4>3
                <5> HIDE DEF h
                <5> QED
                    BY <5>1, ConcatEmptySeq
            <4>4. CASE i # 1
                <5>1. h[i - 1] = flat[i - 1]
                    BY <1>1, <4>4
                <5> HIDE DEF h
                <5> QED
                    BY <4>1, <4>2, <4>4, <5>1
            <4> QED
                BY <4>3, <4>4
        <3>4. h[0] = f[0] /\ h[N] = flat[N]
            BY <1>1, <1>5, <2>2
        <3> HIDE DEF h
        <3>5. \A n \in 0 .. N : h[n] = f[n]
            <4>1. h[0] = f[0]
                BY <3>4
            <4>0. N \in Nat
                BY <1>1
            <4>2. \A n \in 1 .. N : h[n - 1] = f[n - 1] => h[n] = f[n]
                BY <1>6, <3>3
            <4> QED
                BY <4>0, <4>1, <4>2, Alike DEF GoOnAlike, AreAlike
        <3>6. FlattenSeq(fs) = flat[N]
            BY <2>2 DEF FlattenSeq, flat, N
        <3> QED
            BY <1>1, <3>4, <3>5, <3>6
    <2> QED
        BY <2>1, <2>2
<1> QED
    BY <1>5, <1>6, <1>7 DEF N

\* The concatenation is a sequence of the same elements, and grows with what is appended.
LEMMA FlattenEmpty == FlattenSeq(<<>>) = <<>>
    BY DEF FlattenSeq

\* Flattening gives a sequence of the elements.
LEMMA FlattenType ==
    ASSUME NEW C, NEW fs \in Seq(Seq(C))
    PROVE  FlattenSeq(fs) \in Seq(C)
<1>1. PICK f \in [0 .. Len(fs) -> Seq(C)] : f[Len(fs)] = FlattenSeq(fs)
    BY FlattenSteps
<1>2. Len(fs) \in 0 .. Len(fs)
    OBVIOUS
<1> QED
    BY <1>1, <1>2

\* One sequence more is flattened behind the others.
LEMMA FlattenAppend ==
    ASSUME NEW C, NEW fs \in Seq(Seq(C)), NEW x \in Seq(C)
    PROVE  FlattenSeq(Append(fs, x)) = FlattenSeq(fs) \o x
<1> DEFINE N == Len(fs)
           gs == Append(fs, x)
<1>1. /\ N \in Nat /\ gs \in Seq(Seq(C)) /\ Len(gs) = N + 1
      /\ gs[N + 1] = x /\ \A n \in 1 .. N : gs[n] = fs[n]
    OBVIOUS
<1>2. PICK f \in [0 .. N -> Seq(C)] :
              /\ f[0] = <<>> /\ f[N] = FlattenSeq(fs)
              /\ \A n \in 1 .. N : f[n] = f[n - 1] \o fs[n]
    BY FlattenSteps
<1> HIDE DEF gs, N
<1>3. PICK g \in [0 .. Len(gs) -> Seq(C)] :
              /\ g[0] = <<>> /\ g[Len(gs)] = FlattenSeq(gs)
              /\ \A n \in 1 .. Len(gs) : g[n] = g[n - 1] \o gs[n]
    BY <1>1, FlattenSteps
<1>4. \A n \in 0 .. N : f[n] = g[n]
    <2>1. f[0] = g[0]
        BY <1>2, <1>3
    <2>2. ASSUME NEW n \in 1 .. N, f[n - 1] = g[n - 1]
          PROVE  f[n] = g[n]
        <3>1. n \in 1 .. Len(gs) /\ gs[n] = fs[n]
            BY <1>1
        <3>2. g[n] = g[n - 1] \o gs[n] /\ f[n] = f[n - 1] \o fs[n]
            BY <1>2, <1>3, <3>1
        <3> QED
            BY <2>2, <3>1, <3>2
    <2>3. N \in Nat
        BY <1>1
    <2>4. \A n \in 1 .. N : f[n - 1] = g[n - 1] => f[n] = g[n]
        BY <2>2
    <2>5. GoOnAlike(f, g, N)
        BY <2>1, <2>4 DEF GoOnAlike
    <2>6. AreAlike(f, g, N)
        BY <2>3, <2>5, Alike
    <2> QED
        BY <2>6 DEF AreAlike
<1>5. N + 1 \in 1 .. Len(gs) /\ (N + 1) - 1 = N /\ N \in 0 .. N
    BY <1>1
<1>6. g[N + 1] = g[N] \o gs[N + 1]
    BY <1>3, <1>5
<1> QED
    BY <1>1, <1>2, <1>3, <1>4, <1>5, <1>6 DEF gs, N

\* Flattening two sequences of sequences one after the other.
LEMMA FlattenConcat ==
    ASSUME NEW C, NEW fs \in Seq(Seq(C)), NEW gs \in Seq(Seq(C))
    PROVE  FlattenSeq(fs \o gs) = FlattenSeq(fs) \o FlattenSeq(gs)
<1> DEFINE P == {s \in Seq(Seq(C)) : FlattenSeq(fs \o s) = FlattenSeq(fs) \o FlattenSeq(s)}
<1>1. <<>> \in P
    <2>1. fs \o <<>> = fs /\ <<>> \in Seq(Seq(C))
        BY ConcatEmptySeq
    <2>2. FlattenSeq(fs) \o <<>> = FlattenSeq(fs)
        BY FlattenType, ConcatEmptySeq
    <2> QED
        BY <2>1, <2>2, FlattenEmpty
<1>2. ASSUME NEW s \in Seq(Seq(C)), NEW e \in Seq(C), s \in P
      PROVE  Append(s, e) \in P
    <2>1. Append(s, e) \in Seq(Seq(C)) /\ fs \o s \in Seq(Seq(C))
        OBVIOUS
    <2>2. fs \o Append(s, e) = Append(fs \o s, e)
        OBVIOUS
    <2>3. FlattenSeq(Append(fs \o s, e)) = FlattenSeq(fs \o s) \o e
        BY <2>1, FlattenAppend
    <2>4. FlattenSeq(Append(s, e)) = FlattenSeq(s) \o e
        BY FlattenAppend
    <2>5. (FlattenSeq(fs) \o FlattenSeq(s)) \o e = FlattenSeq(fs) \o (FlattenSeq(s) \o e)
        <3>1. FlattenSeq(fs) \in Seq(C) /\ FlattenSeq(s) \in Seq(C)
            BY FlattenType
        <3> QED
            BY <3>1, ConcatAssociative
    <2> QED
        BY <1>2, <2>1, <2>2, <2>3, <2>4, <2>5
<1>3. Seq(Seq(C)) \subseteq P
    <2> HIDE DEF P
    <2> QED
        BY <1>1, <1>2, SequenceInduction
<1> QED
    BY <1>3

\* The first sequence comes first.
LEMMA FlattenFirst ==
    ASSUME NEW C, NEW x \in Seq(C), NEW fs \in Seq(Seq(C))
    PROVE  FlattenSeq(<<x>> \o fs) = x \o FlattenSeq(fs)
<1>1. <<x>> \in Seq(Seq(C)) /\ <<x>> = Append(<<>>, x)
    OBVIOUS
<1>2. <<>> \in Seq(Seq(C))
    OBVIOUS
<1>3. FlattenSeq(<<x>>) = <<>> \o x
    BY <1>1, <1>2, FlattenAppend, FlattenEmpty
<1>4. FlattenSeq(<<x>>) = x
    BY <1>3, ConcatEmptySeq
<1> QED
    BY <1>1, <1>4, FlattenConcat

-----------------------------------------------------------------------------
(* Splitting a text, one character after the other                         *)

\* The states of the scan, and the one before the first character.
ScanState(C) == [parts : Seq(Seq(C)), part : Seq(C), open : BOOLEAN]
ScanStart == [parts |-> <<>>, part |-> <<>>, open |-> FALSE]

\* The three cases of a character, as far as splitting is concerned.
LEMMA ScannedCases ==
    ASSUME NEW C, NEW separator \in C, NEW scan \in ScanState(C), NEW c \in C
    PROVE  /\ Scanned(scan, c, separator) \in ScanState(C)
           /\ c # separator /\ ~scan.open =>
                Scanned(scan, c, separator) =
                  [parts |-> scan.parts, part |-> Append(scan.part, c), open |-> FALSE]
           /\ c # separator /\ scan.open =>
                Scanned(scan, c, separator) =
                  [parts |-> Append(scan.parts, scan.part), part |-> <<c>>, open |-> FALSE]
           /\ c = separator /\ ~scan.open =>
                Scanned(scan, c, separator) =
                  [parts |-> scan.parts, part |-> scan.part, open |-> TRUE]
           /\ c = separator /\ scan.open =>
                Scanned(scan, c, separator) =
                  [parts |-> scan.parts, part |-> Append(scan.part, separator), open |-> FALSE]
<1>1. scan.parts \in Seq(Seq(C)) /\ scan.part \in Seq(C) /\ scan.open \in BOOLEAN
    BY DEF ScanState
<1>2. /\ Append(scan.part, c) \in Seq(C) /\ Append(scan.part, separator) \in Seq(C)
      /\ <<c>> \in Seq(C) /\ Append(scan.parts, scan.part) \in Seq(Seq(C))
    BY <1>1
<1>3. CASE c # separator /\ ~scan.open
    <2>1. Scanned(scan, c, separator) =
            [parts |-> scan.parts, part |-> Append(scan.part, c), open |-> FALSE]
        BY <1>3 DEF Scanned
    <2> QED
        BY <1>1, <1>2, <1>3, <2>1 DEF ScanState
<1>4. CASE c # separator /\ scan.open
    <2>1. Scanned(scan, c, separator) =
            [parts |-> Append(scan.parts, scan.part), part |-> <<c>>, open |-> FALSE]
        BY <1>4 DEF Scanned
    <2> QED
        BY <1>1, <1>2, <1>4, <2>1 DEF ScanState
<1>5. CASE c = separator /\ ~scan.open
    <2>1. Scanned(scan, c, separator) =
            [parts |-> scan.parts, part |-> scan.part, open |-> TRUE]
        BY <1>5 DEF Scanned
    <2> QED
        BY <1>1, <1>2, <1>5, <2>1 DEF ScanState
<1>6. CASE c = separator /\ scan.open
    <2>1. Scanned(scan, c, separator) =
            [parts |-> scan.parts, part |-> Append(scan.part, separator), open |-> FALSE]
        BY <1>6 DEF Scanned
    <2> QED
        BY <1>1, <1>2, <1>6, <2>1 DEF ScanState
<1> QED
    BY <1>3, <1>4, <1>5, <1>6

\* f are the states of the scan.
Scans(f, text, separator, C) ==
    /\ f \in [0 .. Len(text) -> ScanState(C)]
    /\ f[0] = ScanStart /\ f[Len(text)] = Scan(text, separator)
    /\ \A n \in 1 .. Len(text) : f[n] = Scanned(f[n - 1], text[n], separator)

\* There is the function the scan defines, with its values at every place.
LEMMA ScanSteps ==
    ASSUME NEW C, NEW separator \in C, NEW text \in Seq(C)
    PROVE  \E f : Scans(f, text, separator, C)
<1> DEFINE N == Len(text)
           A == ScanState(C)
           step == [n \in 1 .. N |-> [s \in A |-> Scanned(s, text[n], separator)]]
           IsScan(f) == f = [n \in 0 .. N |-> IF n = 0 THEN ScanStart
                                              ELSE Scanned(f[n - 1], text[n], separator)]
           scan == CHOOSE f : IsScan(f)
<1>1. N \in Nat /\ \A n \in 1 .. N : text[n] \in C
    OBVIOUS
<1> HIDE DEF N
<1>2. step \in [1 .. N -> [A -> A]]
    <2>1. ASSUME NEW n \in 1 .. N
          PROVE  [s \in A |-> Scanned(s, text[n], separator)] \in [A -> A]
        <3>1. \A s \in A : Scanned(s, text[n], separator) \in A
            BY <1>1, ScannedCases
        <3> QED
            BY <3>1
    <2> QED
        BY <2>1
<1>3. ScanStart \in A
    BY DEF ScanStart, ScanState
<1>4. PICK f : Recursive(f, A, ScanStart, N, step)
    <2> HIDE DEF step, A
    <2> QED
        BY <1>1, <1>2, <1>3, Recursion
<1>5. /\ f \in [0 .. N -> A] /\ f[0] = ScanStart
      /\ \A n \in 1 .. N : f[n] = step[n][f[n - 1]]
    BY <1>4 DEF Recursive
<1>6. \A n \in 1 .. N : f[n] = Scanned(f[n - 1], text[n], separator)
    <2> SUFFICES ASSUME NEW n \in 1 .. N
                 PROVE  f[n] = Scanned(f[n - 1], text[n], separator)
        OBVIOUS
    <2> HIDE DEF A
    <2>1. n - 1 \in 0 .. N /\ f[n - 1] \in A
        BY <1>1, <1>5
    <2>2. step[n][f[n - 1]] = Scanned(f[n - 1], text[n], separator)
        BY <2>1
    <2> QED
        BY <1>5, <2>2
<1> HIDE DEF step, A
<1>7. IsScan(f)
    <2>1. f = [n \in 0 .. N |-> f[n]]
        BY <1>5
    <2>2. \A n \in 0 .. N : f[n] = IF n = 0 THEN ScanStart
                                   ELSE Scanned(f[n - 1], text[n], separator)
        BY <1>1, <1>5, <1>6
    <2> QED
        BY <2>1, <2>2
<1>8. IsScan(scan)
    <2> HIDE DEF IsScan
    <2> QED
        BY <1>7
<1> HIDE DEF scan
<1>9. AreAlike(f, scan, N)
    <2>1. \A n \in 0 .. N : scan[n] = IF n = 0 THEN ScanStart
                                      ELSE Scanned(scan[n - 1], text[n], separator)
        BY <1>8
    <2>2. scan[0] = ScanStart
        BY <1>1, <2>1
    <2>3. \A n \in 1 .. N : scan[n] = Scanned(scan[n - 1], text[n], separator)
        BY <1>1, <2>1
    <2>4. GoOnAlike(f, scan, N)
        BY <1>5, <1>6, <2>2, <2>3 DEF GoOnAlike
    <2> QED
        BY <1>1, <2>4, Alike
<1>10. Scan(text, separator) = scan[N]
    BY DEF Scan, scan, N, ScanStart
<1>11. f[N] = scan[N]
    BY <1>1, <1>9 DEF AreAlike
<1> QED
    BY <1>5, <1>6, <1>10, <1>11 DEF A, N, Scans

\* The scan of a text ends in a state of the scan.
LEMMA ScanType ==
    ASSUME NEW C, NEW separator \in C, NEW text \in Seq(C)
    PROVE  Scan(text, separator) \in ScanState(C)
<1>1. PICK f : Scans(f, text, separator, C)
    BY ScanSteps
<1>2. Len(text) \in 0 .. Len(text)
    OBVIOUS
<1> QED
    BY <1>1, <1>2 DEF Scans

\* Nothing to scan leaves the initial state.
LEMMA ScanEmpty ==
    ASSUME NEW C, NEW separator \in C
    PROVE  Scan(<<>>, separator) = ScanStart
<1>1. <<>> \in Seq(C) /\ Len(<<>>) = 0
    OBVIOUS
<1>2. PICK f : Scans(f, <<>>, separator, C)
    BY <1>1, ScanSteps
<1> QED
    BY <1>1, <1>2 DEF Scans

\* One more character is one more step of the scan.
LEMMA ScanAppend ==
    ASSUME NEW C, NEW separator \in C, NEW text \in Seq(C), NEW c \in C
    PROVE  Scan(Append(text, c), separator) = Scanned(Scan(text, separator), c, separator)
<1> DEFINE N == Len(text)
           longer == Append(text, c)
<1>1. /\ N \in Nat /\ longer \in Seq(C) /\ Len(longer) = N + 1
      /\ longer[N + 1] = c /\ \A n \in 1 .. N : longer[n] = text[n]
    OBVIOUS
<1>0. PICK f : Scans(f, text, separator, C)
    BY ScanSteps
<1>2. /\ f[0] = ScanStart /\ f[N] = Scan(text, separator)
      /\ \A n \in 1 .. N : f[n] = Scanned(f[n - 1], text[n], separator)
    BY <1>0 DEF Scans
<1> HIDE DEF longer, N
<1>8. PICK g : Scans(g, longer, separator, C)
    BY <1>1, ScanSteps
<1>3. /\ g[0] = ScanStart /\ g[Len(longer)] = Scan(longer, separator)
      /\ \A n \in 1 .. Len(longer) : g[n] = Scanned(g[n - 1], longer[n], separator)
    BY <1>8 DEF Scans
<1>4. AreAlike(f, g, N)
    <2>1. f[0] = g[0]
        BY <1>2, <1>3
    <2>2. ASSUME NEW n \in 1 .. N, f[n - 1] = g[n - 1]
          PROVE  f[n] = g[n]
        <3>1. n \in 1 .. Len(longer) /\ longer[n] = text[n]
            BY <1>1
        <3>2. g[n] = Scanned(g[n - 1], longer[n], separator)
              /\ f[n] = Scanned(f[n - 1], text[n], separator)
            BY <1>2, <1>3, <3>1
        <3> QED
            BY <2>2, <3>1, <3>2
    <2>3. N \in Nat
        BY <1>1
    <2>4. \A n \in 1 .. N : f[n - 1] = g[n - 1] => f[n] = g[n]
        BY <2>2
    <2>5. GoOnAlike(f, g, N)
        BY <2>1, <2>4 DEF GoOnAlike
    <2> QED
        BY <2>3, <2>5, Alike
<1>5. N + 1 \in 1 .. Len(longer) /\ (N + 1) - 1 = N
    BY <1>1
<1>6. g[N + 1] = Scanned(g[N], c, separator)
    BY <1>1, <1>3, <1>5
<1>7. f[N] = g[N]
    BY <1>1, <1>4 DEF AreAlike
<1> QED
    BY <1>1, <1>2, <1>3, <1>6, <1>7 DEF longer

\* A part with its separators doubled, one more character.
Escape(c, separator) == IF c = separator THEN <<separator, separator>> ELSE <<c>>

\* Nothing to escape.
LEMMA EscapedEmpty == \A separator : Escaped(<<>>, separator) = <<>>
    BY FlattenEmpty DEF Escaped

\* An escaped part is a sequence of characters.
LEMMA EscapedType ==
    ASSUME NEW C, NEW separator \in C, NEW part \in Seq(C)
    PROVE  /\ [i \in DOMAIN part |-> Escape(part[i], separator)] \in Seq(Seq(C))
           /\ Escaped(part, separator) =
                FlattenSeq([i \in DOMAIN part |-> Escape(part[i], separator)])
           /\ Escaped(part, separator) \in Seq(C)
<1> DEFINE s == [i \in DOMAIN part |-> Escape(part[i], separator)]
<1>1. \A i \in DOMAIN part : Escape(part[i], separator) \in Seq(C)
    BY DEF Escape
<1>2. s \in Seq(Seq(C))
    <2>1. DOMAIN part = 1 .. Len(part) /\ Len(part) \in Nat
        OBVIOUS
    <2> QED
        BY <1>1, <2>1
<1>3. Escaped(part, separator) = FlattenSeq(s)
    BY DEF Escaped, Escape
<1> HIDE DEF s
<1> QED
    BY <1>2, <1>3, FlattenType DEF s

\* One character more is escaped behind the others.
LEMMA EscapedAppend ==
    ASSUME NEW C, NEW separator \in C, NEW part \in Seq(C), NEW c \in C
    PROVE  /\ Escape(c, separator) \in Seq(C)
           /\ Escaped(Append(part, c), separator)
                = Escaped(part, separator) \o Escape(c, separator)
<1> DEFINE s == [i \in DOMAIN part |-> Escape(part[i], separator)]
           longer == Append(part, c)
           t == [i \in DOMAIN longer |-> Escape(longer[i], separator)]
           d == Escape(c, separator)
<1>1. d \in Seq(C)
    BY DEF Escape
<1>2. /\ longer \in Seq(C) /\ Len(longer) = Len(part) + 1 /\ Len(part) \in Nat
      /\ DOMAIN longer = 1 .. Len(part) + 1 /\ DOMAIN part = 1 .. Len(part)
      /\ longer[Len(part) + 1] = c /\ \A i \in 1 .. Len(part) : longer[i] = part[i]
    OBVIOUS
<1> HIDE DEF longer
<1>3. /\ s \in Seq(Seq(C)) /\ Escaped(part, separator) = FlattenSeq(s)
      /\ t \in Seq(Seq(C)) /\ Escaped(longer, separator) = FlattenSeq(t)
    BY <1>2, EscapedType
<1>4. /\ Len(s) = Len(part) /\ \A i \in 1 .. Len(part) : s[i] = Escape(part[i], separator)
      /\ Len(t) = Len(part) + 1
      /\ \A i \in 1 .. Len(part) + 1 : t[i] = Escape(longer[i], separator)
    BY <1>2
<1> HIDE DEF s, t, d
<1>5. t = Append(s, d)
    <2>1. /\ Append(s, d) \in Seq(Seq(C)) /\ Len(Append(s, d)) = Len(part) + 1
          /\ Append(s, d)[Len(part) + 1] = d
          /\ \A i \in 1 .. Len(part) : Append(s, d)[i] = s[i]
        BY <1>1, <1>2, <1>3, <1>4, AppendProperties
    <2>2. \A i \in 1 .. Len(part) + 1 : Append(s, d)[i] = t[i]
        BY <1>2, <1>4, <2>1 DEF d
    <2> QED
        BY <1>3, <1>4, <2>1, <2>2, SeqEqual
<1>6. FlattenSeq(t) = FlattenSeq(s) \o d
    BY <1>1, <1>3, <1>5, FlattenAppend
<1> QED
    BY <1>1, <1>3, <1>6 DEF d, longer

\* A part that is taken in after something of it, or at the beginning of the text: its
\* doubled separators become single again.
LEMMA ScanContinued ==
    ASSUME NEW C, NEW separator \in C, NEW text \in Seq(C), ~Scan(text, separator).open
    PROVE  \A p \in Seq(C) :
              Scan(text \o Escaped(p, separator), separator) =
                [parts |-> Scan(text, separator).parts,
                 part |-> Scan(text, separator).part \o p, open |-> FALSE]
<1> DEFINE S == Scan(text, separator)
           After(p) == Scan(text \o Escaped(p, separator), separator)
           P == {p \in Seq(C) :
                   After(p) = [parts |-> S.parts, part |-> S.part \o p, open |-> FALSE]}
<1>1. /\ S \in ScanState(C) /\ S = [parts |-> S.parts, part |-> S.part, open |-> S.open]
      /\ S.parts \in Seq(Seq(C)) /\ S.part \in Seq(C) /\ S.open = FALSE
    BY ScanType DEF ScanState
<1>2. <<>> \in P
    <2>1. text \o Escaped(<<>>, separator) = text
        BY EscapedEmpty, ConcatEmptySeq
    <2>2. After(<<>>) = S
        BY <2>1
    <2> HIDE DEF S, After
    <2>3. S.part \o <<>> = S.part /\ <<>> \in Seq(C)
        BY <1>1, ConcatEmptySeq
    <2> QED
        BY <1>1, <2>2, <2>3
<1>3. ASSUME NEW p \in Seq(C), NEW c \in C, p \in P
      PROVE  Append(p, c) \in P
    <2> DEFINE before == text \o Escaped(p, separator)
               state == [parts |-> S.parts, part |-> S.part \o p, open |-> FALSE]
    <2>1. Scan(before, separator) = state
        BY <1>3
    <2>2. /\ Escaped(p, separator) \in Seq(C) /\ before \in Seq(C)
          /\ Append(p, c) \in Seq(C) /\ S.part \o p \in Seq(C)
        <3>1. Escaped(p, separator) \in Seq(C)
            BY EscapedType
        <3> HIDE DEF S
        <3> QED
            BY <1>1, <3>1
    <2>3. text \o Escaped(Append(p, c), separator) = before \o Escape(c, separator)
        <3>1. /\ Escape(c, separator) \in Seq(C)
              /\ Escaped(Append(p, c), separator)
                   = Escaped(p, separator) \o Escape(c, separator)
            BY EscapedAppend
        <3>2. (text \o Escaped(p, separator)) \o Escape(c, separator)
                = text \o (Escaped(p, separator) \o Escape(c, separator))
            BY <2>2, <3>1, ConcatAssociative
        <3> QED
            BY <3>1, <3>2
    <2> HIDE DEF before, S
    <2>4. /\ state \in ScanState(C) /\ ~state.open
          /\ state.parts = S.parts /\ state.part = S.part \o p
        BY <1>1, <2>2 DEF ScanState
    <2> HIDE DEF state
    <2>5. S.part \o Append(p, c) = Append(S.part \o p, c)
        BY <1>1
    <2>6. CASE c # separator
        <3>1. before \o Escape(c, separator) = Append(before, c)
            BY <2>2, <2>6 DEF Escape
        <3>2. Scan(Append(before, c), separator) = Scanned(state, c, separator)
            BY <2>1, <2>2, ScanAppend
        <3>3. Scanned(state, c, separator) =
                [parts |-> state.parts, part |-> Append(state.part, c), open |-> FALSE]
            <4>1. state \in ScanState(C) /\ ~state.open
                BY <2>4
            <4> QED
                BY ONLY <2>6, <4>1, ScannedCases, separator \in C, c \in C
        <3> QED
            BY <2>2, <2>3, <2>4, <2>5, <3>1, <3>2, <3>3
    <2>7. CASE c = separator
        <3> DEFINE once == Append(before, separator)
                   waiting == [parts |-> state.parts, part |-> state.part, open |-> TRUE]
        <3>1. once \in Seq(C) /\ before \o Escape(c, separator) = Append(once, separator)
            BY <2>2, <2>7 DEF Escape
        <3>2. Scan(once, separator) = Scanned(state, separator, separator)
            BY <2>1, <2>2, ScanAppend
        <3>3. Scanned(state, separator, separator) = waiting
            BY <2>4, ScannedCases
        <3> HIDE DEF once
        <3>4. /\ waiting \in ScanState(C) /\ waiting.open
              /\ waiting.parts = state.parts /\ waiting.part = state.part
            BY <2>4 DEF ScanState
        <3> HIDE DEF waiting
        <3>5. Scan(Append(once, separator), separator) = Scanned(waiting, separator, separator)
            BY <3>1, <3>2, <3>3, ScanAppend
        <3>6. Scanned(waiting, separator, separator) =
                [parts |-> waiting.parts, part |-> Append(waiting.part, separator), open |-> FALSE]
            BY <3>4, ScannedCases
        <3> QED
            BY <2>2, <2>3, <2>4, <2>5, <2>7, <3>1, <3>4, <3>5, <3>6
    <2> QED
        BY <2>6, <2>7
<1>4. Seq(C) \subseteq P
    <2> HIDE DEF P
    <2> QED
        BY <1>2, <1>3, SequenceInduction
<1> QED
    BY <1>4

\* A part that follows a separator and does not begin with one is a part of its own.
LEMMA ScanNext ==
    ASSUME NEW C, NEW separator \in C, NEW text \in Seq(C), Scan(text, separator).open,
           NEW p \in Seq(C), p # <<>>, Head(p) # separator
    PROVE  Scan(text \o Escaped(p, separator), separator) =
             [parts |-> Append(Scan(text, separator).parts, Scan(text, separator).part),
              part |-> p, open |-> FALSE]
<1> DEFINE S == Scan(text, separator)
           first == Head(p)
           rest == Tail(p)
           before == Append(text, first)
           begun == [parts |-> Append(S.parts, S.part), part |-> <<first>>, open |-> FALSE]
<1>1. S \in ScanState(C) /\ S.parts \in Seq(Seq(C)) /\ S.part \in Seq(C)
    BY ScanType DEF ScanState
<1>2. first \in C /\ rest \in Seq(C) /\ p = <<first>> \o rest /\ before \in Seq(C)
    BY HeadTailProperties
<1>3. Scan(before, separator) = begun
    <2>1. Scan(before, separator) = Scanned(S, first, separator)
        BY <1>2, ScanAppend
    <2> HIDE DEF S, first
    <2>2. S \in ScanState(C) /\ S.open /\ first \in C /\ first # separator
        BY <1>1, <1>2 DEF S, first
    <2> QED
        BY ONLY <2>1, <2>2, ScannedCases, separator \in C DEF begun
<1>4. text \o Escaped(p, separator) = before \o Escaped(rest, separator)
    <2>1. Escaped(p, separator) = <<first>> \o Escaped(rest, separator)
        <3> DEFINE s == [i \in DOMAIN p |-> Escape(p[i], separator)]
                   t == [i \in DOMAIN rest |-> Escape(rest[i], separator)]
        <3>1. /\ s \in Seq(Seq(C)) /\ Escaped(p, separator) = FlattenSeq(s)
              /\ t \in Seq(Seq(C)) /\ Escaped(rest, separator) = FlattenSeq(t)
            BY <1>2, EscapedType
        <3>2. /\ Len(p) = Len(rest) + 1 /\ p[1] = first /\ Len(rest) \in Nat
              /\ \A i \in 1 .. Len(rest) : rest[i] = p[i + 1]
            BY HeadTailProperties
        <3>3. Escape(first, separator) = <<first>>
            BY DEF Escape
        <3>4. Len(s) = Len(rest) + 1 /\ \A i \in 1 .. Len(rest) + 1 : s[i] = Escape(p[i], separator)
            BY <3>2
        <3>5. Len(t) = Len(rest) /\ \A i \in 1 .. Len(rest) : t[i] = Escape(rest[i], separator)
            BY <1>2
        <3>6. <<first>> \in Seq(C) /\ << <<first>> >> \in Seq(Seq(C))
            BY <1>2
        <3> HIDE DEF s, t, first, rest
        <3>7. s = << <<first>> >> \o t
            <4> DEFINE u == << <<first>> >> \o t
            <4>1. /\ u \in Seq(Seq(C)) /\ Len(u) = Len(rest) + 1 /\ u[1] = <<first>>
                  /\ \A i \in 2 .. Len(rest) + 1 : u[i] = t[i - 1]
                BY <3>1, <3>2, <3>5, <3>6
            <4> HIDE DEF u
            <4>2. ASSUME NEW i \in 1 .. Len(s)
                  PROVE  s[i] = u[i]
                <5>1. CASE i = 1
                    BY <3>2, <3>3, <3>4, <4>1, <5>1
                <5>2. CASE i # 1
                    <6>1. i \in 2 .. Len(rest) + 1 /\ i - 1 \in 1 .. Len(rest) /\ (i - 1) + 1 = i
                        BY <3>2, <3>4, <5>2
                    <6>2. s[i] = Escape(p[i], separator) /\ rest[i - 1] = p[i]
                        BY <3>2, <3>4, <6>1
                    <6> QED
                        BY <3>5, <4>1, <6>1, <6>2
                <5> QED
                    BY <5>1, <5>2
            <4>3. Len(s) = Len(u)
                BY <3>4, <4>1
            <4>4. s = u
                BY <3>1, <4>1, <4>2, <4>3, SeqEqual
            <4> QED
                BY <4>4 DEF u
        <3>8. FlattenSeq(s) = <<first>> \o FlattenSeq(t)
            BY <3>1, <3>6, <3>7, FlattenFirst
        <3> QED
            BY <3>1, <3>8
    <2>2. Escaped(rest, separator) \in Seq(C)
        BY <1>2, EscapedType
    <2>3. text \o (<<first>> \o Escaped(rest, separator))
            = (text \o <<first>>) \o Escaped(rest, separator)
        <3>1. <<first>> \in Seq(C)
            BY <1>2
        <3> HIDE DEF first, rest
        <3> QED
            BY <2>2, <3>1, ConcatAssociative
    <2>4. before = text \o <<first>>
        <3> HIDE DEF first
        <3> QED
            BY <1>2
    <2> QED
        BY <2>1, <2>3, <2>4
<1>5. begun.parts = Append(S.parts, S.part) /\ begun.part = <<first>> /\ ~begun.open
    OBVIOUS
<1> HIDE DEF before, rest, begun
<1>6. Scan(before \o Escaped(rest, separator), separator) =
        [parts |-> begun.parts, part |-> begun.part \o rest, open |-> FALSE]
    BY <1>2, <1>3, <1>5, ScanContinued
<1> QED
    BY <1>2, <1>4, <1>5, <1>6

-----------------------------------------------------------------------------
(* Splitting undoes joining                                                *)

\* A part on the wire, with the separator before it.
Behind(wireParts, i, separator) ==
    IF i = 1 THEN wireParts[i] ELSE <<separator>> \o wireParts[i]

\* Parts with separators between them are a sequence of characters.
LEMMA SeparatedType ==
    ASSUME NEW C, NEW separator \in C, NEW wireParts \in Seq(Seq(C))
    PROVE  /\ [i \in DOMAIN wireParts |-> Behind(wireParts, i, separator)] \in Seq(Seq(C))
           /\ Separated(wireParts, separator) =
                FlattenSeq([i \in DOMAIN wireParts |-> Behind(wireParts, i, separator)])
           /\ Separated(wireParts, separator) \in Seq(C)
<1> DEFINE s == [i \in DOMAIN wireParts |-> Behind(wireParts, i, separator)]
<1>1. \A i \in DOMAIN wireParts : Behind(wireParts, i, separator) \in Seq(C)
    <2>1. <<separator>> \in Seq(C) /\ \A i \in DOMAIN wireParts : wireParts[i] \in Seq(C)
        OBVIOUS
    <2> QED
        BY <2>1 DEF Behind
<1>2. s \in Seq(Seq(C))
    <2>1. DOMAIN wireParts = 1 .. Len(wireParts) /\ Len(wireParts) \in Nat
        OBVIOUS
    <2> QED
        BY <1>1, <2>1
<1>3. Separated(wireParts, separator) = FlattenSeq(s)
    BY DEF Separated, Behind
<1> HIDE DEF s
<1> QED
    BY <1>2, <1>3, FlattenType DEF s

\* The text grows by a separator and a part.
LEMMA SeparatedAppend ==
    ASSUME NEW C, NEW separator \in C, NEW wireParts \in Seq(Seq(C)), NEW x \in Seq(C)
    PROVE  Separated(Append(wireParts, x), separator) =
             IF wireParts = <<>> THEN x
             ELSE Append(Separated(wireParts, separator), separator) \o x
<1> DEFINE s == [i \in DOMAIN wireParts |-> Behind(wireParts, i, separator)]
           longer == Append(wireParts, x)
           t == [i \in DOMAIN longer |-> Behind(longer, i, separator)]
           d == IF wireParts = <<>> THEN x ELSE <<separator>> \o x
<1>1. d \in Seq(C) /\ <<separator>> \in Seq(C)
    OBVIOUS
<1>2. /\ longer \in Seq(Seq(C)) /\ Len(longer) = Len(wireParts) + 1 /\ Len(wireParts) \in Nat
      /\ DOMAIN longer = 1 .. Len(wireParts) + 1 /\ DOMAIN wireParts = 1 .. Len(wireParts)
      /\ longer[Len(wireParts) + 1] = x
      /\ \A i \in 1 .. Len(wireParts) : longer[i] = wireParts[i]
      /\ wireParts = <<>> <=> Len(wireParts) = 0
    OBVIOUS
<1> HIDE DEF longer
<1>3. /\ s \in Seq(Seq(C)) /\ Separated(wireParts, separator) = FlattenSeq(s)
      /\ t \in Seq(Seq(C)) /\ Separated(longer, separator) = FlattenSeq(t)
      /\ Separated(wireParts, separator) \in Seq(C)
    BY <1>2, SeparatedType
<1>4. /\ Len(s) = Len(wireParts)
      /\ \A i \in 1 .. Len(wireParts) : s[i] = Behind(wireParts, i, separator)
      /\ Len(t) = Len(wireParts) + 1
      /\ \A i \in 1 .. Len(wireParts) + 1 : t[i] = Behind(longer, i, separator)
    BY <1>2
<1>5. Behind(longer, Len(wireParts) + 1, separator) = d
    <2>1. CASE wireParts = <<>>
        BY <1>2, <2>1 DEF Behind
    <2>2. CASE wireParts # <<>>
        <3>1. Len(wireParts) + 1 # 1
            BY <1>2, <2>2
        <3> QED
            BY <1>2, <2>2, <3>1 DEF Behind
    <2> QED
        BY <2>1, <2>2
<1>6. \A i \in 1 .. Len(wireParts) : Behind(longer, i, separator) = Behind(wireParts, i, separator)
    BY <1>2 DEF Behind
<1> HIDE DEF s, t, d
<1>7. t = Append(s, d)
    <2>1. /\ Append(s, d) \in Seq(Seq(C)) /\ Len(Append(s, d)) = Len(wireParts) + 1
          /\ Append(s, d)[Len(wireParts) + 1] = d
          /\ \A i \in 1 .. Len(wireParts) : Append(s, d)[i] = s[i]
        BY <1>1, <1>2, <1>3, <1>4, AppendProperties
    <2>2. ASSUME NEW i \in 1 .. Len(wireParts) + 1
          PROVE  Append(s, d)[i] = t[i]
        <3>1. CASE i = Len(wireParts) + 1
            <4>1. t[Len(wireParts) + 1] = d
                BY <1>2, <1>4, <1>5
            <4> QED
                BY <2>1, <3>1, <4>1
        <3>2. CASE i \in 1 .. Len(wireParts)
            BY <1>4, <1>6, <2>1, <3>2
        <3>3. i = Len(wireParts) + 1 \/ i \in 1 .. Len(wireParts)
            BY <1>2
        <3> QED
            BY <3>1, <3>2, <3>3
    <2> QED
        BY <1>3, <1>4, <2>1, <2>2, SeqEqual
<1>8. FlattenSeq(t) = FlattenSeq(s) \o d
    BY <1>1, <1>3, <1>7, FlattenAppend
<1>9. CASE wireParts = <<>>
    <2>1. s = <<>> /\ d = x
        BY <1>2, <1>3, <1>4, <1>9 DEF d
    <2>2. <<>> \o x = x
        BY ConcatEmptySeq
    <2> QED
        BY <1>3, <1>8, <1>9, <2>1, <2>2, FlattenEmpty DEF longer
<1>10. CASE wireParts # <<>>
    <2>1. d = <<separator>> \o x
        BY <1>10 DEF d
    <2> DEFINE text == Separated(wireParts, separator)
    <2>2. text \in Seq(C)
        BY <1>3
    <2> HIDE DEF text
    <2>3. text \o (<<separator>> \o x) = (text \o <<separator>>) \o x
        BY <1>1, <2>2, ConcatAssociative
    <2>4. text \o <<separator>> = Append(text, separator)
        BY <2>2
    <2> QED
        BY <1>3, <1>8, <1>10, <2>1, <2>3, <2>4 DEF longer, text
<1> QED
    BY <1>9, <1>10

\* Parts that are not empty, and of which none but the first begins with a separator, are
\* taken out of their text again.
Separable(parts, separator) ==
    \A i \in DOMAIN parts : /\ parts[i] # <<>>
                            /\ i > 1 => Head(parts[i]) # separator

\* The parts as they are put between the separators.
EscapedParts(parts, separator) == [i \in DOMAIN parts |-> Escaped(parts[i], separator)]

\* The pieces of parts that were escaped and separated are these parts.
LEMMA PiecesOfParts ==
    ASSUME NEW C, NEW separator \in C, NEW parts \in Seq(Seq(C)), parts # <<>>,
           Separable(parts, separator)
    PROVE  /\ Separated(EscapedParts(parts, separator), separator) \in Seq(C)
           /\ Pieces(Separated(EscapedParts(parts, separator), separator), separator) = parts
<1> DEFINE Wire(q) == EscapedParts(q, separator)
           text(q) == Separated(Wire(q), separator)
           Joins(q) == LET S == Scan(text(q), separator)
                       IN ~S.open /\ Append(S.parts, S.part) = q
           P == {q \in Seq(Seq(C)) : q # <<>> /\ Separable(q, separator) => Joins(q)}
<1>1. ASSUME NEW q \in Seq(Seq(C))
      PROVE  /\ Wire(q) \in Seq(Seq(C)) /\ Len(Wire(q)) = Len(q)
             /\ \A i \in 1 .. Len(q) : Wire(q)[i] = Escaped(q[i], separator)
             /\ text(q) \in Seq(C)
    <2>1. DOMAIN q = 1 .. Len(q) /\ Len(q) \in Nat /\ \A i \in DOMAIN q : q[i] \in Seq(C)
        OBVIOUS
    <2>2. \A i \in DOMAIN q : Escaped(q[i], separator) \in Seq(C)
        BY <2>1, EscapedType
    <2>3. Wire(q) \in Seq(Seq(C))
        BY <2>1, <2>2 DEF EscapedParts
    <2>4. Len(Wire(q)) = Len(q) /\ \A i \in 1 .. Len(q) : Wire(q)[i] = Escaped(q[i], separator)
        BY <2>1 DEF EscapedParts
    <2>5. text(q) \in Seq(C)
        BY <2>3, SeparatedType
    <2> QED
        BY <2>3, <2>4, <2>5
<1>2. <<>> \in P
    OBVIOUS
<1>3. ASSUME NEW q \in Seq(Seq(C)), NEW x \in Seq(C), q \in P,
             Separable(Append(q, x), separator)
      PROVE  Joins(Append(q, x))
    <2> DEFINE longer == Append(q, x)
               E == Escaped(x, separator)
    <2>1. /\ longer \in Seq(Seq(C)) /\ Len(longer) = Len(q) + 1 /\ Len(q) \in Nat
          /\ longer[Len(q) + 1] = x /\ \A i \in 1 .. Len(q) : longer[i] = q[i]
          /\ DOMAIN longer = 1 .. Len(q) + 1 /\ DOMAIN q = 1 .. Len(q)
        OBVIOUS
    <2> HIDE DEF longer, Wire
    <2>2. E \in Seq(C)
        BY EscapedType
    <2>3. Wire(longer) = Append(Wire(q), E)
        <3>1. /\ Wire(q) \in Seq(Seq(C)) /\ Len(Wire(q)) = Len(q)
              /\ \A i \in 1 .. Len(q) : Wire(q)[i] = Escaped(q[i], separator)
            BY <1>1
        <3>2. /\ Wire(longer) \in Seq(Seq(C)) /\ Len(Wire(longer)) = Len(q) + 1
              /\ \A i \in 1 .. Len(q) + 1 : Wire(longer)[i] = Escaped(longer[i], separator)
            BY <1>1, <2>1
        <3> DEFINE u == Append(Wire(q), E)
        <3>3. /\ u \in Seq(Seq(C)) /\ Len(u) = Len(q) + 1 /\ u[Len(q) + 1] = E
              /\ \A i \in 1 .. Len(q) : u[i] = Wire(q)[i]
            <4> HIDE DEF E
            <4> QED
                BY <2>1, <2>2, <3>1, AppendProperties
        <3> HIDE DEF u
        <3>4. ASSUME NEW i \in 1 .. Len(q) + 1
              PROVE  Wire(longer)[i] = u[i]
            <4>1. CASE i = Len(q) + 1
                <5>1. Wire(longer)[Len(q) + 1] = E
                    BY <2>1, <3>2
                <5> QED
                    BY <3>3, <4>1, <5>1
            <4>2. CASE i \in 1 .. Len(q)
                BY <2>1, <3>1, <3>2, <3>3, <4>2
            <4> QED
                BY <2>1, <4>1, <4>2
        <3>5. Wire(longer) = u
            BY <3>2, <3>3, <3>4, SeqEqual
        <3> QED
            BY <3>5 DEF u
    <2>4. x # <<>> /\ Separable(q, separator) /\ (q # <<>> => Head(x) # separator)
        <3>1. \A i \in 1 .. Len(q) + 1 : longer[i] # <<>> /\ (i > 1 => Head(longer[i]) # separator)
            BY <1>3, <2>1 DEF Separable, longer
        <3>2. q # <<>> => Len(q) + 1 > 1
            BY <2>1
        <3>3. Len(q) + 1 \in 1 .. Len(q) + 1 /\ 1 .. Len(q) \subseteq 1 .. Len(q) + 1
            BY <2>1
        <3> QED
            BY <2>1, <3>1, <3>2, <3>3 DEF Separable
    <2>5. text(longer) = IF Wire(q) = <<>> THEN E ELSE Append(text(q), separator) \o E
        <3>1. Wire(q) \in Seq(Seq(C))
            BY <1>1
        <3> HIDE DEF E
        <3>2. Separated(Append(Wire(q), E), separator) =
                IF Wire(q) = <<>> THEN E ELSE Append(text(q), separator) \o E
            BY <2>2, <3>1, SeparatedAppend
        <3> QED
            BY <2>3, <3>2
    <2>6. CASE q = <<>>
        <3>1. Wire(q) = <<>>
            BY <2>6 DEF Wire, EscapedParts
        <3>2. /\ <<>> \in Seq(C) /\ Scan(<<>>, separator) = ScanStart
              /\ ~ScanStart.open /\ ScanStart.parts = <<>> /\ ScanStart.part = <<>>
            BY ScanEmpty DEF ScanStart
        <3>3. <<>> \o E = E /\ <<>> \o x = x
            BY <2>2, ConcatEmptySeq
        <3>4. Scan(<<>> \o E, separator) = [parts |-> <<>>, part |-> <<>> \o x, open |-> FALSE]
            BY <3>2, ScanContinued
        <3>5. Scan(text(longer), separator) = [parts |-> <<>>, part |-> x, open |-> FALSE]
            BY <2>5, <3>1, <3>3, <3>4
        <3>6. Append(<<>>, x) = longer
            BY <2>6 DEF longer
        <3> QED
            BY <3>5, <3>6 DEF longer
    <2>7. CASE q # <<>>
        <3> DEFINE S == Scan(text(q), separator)
                   before == Append(text(q), separator)
                   waiting == [parts |-> S.parts, part |-> S.part, open |-> TRUE]
        <3>1. Wire(q) # <<>>
            <4>1. Wire(q) \in Seq(Seq(C)) /\ Len(Wire(q)) = Len(q)
                BY <1>1
            <4> QED
                BY <2>7, <4>1
        <3>2. ~S.open /\ Append(S.parts, S.part) = q
            BY <1>3, <2>4, <2>7
        <3>3. text(q) \in Seq(C)
            BY <1>1
        <3> HIDE DEF text
        <3>4. before \in Seq(C)
            BY <3>3
        <3>5. Scan(before, separator) = Scanned(S, separator, separator)
            BY <3>3, ScanAppend
        <3>6. Scanned(S, separator, separator) = waiting
            <4>1. S \in ScanState(C)
                BY <3>3, ScanType
            <4> HIDE DEF S
            <4> QED
                BY ONLY <3>2, <4>1, ScannedCases, separator \in C DEF waiting
        <3>7. waiting.open /\ waiting.parts = S.parts /\ waiting.part = S.part
            OBVIOUS
        <3> HIDE DEF before, S, waiting
        <3>8. Scan(before \o E, separator) =
                [parts |-> Append(S.parts, S.part), part |-> x, open |-> FALSE]
            <4>1. Scan(before, separator) = waiting /\ Scan(before, separator).open
                BY <3>5, <3>6, <3>7
            <4>2. Scan(before \o E, separator) =
                    [parts |-> Append(Scan(before, separator).parts, Scan(before, separator).part),
                     part |-> x, open |-> FALSE]
                BY <2>4, <2>7, <3>4, <4>1, ScanNext
            <4> QED
                BY <3>7, <4>1, <4>2
        <3>9. text(longer) = before \o E
            BY <2>5, <3>1 DEF before
        <3> QED
            BY <3>2, <3>8, <3>9 DEF longer
    <2> QED
        BY <2>6, <2>7
<1>4. Seq(Seq(C)) \subseteq P
    <2>1. ASSUME NEW q \in Seq(Seq(C)), NEW x \in Seq(C), q \in P
          PROVE  Append(q, x) \in P
        <3>1. Append(q, x) \in Seq(Seq(C))
            OBVIOUS
        <3> HIDE DEF Joins
        <3> QED
            BY <1>3, <2>1, <3>1
    <2> HIDE DEF P
    <2> QED
        BY <1>2, <2>1, SequenceInduction
<1>5. Joins(parts)
    BY <1>4
<1>6. text(parts) \in Seq(C)
    BY <1>1
<1> HIDE DEF Wire
<1>7. Pieces(text(parts), separator) = parts
    BY <1>5 DEF Pieces
<1> QED
    BY <1>6, <1>7 DEF Wire

\* The parts a side in fact joins: an empty part is sent as blanks, and by the master a
\* leading blank is doubled.
SlaveSends(parts) == [i \in DOMAIN parts |-> IF parts[i] = <<>> THEN <<Blank>> ELSE parts[i]]

MasterSends(parts) ==
    [i \in DOMAIN parts |->
        IF parts[i] = <<>> THEN <<Blank, Blank>>
        ELSE IF Head(parts[i]) = Blank THEN <<Blank>> \o parts[i] ELSE parts[i]]

\* Blanks are not escaped.
LEMMA EscapedBlanks ==
    ASSUME NEW C, NEW separator \in C, Blank \in C, Blank # separator
    PROVE  /\ Escaped(<<Blank>>, separator) = <<Blank>>
           /\ Escaped(<<Blank, Blank>>, separator) = <<Blank, Blank>>
           /\ \A part \in Seq(C) :
                 Escaped(<<Blank>> \o part, separator) = <<Blank>> \o Escaped(part, separator)
<1>1. Escape(Blank, separator) = <<Blank>>
    BY DEF Escape
<1>2. /\ <<>> \in Seq(C) /\ Append(<<>>, Blank) = <<Blank>> /\ <<Blank>> \in Seq(C)
      /\ Append(<<Blank>>, Blank) = <<Blank, Blank>> /\ <<>> \o <<Blank>> = <<Blank>>
      /\ <<Blank>> \o <<Blank>> = <<Blank, Blank>>
    <2>1. <<>> \in Seq(C) /\ Append(<<>>, Blank) = <<Blank>> /\ <<Blank>> \in Seq(C)
        OBVIOUS
    <2>2. Append(<<Blank>>, Blank) = <<Blank, Blank>>
        <3> DEFINE s == Append(<<Blank>>, Blank)
                   t == <<Blank, Blank>>
        <3>1. s \in Seq(C) /\ Len(s) = 2 /\ s[1] = Blank /\ s[2] = Blank
            BY <2>1
        <3>2. t \in Seq(C) /\ Len(t) = 2 /\ t[1] = Blank /\ t[2] = Blank
            OBVIOUS
        <3> HIDE DEF s, t
        <3>3. Len(s) = Len(t) /\ \A i \in 1 .. Len(s) : s[i] = t[i]
            BY <3>1, <3>2
        <3>4. s = t
            BY <3>1, <3>2, <3>3, SeqEqual
        <3> QED
            BY <3>4 DEF s, t
    <2>3. <<>> \o <<Blank>> = <<Blank>>
        BY <2>1, ConcatEmptySeq
    <2>4. <<Blank>> \o <<Blank>> = Append(<<Blank>>, Blank)
        BY <2>1, AppendIsConcat
    <2> QED
        BY <2>1, <2>2, <2>3, <2>4
<1>3. Escaped(<<Blank>>, separator) = <<Blank>>
    <2>1. Escaped(Append(<<>>, Blank), separator)
            = Escaped(<<>>, separator) \o Escape(Blank, separator)
        BY <1>2, EscapedAppend
    <2> QED
        BY <1>1, <1>2, <2>1, EscapedEmpty
<1>4. Escaped(<<Blank, Blank>>, separator) = <<Blank, Blank>>
    <2>1. Escaped(Append(<<Blank>>, Blank), separator)
            = Escaped(<<Blank>>, separator) \o Escape(Blank, separator)
        BY <1>2, EscapedAppend
    <2> QED
        BY <1>1, <1>2, <1>3, <2>1
<1>5. \A part \in Seq(C) :
         Escaped(<<Blank>> \o part, separator) = <<Blank>> \o Escaped(part, separator)
    <2> DEFINE P == {part \in Seq(C) : Escaped(<<Blank>> \o part, separator)
                                         = <<Blank>> \o Escaped(part, separator)}
    <2>1. <<>> \in P
        <3>1. <<Blank>> \o <<>> = <<Blank>>
            BY <1>2, ConcatEmptySeq
        <3> QED
            BY <1>2, <1>3, <3>1, EscapedEmpty
    <2>2. ASSUME NEW part \in Seq(C), NEW c \in C, part \in P
          PROVE  Append(part, c) \in P
        <3>1. /\ <<Blank>> \o part \in Seq(C) /\ Append(part, c) \in Seq(C)
              /\ <<Blank>> \o Append(part, c) = Append(<<Blank>> \o part, c)
            BY <1>2
        <3>2. /\ Escape(c, separator) \in Seq(C)
              /\ Escaped(Append(part, c), separator)
                   = Escaped(part, separator) \o Escape(c, separator)
            BY EscapedAppend
        <3>3. Escaped(Append(<<Blank>> \o part, c), separator)
                = Escaped(<<Blank>> \o part, separator) \o Escape(c, separator)
            BY <3>1, EscapedAppend
        <3>4. Escaped(part, separator) \in Seq(C)
            BY EscapedType
        <3>5. (<<Blank>> \o Escaped(part, separator)) \o Escape(c, separator)
                = <<Blank>> \o (Escaped(part, separator) \o Escape(c, separator))
            BY <1>2, <3>2, <3>4, ConcatAssociative
        <3> QED
            BY <2>2, <3>1, <3>2, <3>3, <3>5
    <2>3. Seq(C) \subseteq P
        <3> HIDE DEF P
        <3> QED
            BY <2>1, <2>2, SequenceInduction
    <2> QED
        BY <2>3
<1> QED
    BY <1>3, <1>4, <1>5

\* What the slave joins, the master takes apart.
THEOREM MasterSplitsWhatSlaveJoins ==
    ASSUME NEW C, NEW separator \in C, Blank \in C, Blank # separator,
           NEW parts \in Seq(Seq(C)), parts # <<>>, Unambiguous(parts, separator)
    PROVE  /\ strings_join(parts, separator) \in Seq(C)
           /\ JavaSplit(strings_join(parts, separator), separator) = MasterReceives(parts)
<1> DEFINE q == SlaveSends(parts)
           text == strings_join(parts, separator)
<1>1. DOMAIN parts = 1 .. Len(parts) /\ Len(parts) \in Nat /\ \A i \in DOMAIN parts : parts[i] \in Seq(C)
    OBVIOUS
<1>2. /\ DOMAIN q = DOMAIN parts
      /\ \A i \in DOMAIN parts : q[i] = IF parts[i] = <<>> THEN <<Blank>> ELSE parts[i]
    BY DEF SlaveSends
<1> HIDE DEF q
<1>3. q \in Seq(Seq(C)) /\ q # <<>>
    <2>1. <<Blank>> \in Seq(C)
        OBVIOUS
    <2>2. \A i \in 1 .. Len(parts) : q[i] \in Seq(C)
        BY <1>1, <1>2, <2>1
    <2>3. q = [i \in 1 .. Len(parts) |-> q[i]]
        BY <1>1 DEF q, SlaveSends
    <2>4. Len(parts) # 0
        OBVIOUS
    <2>5. q \in Seq(Seq(C)) /\ Len(q) = Len(parts)
        BY <1>1, <2>2, <2>3
    <2> QED
        BY <2>4, <2>5
<1>4. Separable(q, separator)
    <2> SUFFICES ASSUME NEW i \in DOMAIN parts
                 PROVE  q[i] # <<>> /\ (i > 1 => Head(q[i]) # separator)
        BY <1>2 DEF Separable
    <2>1. CASE parts[i] = <<>>
        <3>1. q[i] = <<Blank>> /\ <<Blank>> # <<>> /\ Head(<<Blank>>) = Blank
            BY <1>2, <2>1
        <3> QED
            BY <3>1
    <2>2. CASE parts[i] # <<>>
        BY <1>2, <2>2 DEF Unambiguous
    <2> QED
        BY <2>1, <2>2
<1>5. text = Separated(EscapedParts(q, separator), separator)
    <2>1. ASSUME NEW i \in DOMAIN parts
          PROVE  (IF parts[i] = <<>> THEN <<Blank>> ELSE Escaped(parts[i], separator))
                   = Escaped(q[i], separator)
        BY <1>2, EscapedBlanks
    <2>2. [i \in DOMAIN parts |-> IF parts[i] = <<>> THEN <<Blank>> ELSE Escaped(parts[i], separator)]
            = EscapedParts(q, separator)
        BY <1>2, <2>1 DEF EscapedParts
    <2> QED
        BY <2>2 DEF strings_join
<1>6. text \in Seq(C) /\ Pieces(text, separator) = q
    BY <1>3, <1>4, <1>5, PiecesOfParts
<1>7. JavaSplit(text, separator) = [i \in DOMAIN parts |-> removeLeadingBlank(q[i])]
    BY <1>2, <1>6 DEF JavaSplit
<1>8. ASSUME NEW i \in DOMAIN parts
      PROVE  removeLeadingBlank(q[i]) = removeLeadingBlank(parts[i])
    <2>1. CASE parts[i] = <<>>
        <3>1. /\ <<Blank>> # <<>> /\ Head(<<Blank>>) = Blank /\ Tail(<<Blank>>) = <<>>
              /\ q[i] = <<Blank>>
            BY <1>2, <2>1
        <3> QED
            BY <2>1, <3>1 DEF removeLeadingBlank
    <2>2. CASE parts[i] # <<>>
        BY <1>2, <2>2
    <2> QED
        BY <2>1, <2>2
<1> QED
    BY <1>6, <1>7, <1>8 DEF MasterReceives

\* Blanks at the beginning are trimmed, however many there are.
LEMMA TrimBlank ==
    ASSUME NEW C, Blank \in C, NEW part \in Seq(C)
    PROVE  /\ TrimStart(<<Blank>> \o part) = TrimStart(part)
           /\ TrimStart(<<Blank, Blank>>) = <<>> /\ TrimStart(<<>>) = <<>>
<1> DEFINE longer == <<Blank>> \o part
           kept == {i \in DOMAIN part : part[i] # Blank}
           keptLonger == {i \in DOMAIN longer : longer[i] # Blank}
<1>1. /\ DOMAIN part = 1 .. Len(part) /\ Len(part) \in Nat
      /\ DOMAIN longer = 1 .. Len(part) + 1 /\ Len(longer) = Len(part) + 1
      /\ longer[1] = Blank
      /\ longer \in Seq(C)
    OBVIOUS
<1>2. \A i \in 1 .. Len(part) : longer[i + 1] = part[i]
    OBVIOUS
<1> HIDE DEF longer
<1>3. \A i \in 1 .. Len(part) : i + 1 \in keptLonger <=> i \in kept
    BY <1>1, <1>2
<1>4. 1 \notin keptLonger
    BY <1>1
<1>5. kept \subseteq 1 .. Len(part) /\ keptLonger \subseteq 1 .. Len(part) + 1
    BY <1>1
<1>6. TrimStart(part) = IF kept = {} THEN <<>> ELSE SubSeq(part, Min(kept), Len(part))
    BY DEF TrimStart
<1>7. TrimStart(longer) =
        IF keptLonger = {} THEN <<>> ELSE SubSeq(longer, Min(keptLonger), Len(part) + 1)
    BY <1>1 DEF TrimStart
<1> HIDE DEF kept, keptLonger
<1>8. \A k \in keptLonger : k - 1 \in kept
    <2> SUFFICES ASSUME NEW k \in keptLonger
                 PROVE  k - 1 \in kept
        OBVIOUS
    <2>1. k - 1 \in 1 .. Len(part) /\ (k - 1) + 1 = k
        BY <1>1, <1>4, <1>5
    <2> QED
        BY <1>3, <2>1
<1>9. TrimStart(longer) = TrimStart(part)
    <2>1. CASE kept = {}
        BY <1>6, <1>7, <1>8, <2>1
    <2>2. CASE kept # {}
        <3>1. PICK m \in kept : \A k \in kept : m <= k
            <4>1. kept \in SUBSET Nat
                BY <1>1, <1>5
            <4> QED
                BY <2>2, <4>1, LeastNumber
        <3>2. m \in 1 .. Len(part) /\ m + 1 \in keptLonger /\ m \in Nat
            BY <1>1, <1>3, <1>5, <3>1
        <3>3. \A k \in keptLonger : m + 1 <= k
            <4> SUFFICES ASSUME NEW k \in keptLonger
                         PROVE  m + 1 <= k
                OBVIOUS
            <4>1. m <= k - 1 /\ k \in Nat
                BY <1>1, <1>5, <1>8, <3>1
            <4> QED
                BY <3>2, <4>1
        <3>4. Min(kept) = m
            <4>1. \A k \in kept : k \in Nat
                BY <1>1, <1>5
            <4> QED
                BY <3>1, <4>1 DEF Min
        <3>5. Min(keptLonger) = m + 1
            <4>1. \A k \in keptLonger : k \in Nat
                BY <1>1, <1>5
            <4> QED
                BY <3>2, <3>3, <4>1 DEF Min
        <3>6. SubSeq(longer, m + 1, Len(part) + 1) = SubSeq(part, m, Len(part))
            <4> DEFINE s == SubSeq(longer, m + 1, Len(part) + 1)
                       t == SubSeq(part, m, Len(part))
            <4>1. /\ s \in Seq(C) /\ Len(s) = Len(part) - m + 1
                  /\ \A i \in 1 .. Len(part) - m + 1 : s[i] = longer[m + i]
                BY <1>1, <3>2
            <4>2. /\ t \in Seq(C) /\ Len(t) = Len(part) - m + 1
                  /\ \A i \in 1 .. Len(part) - m + 1 : t[i] = part[m + i - 1]
                BY <1>1, <3>2
            <4> HIDE DEF s, t
            <4>3. ASSUME NEW i \in 1 .. Len(part) - m + 1
                  PROVE  s[i] = t[i]
                <5>1. m + i - 1 \in 1 .. Len(part) /\ (m + i - 1) + 1 = m + i
                    BY <1>1, <3>2
                <5>2. longer[m + i] = part[m + i - 1]
                    BY <1>2, <5>1
                <5> QED
                    BY <4>1, <4>2, <5>2
            <4>4. s = t
                BY <4>1, <4>2, <4>3, SeqEqual
            <4> QED
                BY <4>4 DEF s, t
        <3> QED
            BY <1>6, <1>7, <2>2, <3>2, <3>4, <3>5, <3>6
    <2> QED
        BY <2>1, <2>2
<1>10. TrimStart(<<Blank, Blank>>) = <<>>
    <2> DEFINE blanks == <<Blank, Blank>>
    <2>1. \A i \in DOMAIN blanks : blanks[i] = Blank
        OBVIOUS
    <2> HIDE DEF blanks
    <2> QED
        BY <2>1 DEF TrimStart, blanks
<1>11. TrimStart(<<>>) = <<>>
    BY DEF TrimStart
<1> QED
    BY <1>9, <1>10, <1>11 DEF longer

\* What the master joins, the slave takes apart, trimmed or not.
THEOREM SlaveSplitsWhatMasterJoins ==
    ASSUME NEW C, NEW separator \in C, Blank \in C, Blank # separator,
           NEW parts \in Seq(Seq(C)), parts # <<>>, Unambiguous(parts, separator),
           NEW trim \in BOOLEAN
    PROVE  /\ JavaJoin(parts, separator) \in Seq(C)
           /\ strings_split(JavaJoin(parts, separator), separator, trim)
                = SlaveReceives(parts, trim)
<1> DEFINE q == MasterSends(parts)
           text == JavaJoin(parts, separator)
<1>1. DOMAIN parts = 1 .. Len(parts) /\ Len(parts) \in Nat /\ \A i \in DOMAIN parts : parts[i] \in Seq(C)
    OBVIOUS
<1>2. /\ DOMAIN q = DOMAIN parts
      /\ \A i \in DOMAIN parts :
            q[i] = IF parts[i] = <<>> THEN <<Blank, Blank>>
                   ELSE IF Head(parts[i]) = Blank THEN <<Blank>> \o parts[i] ELSE parts[i]
    BY DEF MasterSends
<1>3. q = [i \in DOMAIN parts |-> q[i]]
    BY DEF MasterSends
<1> HIDE DEF q
<1>4. /\ <<Blank>> \in Seq(C) /\ <<Blank, Blank>> \in Seq(C) /\ <<Blank, Blank>> # <<>>
      /\ Head(<<Blank, Blank>>) = Blank
    OBVIOUS
<1>5. ASSUME NEW i \in DOMAIN parts, parts[i] # <<>>, Head(parts[i]) = Blank
      PROVE  /\ q[i] = <<Blank>> \o parts[i] /\ q[i] \in Seq(C) /\ q[i] # <<>>
             /\ Head(q[i]) = Blank
             /\ Escaped(q[i], separator) = <<Blank>> \o Escaped(parts[i], separator)
    <2>1. q[i] = <<Blank>> \o parts[i]
        BY <1>2, <1>5
    <2>2. parts[i] \in Seq(C)
        BY <1>1
    <2>3. q[i] \in Seq(C) /\ Len(q[i]) > 0 /\ q[i][1] = Blank
        BY <1>4, <2>1, <2>2
    <2>4. q[i] # <<>> /\ Head(q[i]) = Blank
        BY <2>3
    <2>5. Escaped(q[i], separator) = <<Blank>> \o Escaped(parts[i], separator)
        BY <2>1, <2>2, EscapedBlanks
    <2> QED
        BY <2>1, <2>3, <2>4, <2>5
<1>6. q \in Seq(Seq(C)) /\ q # <<>> /\ Len(q) = Len(parts)
    <2>1. ASSUME NEW i \in 1 .. Len(parts)
          PROVE  q[i] \in Seq(C)
        <3>1. i \in DOMAIN parts /\ parts[i] \in Seq(C)
            BY <1>1
        <3>2. CASE parts[i] = <<>>
            BY <1>2, <1>4, <3>1, <3>2
        <3>3. CASE parts[i] # <<>> /\ Head(parts[i]) = Blank
            BY <1>5, <3>1, <3>3
        <3>4. CASE parts[i] # <<>> /\ Head(parts[i]) # Blank
            BY <1>2, <3>1, <3>4
        <3> QED
            BY <3>2, <3>3, <3>4
    <2>2. Len(parts) # 0
        OBVIOUS
    <2>3. q \in Seq(Seq(C)) /\ Len(q) = Len(parts)
        BY <1>1, <1>3, <2>1
    <2> QED
        BY <2>2, <2>3
<1>7. Separable(q, separator)
    <2> SUFFICES ASSUME NEW i \in DOMAIN parts
                 PROVE  q[i] # <<>> /\ (i > 1 => Head(q[i]) # separator)
        BY <1>2 DEF Separable
    <2>1. CASE parts[i] = <<>>
        BY <1>2, <1>4, <2>1
    <2>2. CASE parts[i] # <<>> /\ Head(parts[i]) = Blank
        BY <1>5, <2>2
    <2>3. CASE parts[i] # <<>> /\ Head(parts[i]) # Blank
        BY <1>2, <2>3 DEF Unambiguous
    <2> QED
        BY <2>1, <2>2, <2>3
<1>8. text = Separated(EscapedParts(q, separator), separator)
    <2> DEFINE wire(part) ==
                 CASE part = <<>> -> <<Blank, Blank>>
                   [] part # <<>> /\ Head(part) = Blank -> <<Blank>> \o Escaped(part, separator)
                   [] OTHER -> Escaped(part, separator)
    <2>1. ASSUME NEW i \in DOMAIN parts
          PROVE  wire(parts[i]) = Escaped(q[i], separator)
        <3>1. CASE parts[i] = <<>>
            <4>1. wire(parts[i]) = <<Blank, Blank>>
                BY <3>1
            <4> QED
                BY <1>2, <3>1, <4>1, EscapedBlanks
        <3>2. CASE parts[i] # <<>> /\ Head(parts[i]) = Blank
            <4>1. wire(parts[i]) = <<Blank>> \o Escaped(parts[i], separator)
                BY <3>2
            <4> QED
                BY <1>5, <3>2, <4>1
        <3>3. CASE parts[i] # <<>> /\ Head(parts[i]) # Blank
            <4>1. wire(parts[i]) = Escaped(parts[i], separator)
                BY <3>3
            <4> QED
                BY <1>2, <3>3, <4>1
        <3> QED
            BY <3>1, <3>2, <3>3
    <2>2. [i \in DOMAIN parts |-> wire(parts[i])] = EscapedParts(q, separator)
        BY <1>2, <2>1 DEF EscapedParts
    <2>3. text = Separated([i \in DOMAIN parts |-> wire(parts[i])], separator)
        BY DEF JavaJoin
    <2> QED
        BY <2>2, <2>3
<1>9. text \in Seq(C) /\ Pieces(text, separator) = q
    BY <1>6, <1>7, <1>8, PiecesOfParts
<1> HIDE DEF text
<1>10. CASE ~trim
    <2>1. strings_split(text, separator, trim) = q
        BY <1>9, <1>10 DEF strings_split
    <2>2. SlaveReceives(parts, trim) = [i \in DOMAIN parts |-> q[i]]
        BY <1>2, <1>10 DEF SlaveReceives
    <2> QED
        BY <1>3, <1>9, <2>1, <2>2 DEF text
<1>11. CASE trim
    <2>1. ASSUME NEW i \in DOMAIN parts
          PROVE  TrimStart(q[i]) = TrimStart(parts[i])
        <3>1. parts[i] \in Seq(C)
            BY <1>1
        <3>2. CASE parts[i] = <<>>
            BY <1>2, <3>1, <3>2, TrimBlank
        <3>3. CASE parts[i] # <<>> /\ Head(parts[i]) = Blank
            BY <1>5, <3>1, <3>3, TrimBlank
        <3>4. CASE parts[i] # <<>> /\ Head(parts[i]) # Blank
            BY <1>2, <3>4
        <3> QED
            BY <3>2, <3>3, <3>4
    <2>2. strings_split(text, separator, trim) =
            [i \in DOMAIN q |-> IF i = Len(q) THEN TrimStart(q[i]) ELSE TrimEnd(TrimStart(q[i]))]
        BY <1>9, <1>11 DEF strings_split
    <2>3. SlaveReceives(parts, trim) =
            [i \in DOMAIN parts |-> IF i = Len(parts) THEN TrimStart(parts[i])
                                    ELSE TrimEnd(TrimStart(parts[i]))]
        BY <1>11 DEF SlaveReceives
    <2>4. strings_split(text, separator, trim) = SlaveReceives(parts, trim)
        BY <1>2, <1>6, <2>1, <2>2, <2>3
    <2> QED
        BY <1>9, <2>4 DEF text
<1> QED
    BY <1>10, <1>11

=============================================================================
