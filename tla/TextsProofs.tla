------------------------------ MODULE TextsProofs ------------------------------
(* Theorems about Texts, for texts of any tokens and of any length: what can be written
   as a text is read back from it, and what is read from a text is of that kind.

   The operators of Texts are recursive functions, or stand on FlattenSeq, which is one.
   What they compute is proved by induction, and the induction is a fact about sets: a
   set of naturals has a least member (Least), hence a set that has 0 and with every
   number the next has all of them (Induction), hence a set that has the empty
   sequence and with every sequence its extensions has all of them
   (SequenceInduction).  A recursive function is known to be what its definition says
   once there is a function that satisfies it, which induction gives (SplitByParts,
   FlattenByParts). *)
EXTENDS Texts, FiniteSetTheorems, SequenceTheorems, WellFoundedInduction, TLAPS

-------------------------------------------------------------------------------
(* Induction. *)

\* The order of the naturals, as a relation.
Less == {p \in Nat \X Nat : p[1] < p[2]}

\* A set of naturals that is not empty has a least member.
LEMMA Least ==
    ASSUME NEW N \in SUBSET Nat, N # {}
    PROVE  \E n \in N : \A m \in N : n <= m
<1>1. IsWellFoundedOn(Less, Nat)
    BY NatLessThanWellFounded DEF OpToRel, Less
<1>2. PICK n \in N : \A m \in N : <<m, n>> \notin Less
    BY <1>1, WFMin
<1>3. ASSUME NEW m \in N, ~ n <= m PROVE FALSE
    <2>1. <<m, n>> \in Less
        BY <1>3 DEF Less
    <2> QED
        BY <1>2, <2>1
<1> QED
    BY <1>3

\* A set that has 0, and with every number up to n the next one, has all of them.
LEMMA Induction ==
    ASSUME NEW n \in Nat, NEW N,
           0 \in N,
           \A i \in 0 .. n - 1 : i \in N => i + 1 \in N
    PROVE  0 .. n \subseteq N
<1> DEFINE Missing == {i \in 0 .. n : i \notin N}
<1> SUFFICES ASSUME Missing # {} PROVE FALSE
    OBVIOUS
<1>1. PICK m \in Missing : \A k \in Missing : m <= k
    <2>1. Missing \in SUBSET Nat
        OBVIOUS
    <2> QED
        BY <2>1, Least
<1>2. m - 1 \in 0 .. n - 1 /\ m - 1 \notin Missing
    BY <1>1
<1>3. m - 1 \in N
    BY <1>2
<1>4. (m - 1) + 1 \in N
    BY <1>2, <1>3
<1> QED
    BY <1>1, <1>4

\* A set of sequences that has the empty one and every extension of its members has
\* all of them.
LEMMA SequenceInduction ==
    ASSUME NEW S, NEW Q,
           << >> \in Q,
           \A s \in Seq(S), e \in S : s \in Q => Append(s, e) \in Q
    PROVE  Seq(S) \subseteq Q
<1> SUFFICES ASSUME NEW s \in Seq(S) PROVE s \in Q
    OBVIOUS
<1> DEFINE N == {n \in 0 .. Len(s) : SubSeq(s, 1, n) \in Q}
<1>1. Len(s) \in Nat
    OBVIOUS
<1>2. 0 \in N
    <2>1. SubSeq(s, 1, 0) = << >>
        BY SubSeqEmpty
    <2>2. SubSeq(s, 1, 0) \in Q
        BY <2>1, Zenon
    <2>3. 0 \in 0 .. Len(s)
        BY <1>1
    <2> QED
        BY <2>2, <2>3
<1>3. ASSUME NEW n \in 0 .. Len(s) - 1, n \in N PROVE n + 1 \in N
    <2>1. SubSeq(s, 1, n) \in Seq(S) /\ s[n + 1] \in S
        BY <1>1, SubSeqProperties
    <2>2. SubSeq(s, 1, n + 1) = Append(SubSeq(s, 1, n), s[n + 1])
        BY <2>1, <1>1, SubSeqRecursiveSecond, AppendIsConcat
    <2>3. SubSeq(s, 1, n) \in Q
        BY <1>3
    <2>4. SubSeq(s, 1, n + 1) \in Q
        BY <2>1, <2>2, <2>3
    <2> QED
        BY <1>1, <2>4
<1>4. Len(s) \in N
    <2> HIDE DEF N
    <2>1. 0 .. Len(s) \subseteq N
        BY <1>1, <1>2, <1>3, Induction
    <2> QED
        BY <2>1, <1>1
<1> QED
    BY <1>4, SubSeqFull
-------------------------------------------------------------------------------
(* Split. *)

\* The recursive function in Split is defined: it is built up text position by text
\* position.
LEMMA SplitByParts ==
    ASSUME NEW S, NEW text \in Seq(S), NEW delimiter
    PROVE  \E parts :
              /\ parts = [n \in 0 .. Len(text) |->
                             IF n = 0 THEN << << >> >>
                             ELSE Continued(parts[n - 1], text[n], delimiter)]
              /\ Split(text, delimiter) = parts[Len(text)]
<1> DEFINE UpTo(f, k) == f = [n \in 0 .. k |->
                                  IF n = 0 THEN << << >> >>
                                  ELSE Continued(f[n - 1], text[n], delimiter)]
           N == {k \in 0 .. Len(text) : \E f : UpTo(f, k)}
<1>1. Len(text) \in Nat
    OBVIOUS
<1>2. 0 \in N
    <2>1. UpTo([n \in 0 .. 0 |-> << << >> >>], 0)
        OBVIOUS
    <2> HIDE DEF UpTo
    <2> QED
        BY <2>1, <1>1
<1>3. ASSUME NEW k \in 0 .. Len(text) - 1, k \in N PROVE k + 1 \in N
    <2>1. PICK f : UpTo(f, k)
        BY <1>3
    <2> DEFINE g == [n \in 0 .. k + 1 |->
                        IF n <= k THEN f[n] ELSE Continued(f[k], text[k + 1], delimiter)]
    <2>2. ASSUME NEW n \in 0 .. k + 1
          PROVE  g[n] = IF n = 0 THEN << << >> >>
                        ELSE Continued(g[n - 1], text[n], delimiter)
        <3>1. CASE n <= k
            BY <2>1, <3>1
        <3>2. CASE n = k + 1
            BY <3>2
        <3> QED
            BY <3>1, <3>2
    <2>3. UpTo(g, k + 1)
        BY <2>2
    <2> HIDE DEF UpTo, g
    <2> QED
        BY <2>3, <1>1
<1>4. \E f : UpTo(f, Len(text))
    <2> HIDE DEF UpTo
    <2>1. 0 .. Len(text) \subseteq N
        <3> HIDE DEF N
        <3> QED
            BY <1>1, <1>2, <1>3, Induction
    <2> QED
        BY <2>1, <1>1
<1>5. Split(text, delimiter) = (CHOOSE f : UpTo(f, Len(text)))[Len(text)]
    BY DEF Split
<1> QED
    BY <1>4, <1>5

\* No text has one part, an empty one.
LEMMA SplitEmpty == \A delimiter : Split(<< >>, delimiter) = << << >> >>
<1> SUFFICES ASSUME NEW delimiter PROVE Split(<< >>, delimiter) = << << >> >>
    OBVIOUS
<1>1. << >> \in Seq({}) /\ Len(<< >>) = 0
    OBVIOUS
<1>2. PICK parts :
          /\ parts = [n \in 0 .. Len(<< >>) |->
                         IF n = 0 THEN << << >> >>
                         ELSE Continued(parts[n - 1], << >>[n], delimiter)]
          /\ Split(<< >>, delimiter) = parts[Len(<< >>)]
    BY <1>1, SplitByParts
<1>3. parts[0] = << << >> >>
    BY <1>1, <1>2
<1> QED
    BY <1>1, <1>2, <1>3

\* The parts of a longer text.
LEMMA SplitAppend ==
    ASSUME NEW S, NEW text \in Seq(S), NEW token \in S, NEW delimiter
    PROVE  Split(Append(text, token), delimiter)
               = Continued(Split(text, delimiter), token, delimiter)
<1> DEFINE longer == Append(text, token)
<1>1. /\ Len(text) \in Nat /\ longer \in Seq(S) /\ Len(longer) = Len(text) + 1
      /\ longer[Len(longer)] = token
      /\ \A n \in 1 .. Len(text) : longer[n] = text[n]
    BY AppendProperties
<1> HIDE DEF longer
<1>2. PICK p :
          /\ p = [n \in 0 .. Len(text) |->
                     IF n = 0 THEN << << >> >> ELSE Continued(p[n - 1], text[n], delimiter)]
          /\ Split(text, delimiter) = p[Len(text)]
    BY SplitByParts
<1>3. PICK q :
          /\ q = [n \in 0 .. Len(longer) |->
                     IF n = 0 THEN << << >> >> ELSE Continued(q[n - 1], longer[n], delimiter)]
          /\ Split(longer, delimiter) = q[Len(longer)]
    BY <1>1, SplitByParts
<1> DEFINE N == {n \in 0 .. Len(text) : p[n] = q[n]}
<1>4. p[0] = << << >> >> /\ q[0] = << << >> >>
    BY <1>1, <1>2, <1>3
<1>5. ASSUME NEW n \in 0 .. Len(text) - 1, n \in N PROVE n + 1 \in N
    <2>0. n + 1 \in 1 .. Len(text) /\ n + 1 \in 1 .. Len(longer) /\ (n + 1) - 1 = n
        BY <1>1
    <2>1. /\ p[n + 1] = Continued(p[n], text[n + 1], delimiter)
          /\ q[n + 1] = Continued(q[n], longer[n + 1], delimiter)
        <3>1. p[n + 1] = Continued(p[(n + 1) - 1], text[n + 1], delimiter)
            BY <1>1, <1>2, <2>0
        <3>2. q[n + 1] = Continued(q[(n + 1) - 1], longer[n + 1], delimiter)
            BY <1>1, <1>3, <2>0
        <3> QED
            BY <2>0, <3>1, <3>2
    <2>2. longer[n + 1] = text[n + 1] /\ p[n] = q[n]
        BY <1>1, <1>5
    <2> QED
        BY <2>1, <2>2, <1>1
<1>6. p[Len(text)] = q[Len(text)]
    <2>1. 0 \in N
        BY <1>1, <1>4
    <2>2. 0 .. Len(text) \subseteq N
        <3> HIDE DEF N
        <3> QED
            BY <1>1, <1>5, <2>1, Induction
    <2> QED
        BY <1>1, <2>2
<1>7. q[Len(longer)] = Continued(q[Len(text)], token, delimiter)
    BY <1>1, <1>3
<1> QED
    BY <1>2, <1>3, <1>6, <1>7 DEF longer

\* No part has the delimiter in it, and there is at least one.
LEMMA SplitType ==
    ASSUME NEW S, NEW delimiter, NEW text \in Seq(S)
    PROVE  Split(text, delimiter) \in Seq(Seq(S \ {delimiter})) \ {<< >>}
<1> DEFINE Parts == Seq(Seq(S \ {delimiter})) \ {<< >>}
           Q == {t \in Seq(S) : Split(t, delimiter) \in Parts}
<1>1. << >> \in Q
    <2>1. << << >> >> \in Parts
        OBVIOUS
    <2>2. Split(<< >>, delimiter) \in Parts
        BY <2>1, SplitEmpty, Zenon
    <2> QED
        BY <2>2
<1>2. ASSUME NEW parts \in Parts, NEW token \in S
      PROVE  Continued(parts, token, delimiter) \in Parts
    <2>1. CASE token = delimiter
        BY <2>1 DEF Continued
    <2>2. CASE token # delimiter
        <3>1. Len(parts) \in 1 .. Len(parts)
            BY EmptySeq
        <3>2. Append(parts[Len(parts)], token) \in Seq(S \ {delimiter})
            BY <3>1, <2>2
        <3>3. Continued(parts, token, delimiter)
                  = [parts EXCEPT ![Len(parts)] = Append(parts[Len(parts)], token)]
            BY <2>2 DEF Continued
        <3> QED
            BY <3>1, <3>2, <3>3, ExceptSeq
    <2> QED
        BY <2>1, <2>2
<1>3. ASSUME NEW t \in Seq(S), NEW token \in S, t \in Q PROVE Append(t, token) \in Q
    <2> HIDE DEF Parts
    <2> QED
        BY <1>2, <1>3, SplitAppend, AppendProperties
<1>4. Seq(S) \subseteq Q
    <2> HIDE DEF Q
    <2> QED
        BY <1>1, <1>3, SequenceInduction
<1> QED
    BY <1>4

-------------------------------------------------------------------------------
(* FlattenSeq of the community modules. *)

\* The recursive function in FlattenSeq is defined, too.
LEMMA FlattenByParts ==
    ASSUME NEW S, NEW parts \in Seq(S), parts # << >>
    PROVE  \E flat :
              /\ flat = [n \in 1 .. Len(parts) |->
                            IF n = 1 THEN parts[n] ELSE flat[n - 1] \o parts[n]]
              /\ FlattenSeq(parts) = flat[Len(parts)]
<1> DEFINE UpTo(f, k) == f = [n \in 1 .. k |->
                                  IF n = 1 THEN parts[n] ELSE f[n - 1] \o parts[n]]
           N == {k \in 0 .. Len(parts) : \E f : UpTo(f, k)}
<1>1. Len(parts) \in Nat \ {0}
    BY EmptySeq
<1>2. 0 \in N
    <2>1. UpTo([n \in 1 .. 0 |-> << >>], 0)
        OBVIOUS
    <2> HIDE DEF UpTo
    <2> QED
        BY <2>1, <1>1
<1>3. ASSUME NEW k \in 0 .. Len(parts) - 1, k \in N PROVE k + 1 \in N
    <2>1. PICK f : UpTo(f, k)
        BY <1>3
    <2> DEFINE g == [n \in 1 .. k + 1 |->
                        IF n <= k THEN f[n]
                        ELSE IF n = 1 THEN parts[n] ELSE f[k] \o parts[k + 1]]
    <2>2. ASSUME NEW n \in 1 .. k + 1
          PROVE  g[n] = IF n = 1 THEN parts[n] ELSE g[n - 1] \o parts[n]
        <3>1. CASE n <= k
            <4>1. f[n] = IF n = 1 THEN parts[n] ELSE f[n - 1] \o parts[n]
                <5>1. \A m \in 1 .. k :
                          f[m] = IF m = 1 THEN parts[m] ELSE f[m - 1] \o parts[m]
                    BY <2>1, Zenon
                <5>2. n \in 1 .. k
                    BY <3>1
                <5> QED
                    BY <5>1, <5>2, Zenon
            <4>2. g[n] = f[n] /\ (n # 1 => g[n - 1] = f[n - 1])
                BY <3>1
            <4> QED
                BY <4>1, <4>2
        <3>2. CASE n = k + 1
            BY <3>2
        <3> QED
            BY <3>1, <3>2
    <2>3. UpTo(g, k + 1)
        BY <2>2
    <2> HIDE DEF UpTo, g
    <2> QED
        BY <2>3, <1>1
<1>4. \E f : UpTo(f, Len(parts))
    <2> HIDE DEF UpTo
    <2>1. 0 .. Len(parts) \subseteq N
        <3> HIDE DEF N
        <3> QED
            BY <1>1, <1>2, <1>3, Induction
    <2> QED
        BY <2>1, <1>1
<1>5. FlattenSeq(parts) = (CHOOSE f : UpTo(f, Len(parts)))[Len(parts)]
    BY <1>1 DEF FlattenSeq
<1> QED
    BY <1>4, <1>5

\* Nothing flattens to nothing.
LEMMA FlattenEmpty == FlattenSeq(<< >>) = << >>
    BY DEF FlattenSeq

\* A last part comes last.
LEMMA FlattenAppend ==
    ASSUME NEW S, NEW parts \in Seq(Seq(S)), NEW part \in Seq(S)
    PROVE  FlattenSeq(Append(parts, part)) = FlattenSeq(parts) \o part
<1> DEFINE longer == Append(parts, part)
<1>1. /\ Len(parts) \in Nat /\ longer \in Seq(Seq(S)) /\ Len(longer) = Len(parts) + 1
      /\ longer # << >> /\ longer[Len(longer)] = part
      /\ \A n \in 1 .. Len(parts) : longer[n] = parts[n]
    BY AppendProperties
<1> HIDE DEF longer
<1>2. PICK q :
          /\ q = [n \in 1 .. Len(longer) |->
                     IF n = 1 THEN longer[n] ELSE q[n - 1] \o longer[n]]
          /\ FlattenSeq(longer) = q[Len(longer)]
    BY <1>1, FlattenByParts
<1>3. CASE parts = << >>
    <2>1. FlattenSeq(longer) = part
        BY <1>1, <1>2, <1>3
    <2>2. << >> \o part = part
        BY ConcatEmptySeq
    <2> QED
        BY <2>1, <2>2, <1>3, FlattenEmpty DEF longer
<1>4. CASE parts # << >>
    <2>1. PICK p :
              /\ p = [n \in 1 .. Len(parts) |->
                         IF n = 1 THEN parts[n] ELSE p[n - 1] \o parts[n]]
              /\ FlattenSeq(parts) = p[Len(parts)]
        BY <1>4, FlattenByParts
    <2> DEFINE N == {n \in 0 .. Len(parts) : n > 0 => p[n] = q[n]}
    <2>2. Len(parts) > 0
        BY <1>4, EmptySeq
    <2>3. ASSUME NEW n \in 0 .. Len(parts) - 1, n \in N PROVE n + 1 \in N
        <3>0. n + 1 \in 1 .. Len(parts) /\ n + 1 \in 1 .. Len(longer) /\ (n + 1) - 1 = n
            BY <1>1
        <3>1. longer[n + 1] = parts[n + 1]
            BY <1>1, <3>0
        <3>2. p[n + 1] = IF n + 1 = 1 THEN parts[n + 1] ELSE p[(n + 1) - 1] \o parts[n + 1]
            BY <2>1, <3>0
        <3>3. q[n + 1] = IF n + 1 = 1 THEN longer[n + 1] ELSE q[(n + 1) - 1] \o longer[n + 1]
            BY <1>2, <3>0
        <3>4. CASE n = 0
            BY <3>0, <3>1, <3>2, <3>3, <3>4, <1>1
        <3>5. CASE n > 0
            <4>1. p[n] = q[n]
                BY <2>3, <3>5
            <4>2. p[n + 1] = q[n + 1]
                BY <3>0, <3>1, <3>2, <3>3, <3>5, <4>1
            <4> QED
                BY <4>2, <1>1
        <3> QED
            BY <3>4, <3>5
    <2>4. p[Len(parts)] = q[Len(parts)]
        <3>1. 0 \in N
            BY <1>1
        <3>2. 0 .. Len(parts) \subseteq N
            <4> HIDE DEF N
            <4> QED
                BY <1>1, <2>3, <3>1, Induction
        <3>3. Len(parts) \in N
            <4>1. Len(parts) \in 0 .. Len(parts)
                BY <1>1
            <4> HIDE DEF N
            <4> QED
                BY <3>2, <4>1
        <3> QED
            BY <2>2, <3>3
    <2>5. q[Len(longer)] = q[Len(parts)] \o part
        <3>1. /\ Len(longer) \in 1 .. Len(longer) /\ Len(longer) # 1
              /\ Len(longer) - 1 = Len(parts)
            BY <1>1, <2>2
        <3>2. q[Len(longer)] = q[Len(longer) - 1] \o longer[Len(longer)]
            BY <1>2, <3>1
        <3> QED
            BY <1>1, <3>1, <3>2
    <2> QED
        BY <1>2, <2>1, <2>4, <2>5 DEF longer
<1> QED
    BY <1>3, <1>4

\* What is flattened is a sequence of the same elements.
LEMMA FlattenType ==
    ASSUME NEW S, NEW parts \in Seq(Seq(S))
    PROVE  FlattenSeq(parts) \in Seq(S)
<1> DEFINE Q == {p \in Seq(Seq(S)) : FlattenSeq(p) \in Seq(S)}
<1>1. << >> \in Q
    <2>1. FlattenSeq(<< >>) \in Seq(S) /\ << >> \in Seq(Seq(S))
        BY FlattenEmpty, EmptySeq, Zenon
    <2> QED
        BY <2>1
<1>2. ASSUME NEW p \in Seq(Seq(S)), NEW part \in Seq(S), p \in Q PROVE Append(p, part) \in Q
    BY <1>2, FlattenAppend, AppendProperties, ConcatProperties
<1>3. Seq(Seq(S)) \subseteq Q
    <2> HIDE DEF Q
    <2> QED
        BY <1>1, <1>2, SequenceInduction
<1> QED
    BY <1>3

-------------------------------------------------------------------------------
(* Join, and Split of what was joined. *)

\* What Join flattens.
Delimited(parts, delimiter) ==
    [i \in DOMAIN parts |-> IF i = 1 THEN parts[i] ELSE <<delimiter>> \o parts[i]]

\* Each part of it is a text.
LEMMA DelimitedType ==
    ASSUME NEW S, NEW delimiter \in S, NEW parts \in Seq(Seq(S))
    PROVE  /\ Delimited(parts, delimiter) \in Seq(Seq(S))
           /\ Len(Delimited(parts, delimiter)) = Len(parts)
<1>1. DOMAIN parts = 1 .. Len(parts) /\ Len(parts) \in Nat
    BY LenProperties
<1>2. <<delimiter>> \in Seq(S)
    OBVIOUS
<1>3. \A i \in 1 .. Len(parts) : parts[i] \in Seq(S) /\ <<delimiter>> \o parts[i] \in Seq(S)
    BY <1>2, ConcatProperties, ElementOfSeq
<1>4. Delimited(parts, delimiter) \in [1 .. Len(parts) -> Seq(S)]
    BY <1>1, <1>3 DEF Delimited
<1> QED
    BY <1>1, <1>4, SeqDef

\* Texts are joined to a text.
LEMMA JoinType ==
    ASSUME NEW S, NEW delimiter \in S, NEW parts \in Seq(Seq(S))
    PROVE  Join(parts, delimiter) \in Seq(S)
    BY DelimitedType, FlattenType DEF Join, Delimited

\* No parts are joined to no text.
LEMMA JoinEmpty == \A delimiter : Join(<< >>, delimiter) = << >>
<1> SUFFICES ASSUME NEW delimiter PROVE Join(<< >>, delimiter) = << >>
    OBVIOUS
<1>1. Delimited(<< >>, delimiter) = << >>
    BY DEF Delimited
<1> QED
    BY <1>1, FlattenEmpty, Zenon DEF Join, Delimited

\* A last part comes last, after a delimiter unless it is the first.
LEMMA JoinAppend ==
    ASSUME NEW S, NEW delimiter \in S, NEW parts \in Seq(Seq(S)), NEW part \in Seq(S)
    PROVE  Join(Append(parts, part), delimiter)
               = IF parts = << >> THEN part
                 ELSE Append(Join(parts, delimiter), delimiter) \o part
<1> DEFINE longer == Append(parts, part)
           last == IF parts = << >> THEN part ELSE <<delimiter>> \o part
<1>1. /\ Len(parts) \in Nat /\ longer \in Seq(Seq(S)) /\ Len(longer) = Len(parts) + 1
      /\ longer[Len(longer)] = part
      /\ \A n \in 1 .. Len(parts) : longer[n] = parts[n]
    BY AppendProperties
<1> HIDE DEF longer
<1>2. <<delimiter>> \in Seq(S) /\ last \in Seq(S)
    BY ConcatProperties
<1>3. Delimited(longer, delimiter) = Append(Delimited(parts, delimiter), last)
    <2> DEFINE d == Delimited(parts, delimiter)
               e == Delimited(longer, delimiter)
    <2>1. d \in Seq(Seq(S)) /\ Len(d) = Len(parts) /\ e \in Seq(Seq(S)) /\ Len(e) = Len(longer)
        BY <1>1, DelimitedType
    <2>2. /\ Append(d, last) \in Seq(Seq(S)) /\ Len(Append(d, last)) = Len(d) + 1
          /\ \A n \in 1 .. Len(d) : Append(d, last)[n] = d[n]
          /\ Append(d, last)[Len(d) + 1] = last
        BY <1>2, <2>1, AppendProperties
    <2>3. ASSUME NEW n \in 1 .. Len(parts) PROVE e[n] = d[n]
        <3>1. n \in DOMAIN parts /\ n \in DOMAIN longer /\ longer[n] = parts[n]
            BY <1>1
        <3> QED
            BY <3>1 DEF Delimited
    <2>4. e[Len(longer)] = last
        <3>1. Len(longer) \in DOMAIN longer
            BY <1>1
        <3>2. Len(longer) = 1 <=> parts = << >>
            BY <1>1, EmptySeq
        <3> QED
            BY <1>1, <3>1, <3>2 DEF Delimited
    <2> HIDE DEF d, e, last
    <2>5. ASSUME NEW n \in 1 .. Len(e) PROVE e[n] = Append(d, last)[n]
        <3>1. CASE n \in 1 .. Len(parts)
            <4>1. e[n] = d[n]
                BY <2>3, <3>1
            <4>2. Append(d, last)[n] = d[n]
                BY <2>1, <2>2, <3>1
            <4> QED
                BY <4>1, <4>2
        <3>2. CASE n = Len(parts) + 1
            BY <1>1, <2>1, <2>2, <2>4, <3>2
        <3> QED
            BY <1>1, <2>1, <3>1, <3>2
    <2>6. e = Append(d, last)
        BY <1>1, <2>1, <2>2, <2>5, SeqEqual
    <2> QED
        BY <2>6 DEF d, e
<1>4. Join(longer, delimiter) = Join(parts, delimiter) \o last
    <2>1. Delimited(parts, delimiter) \in Seq(Seq(S))
        BY DelimitedType
    <2> HIDE DEF last
    <2>2. FlattenSeq(Append(Delimited(parts, delimiter), last))
              = FlattenSeq(Delimited(parts, delimiter)) \o last
        BY <1>2, <2>1, FlattenAppend
    <2> QED
        BY <1>3, <2>2 DEF Join, Delimited
<1>5. CASE parts = << >>
    <2>1. << >> \o part = part
        BY ConcatEmptySeq
    <2> QED
        BY <1>4, <1>5, <2>1, JoinEmpty DEF longer
<1>6. CASE parts # << >>
    <2>1. Join(parts, delimiter) \in Seq(S)
        BY JoinType
    <2>2. Join(parts, delimiter) \o (<<delimiter>> \o part)
              = (Join(parts, delimiter) \o <<delimiter>>) \o part
        BY <1>2, <2>1, ConcatAssociative
    <2>3. Join(parts, delimiter) \o <<delimiter>> = Append(Join(parts, delimiter), delimiter)
        BY <2>1, AppendIsConcat
    <2> QED
        BY <1>4, <1>6, <2>2, <2>3 DEF longer
<1> QED
    BY <1>5, <1>6

\* The last part with more at its end.
Extended(parts, more) == [parts EXCEPT ![Len(parts)] = @ \o more]

\* As many parts, and only the last one differs.
LEMMA ExtendedType ==
    ASSUME NEW S, NEW parts \in Seq(Seq(S)) \ {<< >>}, NEW more \in Seq(S)
    PROVE  /\ Extended(parts, more) \in Seq(Seq(S))
           /\ Len(Extended(parts, more)) = Len(parts)
           /\ \A n \in 1 .. Len(parts) :
                  Extended(parts, more)[n] = IF n = Len(parts) THEN parts[n] \o more ELSE parts[n]
<1>1. Len(parts) \in 1 .. Len(parts)
    BY EmptySeq
<1>2. parts[Len(parts)] \o more \in Seq(S)
    BY <1>1, ElementOfSeq, ConcatProperties
<1>3. Extended(parts, more) = [parts EXCEPT ![Len(parts)] = parts[Len(parts)] \o more]
    BY DEF Extended
<1> QED
    BY <1>1, <1>2, <1>3, ExceptSeq

\* It is the same to append before or after a concatenation.
LEMMA ConcatAppend ==
    ASSUME NEW S, NEW s \in Seq(S), NEW t \in Seq(S), NEW e \in S
    PROVE  s \o Append(t, e) = Append(s \o t, e)
<1>1. <<e>> \in Seq(S) /\ s \o t \in Seq(S)
    BY ConcatProperties
<1>2. Append(t, e) = t \o <<e>> /\ Append(s \o t, e) = (s \o t) \o <<e>>
    BY <1>1, AppendIsConcat
<1> QED
    BY <1>1, <1>2, ConcatAssociative

\* A token that is no delimiter goes to the end of the last part.
LEMMA ContinuedExtended ==
    ASSUME NEW T, NEW parts \in Seq(Seq(T)) \ {<< >>}, NEW p \in Seq(T), NEW token \in T,
           NEW delimiter, token # delimiter
    PROVE  Continued(Extended(parts, p), token, delimiter) = Extended(parts, Append(p, token))
<1> DEFINE e == Extended(parts, p)
           f == Extended(parts, Append(p, token))
           g == [e EXCEPT ![Len(e)] = Append(e[Len(e)], token)]
<1>0. Len(parts) \in 1 .. Len(parts) /\ parts \in Seq(Seq(T)) /\ Append(p, token) \in Seq(T)
    BY EmptySeq, AppendProperties
<1>1. /\ e \in Seq(Seq(T)) /\ Len(e) = Len(parts)
      /\ \A n \in 1 .. Len(parts) :
             e[n] = IF n = Len(parts) THEN parts[n] \o p ELSE parts[n]
    BY ExtendedType
<1>2. /\ f \in Seq(Seq(T)) /\ Len(f) = Len(parts)
      /\ \A n \in 1 .. Len(parts) :
             f[n] = IF n = Len(parts) THEN parts[n] \o Append(p, token) ELSE parts[n]
    BY <1>0, ExtendedType
<1>3. parts[Len(parts)] \o Append(p, token) = Append(parts[Len(parts)] \o p, token)
    <2>1. parts[Len(parts)] \in Seq(T)
        BY <1>0, ElementOfSeq
    <2>2. \A s \in Seq(T) : s \o Append(p, token) = Append(s \o p, token)
        BY ConcatAppend
    <2> QED
        BY <2>1, <2>2
<1> HIDE DEF e, f
<1>4. Continued(e, token, delimiter) = g
    BY DEF Continued
<1>5. Append(e[Len(e)], token) \in Seq(T)
    BY <1>0, <1>1, ElementOfSeq, AppendProperties
<1>6. /\ g \in Seq(Seq(T)) /\ Len(g) = Len(parts)
      /\ \A n \in 1 .. Len(parts) :
             g[n] = IF n = Len(parts) THEN Append(e[n], token) ELSE e[n]
    BY <1>0, <1>1, <1>5, ExceptSeq
<1> HIDE DEF g
<1>7. \A n \in 1 .. Len(parts) : g[n] = f[n]
    BY <1>0, <1>1, <1>2, <1>3, <1>6
<1>8. g = f
    BY <1>2, <1>6, <1>7, SeqEqual
<1> QED
    BY <1>4, <1>8 DEF e, f, g

\* A text without delimiter goes into the last part as it is.
LEMMA SplitPart ==
    ASSUME NEW S, NEW delimiter, NEW text \in Seq(S), NEW part \in Seq(S \ {delimiter})
    PROVE  Split(text \o part, delimiter) = Extended(Split(text, delimiter), part)
<1> DEFINE parts == Split(text, delimiter)
           T == S \ {delimiter}
           Q == {p \in Seq(T) : Split(text \o p, delimiter) = Extended(parts, p)}
<1>1. parts \in Seq(Seq(T)) \ {<< >>}
    BY SplitType
<1>2. Len(parts) \in 1 .. Len(parts) /\ parts \in Seq(Seq(T))
    BY <1>1, EmptySeq
<1> HIDE DEF parts
<1>3. << >> \in Q
    <2>1. text \o << >> = text
        BY ConcatEmptySeq
    <2>2. << >> \in Seq(T)
        OBVIOUS
    <2>3. Extended(parts, << >>) = parts
        <3>1. \A n \in 1 .. Len(parts) : parts[n] \o << >> = parts[n]
            BY <1>2, ElementOfSeq, ConcatEmptySeq
        <3>2. /\ Extended(parts, << >>) \in Seq(Seq(T)) /\ Len(Extended(parts, << >>)) = Len(parts)
              /\ \A n \in 1 .. Len(parts) : Extended(parts, << >>)[n] = parts[n]
            <4> HIDE DEF T
            <4>1. /\ Extended(parts, << >>) \in Seq(Seq(T)) /\ Len(Extended(parts, << >>)) = Len(parts)
                  /\ \A n \in 1 .. Len(parts) :
                         Extended(parts, << >>)[n]
                             = IF n = Len(parts) THEN parts[n] \o << >> ELSE parts[n]
                BY <1>1, <2>2, ExtendedType
            <4> QED
                BY <3>1, <4>1
        <3> QED
            BY <1>2, <3>2, SeqEqual
    <2> QED
        BY <2>1, <2>2, <2>3 DEF parts
<1>4. ASSUME NEW p \in Seq(T), NEW token \in T, p \in Q PROVE Append(p, token) \in Q
    <2>1. p \in Seq(S) /\ token \in S /\ token # delimiter
        <3>1. T \subseteq S
            OBVIOUS
        <3> QED
            BY <3>1, SeqMonotonic
    <2>2. text \o Append(p, token) = Append(text \o p, token)
        BY <2>1, ConcatAppend
    <2>3. Split(text \o Append(p, token), delimiter)
              = Continued(Split(text \o p, delimiter), token, delimiter)
        <3>1. text \o p \in Seq(S)
            BY <2>1, ConcatProperties
        <3> QED
            BY <2>1, <2>2, <3>1, SplitAppend
    <2>4. Split(text \o p, delimiter) = Extended(parts, p)
        BY <1>4
    <2>5. Continued(Extended(parts, p), token, delimiter) = Extended(parts, Append(p, token))
        BY <1>1, <2>1, ContinuedExtended
    <2>6. Append(p, token) \in Seq(T)
        BY AppendProperties
    <2> QED
        BY <2>3, <2>4, <2>5, <2>6
<1>5. Seq(T) \subseteq Q
    <2> HIDE DEF Q, T
    <2> QED
        BY <1>3, <1>4, SequenceInduction
<1> QED
    BY <1>5 DEF parts

\* Splitting undoes joining, of parts without the delimiter, of which there is at least
\* one (datafusion.rs: join and split of serialize_column_keys and
\* deserialize_column_keys).
THEOREM SplitOfJoin ==
    ASSUME NEW S, NEW delimiter \in S, NEW parts \in Seq(Seq(S \ {delimiter})), parts # << >>
    PROVE  Split(Join(parts, delimiter), delimiter) = parts
<1> DEFINE P == Seq(S \ {delimiter})
           Q == {q \in Seq(P) : q # << >> => Split(Join(q, delimiter), delimiter) = q}
<1>1. P \subseteq Seq(S)
    <2>1. S \ {delimiter} \subseteq S
        OBVIOUS
    <2> QED
        BY <2>1, SeqMonotonic
<1>2. << >> \in Q
    OBVIOUS
<1>3. ASSUME NEW q \in Seq(P), NEW part \in P, q \in Q PROVE Append(q, part) \in Q
    <2>1. q \in Seq(Seq(S)) /\ part \in Seq(S) /\ Append(q, part) \in Seq(P)
        <3> HIDE DEF P
        <3> QED
            BY <1>1, SeqMonotonic, AppendProperties
    <2> DEFINE text == IF q = << >> THEN << >> ELSE Append(Join(q, delimiter), delimiter)
    <2>2. text \in Seq(S)
        BY <2>1, JoinType, AppendProperties
    <2>3. Join(Append(q, part), delimiter) = text \o part
        <3>1. Join(Append(q, part), delimiter)
                  = IF q = << >> THEN part ELSE Append(Join(q, delimiter), delimiter) \o part
            <4> HIDE DEF P
            <4> QED
                BY <2>1, JoinAppend
        <3>2. << >> \o part = part
            BY <2>1, ConcatEmptySeq
        <3> QED
            BY <3>1, <3>2
    <2>4. Split(text, delimiter) = Append(q, << >>)
        <3>1. CASE q = << >>
            <4>1. Append(<< >>, << >>) = << << >> >>
                OBVIOUS
            <4> QED
                BY <3>1, <4>1, SplitEmpty
        <3>2. CASE q # << >>
            <4>1. Join(q, delimiter) \in Seq(S) /\ Split(Join(q, delimiter), delimiter) = q
                BY <1>3, <2>1, <3>2, JoinType
            <4>2. Split(Append(Join(q, delimiter), delimiter), delimiter)
                      = Continued(q, delimiter, delimiter)
                BY <4>1, SplitAppend
            <4> QED
                BY <3>2, <4>2 DEF Continued
        <3> QED
            BY <3>1, <3>2
    <2> HIDE DEF text
    <2>5. Split(text \o part, delimiter) = Extended(Append(q, << >>), part)
        <3>1. \A t \in Seq(S) : Split(t \o part, delimiter) = Extended(Split(t, delimiter), part)
            BY SplitPart
        <3> QED
            BY <2>2, <2>4, <3>1
    <2>6. Extended(Append(q, << >>), part) = Append(q, part)
        <3> HIDE DEF P
        <3> DEFINE a == Append(q, << >>)
                   e == Extended(a, part)
                   b == Append(q, part)
        <3>1. << >> \in Seq(S) /\ << >> \o part = part
            BY <2>1, ConcatEmptySeq
        <3>2. /\ a \in Seq(Seq(S)) \ {<< >>} /\ Len(a) = Len(q) + 1
              /\ a[Len(q) + 1] = << >>
              /\ \A n \in 1 .. Len(q) : a[n] = q[n]
            <4>1. \A x \in Seq(S) :
                      /\ Append(q, x) \in Seq(Seq(S)) /\ Append(q, x) # << >>
                      /\ Len(Append(q, x)) = Len(q) + 1
                      /\ Append(q, x)[Len(q) + 1] = x
                      /\ \A n \in 1 .. Len(q) : Append(q, x)[n] = q[n]
                BY <2>1, AppendProperties
            <4> QED
                BY <3>1, <4>1
        <3>3. /\ b \in Seq(Seq(S)) /\ Len(b) = Len(q) + 1
              /\ b[Len(q) + 1] = part
              /\ \A n \in 1 .. Len(q) : b[n] = q[n]
            BY <2>1, AppendProperties
        <3> HIDE DEF a, b
        <3>4. /\ e \in Seq(Seq(S)) /\ Len(e) = Len(a)
              /\ \A n \in 1 .. Len(a) : e[n] = IF n = Len(a) THEN a[n] \o part ELSE a[n]
            BY <2>1, <3>2, ExtendedType
        <3> HIDE DEF e
        <3>5. Len(q) \in Nat
            OBVIOUS
        <3>6. ASSUME NEW n \in 1 .. Len(e) PROVE e[n] = b[n]
            <4>1. CASE n \in 1 .. Len(q)
                BY <3>2, <3>3, <3>4, <3>5, <4>1
            <4>2. CASE n = Len(q) + 1
                BY <3>1, <3>2, <3>3, <3>4, <3>5, <4>2
            <4> QED
                BY <3>2, <3>4, <3>5, <4>1, <4>2
        <3>7. e = b
            BY <3>2, <3>3, <3>4, <3>6, SeqEqual
        <3> QED
            BY <3>7 DEF a, b, e
    <2> QED
        BY <2>1, <2>3, <2>5, <2>6
<1>4. Seq(P) \subseteq Q
    <2> HIDE DEF Q, P
    <2> QED
        BY <1>2, <1>3, SequenceInduction
<1> QED
    BY <1>4

-------------------------------------------------------------------------------
(* NonEmpty. *)

\* What NonEmpty flattens.
AtMostOne(parts) ==
    [i \in DOMAIN parts |-> IF parts[i] = << >> THEN << >> ELSE <<parts[i]>>]

\* NonEmpty leaves no empty part.
LEMMA NonEmptyType ==
    ASSUME NEW P, NEW parts \in Seq(P)
    PROVE  NonEmpty(parts) \in Seq(P \ {<< >>})
<1>1. DOMAIN parts = 1 .. Len(parts) /\ Len(parts) \in Nat
    BY LenProperties
<1>2. ASSUME NEW i \in 1 .. Len(parts) PROVE AtMostOne(parts)[i] \in Seq(P \ {<< >>})
    <2>1. parts[i] \in P
        BY ElementOfSeq
    <2>2. CASE parts[i] = << >>
        <3>1. AtMostOne(parts)[i] = << >>
            BY <1>1, <2>2 DEF AtMostOne
        <3> QED
            BY <3>1, EmptySeq, Zenon
    <2>3. CASE parts[i] # << >>
        <3>1. AtMostOne(parts)[i] = <<parts[i]>> /\ parts[i] \in P \ {<< >>}
            BY <1>1, <2>1, <2>3 DEF AtMostOne
        <3> QED
            BY <3>1
    <2> QED
        BY <2>2, <2>3
<1>3. AtMostOne(parts) \in [1 .. Len(parts) -> Seq(P \ {<< >>})]
    BY <1>1, <1>2 DEF AtMostOne
<1>4. AtMostOne(parts) \in Seq(Seq(P \ {<< >>}))
    BY <1>1, <1>3, SeqDef
<1> QED
    BY <1>4, FlattenType DEF NonEmpty, AtMostOne

\* Nothing is left out where nothing is empty.
LEMMA NonEmptyOfNonEmpty ==
    ASSUME NEW P, NEW parts \in Seq(P \ {<< >>})
    PROVE  NonEmpty(parts) = parts
<1> DEFINE R == P \ {<< >>}
           Q == {q \in Seq(R) : NonEmpty(q) = q}
<1>1. << >> \in Q
    <2>1. AtMostOne(<< >>) = << >>
        BY DEF AtMostOne
    <2>2. NonEmpty(<< >>) = << >>
        BY <2>1, FlattenEmpty, Zenon DEF NonEmpty, AtMostOne
    <2> QED
        BY <2>2
<1>2. ASSUME NEW q \in Seq(R), NEW part \in R, q \in Q PROVE Append(q, part) \in Q
    <2> DEFINE longer == Append(q, part)
               a == AtMostOne(q)
               b == AtMostOne(longer)
               c == Append(a, <<part>>)
    <2>1. /\ Len(q) \in Nat /\ longer \in Seq(R) /\ Len(longer) = Len(q) + 1
          /\ longer[Len(q) + 1] = part
          /\ \A n \in 1 .. Len(q) : longer[n] = q[n]
        BY AppendProperties
    <2>2. \A n \in 1 .. Len(q) : q[n] \in R
        BY ElementOfSeq
    <2>3. part # << >> /\ \A r \in R : <<r>> \in Seq(R)
        OBVIOUS
    <2> HIDE DEF longer, R
    <2>4. DOMAIN q = 1 .. Len(q) /\ DOMAIN longer = 1 .. Len(longer)
        BY <2>1, LenProperties
    <2>5. \A n \in 1 .. Len(q) : a[n] = <<q[n]>> /\ b[n] = <<q[n]>>
        BY <2>1, <2>2, <2>4 DEF AtMostOne, R
    <2>6. b[Len(q) + 1] = <<part>>
        BY <2>1, <2>3, <2>4 DEF AtMostOne
    <2>7. a \in Seq(Seq(R)) /\ Len(a) = Len(q)
        <3>1. \A n \in 1 .. Len(q) : a[n] \in Seq(R)
            BY <2>2, <2>3, <2>5
        <3>2. a \in [1 .. Len(q) -> Seq(R)]
            BY <2>4, <3>1 DEF AtMostOne
        <3> QED
            BY <2>1, <3>2, SeqDef
    <2>8. b \in Seq(Seq(R)) /\ Len(b) = Len(q) + 1
        <3>1. \A n \in 1 .. Len(longer) : b[n] \in Seq(R)
            <4>1. ASSUME NEW n \in 1 .. Len(q) PROVE b[n] \in Seq(R)
                BY <2>2, <2>3, <2>5
            <4>2. b[Len(q) + 1] \in Seq(R)
                BY <2>3, <2>6
            <4> HIDE DEF b
            <4> QED
                BY <2>1, <4>1, <4>2
        <3>2. b \in [1 .. Len(longer) -> Seq(R)]
            BY <2>4, <3>1 DEF AtMostOne
        <3> QED
            BY <2>1, <3>2, SeqDef
    <2> HIDE DEF a, b
    <2>9. /\ c \in Seq(Seq(R)) /\ Len(c) = Len(q) + 1
          /\ c[Len(q) + 1] = <<part>>
          /\ \A n \in 1 .. Len(q) : c[n] = a[n]
        BY <2>3, <2>7, AppendProperties
    <2> HIDE DEF c
    <2>10. ASSUME NEW n \in 1 .. Len(b) PROVE b[n] = c[n]
        <3>1. CASE n \in 1 .. Len(q)
            BY <2>5, <2>9, <3>1
        <3>2. CASE n = Len(q) + 1
            BY <2>6, <2>9, <3>2
        <3> QED
            BY <2>1, <2>8, <3>1, <3>2
    <2>11. b = c
        BY <2>8, <2>9, <2>10, SeqEqual
    <2>12. FlattenSeq(c) = FlattenSeq(a) \o <<part>>
        BY <2>3, <2>7, FlattenAppend DEF c
    <2>13. FlattenSeq(a) = q
        BY <1>2 DEF NonEmpty, AtMostOne, a
    <2>14. NonEmpty(longer) = q \o <<part>>
        BY <2>11, <2>12, <2>13 DEF NonEmpty, AtMostOne, b
    <2>15. q \o <<part>> = longer
        BY AppendIsConcat DEF longer
    <2> QED
        BY <2>1, <2>14, <2>15 DEF longer
<1>3. Seq(R) \subseteq Q
    <2> HIDE DEF Q, R
    <2> QED
        BY <1>1, <1>2, SequenceInduction
<1> QED
    BY <1>3

\* The same for the parts that NonEmpty leaves; none are none again.
LEMMA NonEmptySplitOfJoin ==
    ASSUME NEW S, NEW delimiter \in S, NEW parts \in Seq(Seq(S \ {delimiter}) \ {<< >>})
    PROVE  NonEmpty(Split(Join(parts, delimiter), delimiter)) = parts
<1>1. CASE parts = << >>
    <2>1. Split(Join(parts, delimiter), delimiter) = << << >> >>
        BY <1>1, JoinEmpty, SplitEmpty
    <2>2. AtMostOne(<< << >> >>) = << << >> >>
        BY DEF AtMostOne
    <2>3. FlattenSeq(<< << >> >>) = << >>
        <3>1. << << >> >> = Append(<< >>, << >>) /\ << >> \in Seq(Seq({})) /\ << >> \in Seq({})
            OBVIOUS
        <3>2. FlattenSeq(Append(<< >>, << >>)) = FlattenSeq(<< >>) \o << >>
            BY <3>1, FlattenAppend
        <3>3. << >> \o << >> = << >>
            OBVIOUS
        <3> QED
            BY <3>1, <3>2, <3>3, FlattenEmpty
    <2> QED
        BY <1>1, <2>1, <2>2, <2>3 DEF NonEmpty, AtMostOne
<1>2. CASE parts # << >>
    <2>1. parts \in Seq(Seq(S \ {delimiter}))
        <3>1. Seq(S \ {delimiter}) \ {<< >>} \subseteq Seq(S \ {delimiter})
            OBVIOUS
        <3> QED
            BY <3>1, SeqMonotonic
    <2>2. Split(Join(parts, delimiter), delimiter) = parts
        BY <1>2, <2>1, SplitOfJoin
    <2> QED
        BY <2>2, NonEmptyOfNonEmpty
<1> QED
    BY <1>1, <1>2

-------------------------------------------------------------------------------
(* Entries, and the map a text stands for. *)

\* FirstColon finds the first one, if there is one.
LEMMA ColonFound ==
    ASSUME NEW S, NEW entry \in Seq(S)
    PROVE  /\ FirstColon(entry) \in 0 .. Len(entry)
           /\ FirstColon(entry) = 0 => \A i \in 1 .. Len(entry) : entry[i] # Colon
           /\ FirstColon(entry) # 0 => /\ entry[FirstColon(entry)] = Colon
                                  /\ \A i \in 1 .. FirstColon(entry) - 1 : entry[i] # Colon
<1> DEFINE I == {i \in 1 .. Len(entry) : entry[i] = Colon}
<1>1. Len(entry) \in Nat
    OBVIOUS
<1>2. FirstColon(entry) = IF I # {} THEN CHOOSE i \in I : \A j \in I : i <= j ELSE 0
    BY DEF FirstColon, SelectInSeq, Min
<1>3. CASE I = {}
    BY <1>1, <1>2, <1>3
<1>4. CASE I # {}
    <2>1. I \in SUBSET Nat
        BY <1>1
    <2>2. \E i \in I : \A j \in I : i <= j
        BY <1>4, <2>1, Least
    <2>3. FirstColon(entry) \in I /\ \A j \in I : FirstColon(entry) <= j
        <3> HIDE DEF I
        <3> QED
            BY <1>2, <1>4, <2>2
    <2> QED
        BY <1>1, <2>3
<1> QED
    BY <1>3, <1>4

\* A key id ends before a colon, so that it has none.
LEMMA KeyIdType ==
    ASSUME NEW S, NEW entry \in Seq(S)
    PROVE  KeyIdOf(entry) \in Seq(S \ {Colon})
<1>1. /\ Len(entry) \in Nat /\ FirstColon(entry) \in 0 .. Len(entry)
      /\ \A i \in 1 .. FirstColon(entry) - 1 : entry[i] # Colon
    BY ColonFound
<1>2. \A i \in 1 .. FirstColon(entry) - 1 : entry[i] \in S \ {Colon}
    BY <1>1, ElementOfSeq
<1> QED
    BY <1>1, <1>2, SubSeqProperties DEF KeyIdOf

\* No column of an entry is empty or has a comma.
LEMMA ColumnsType ==
    ASSUME NEW S, NEW entry \in Seq(S)
    PROVE  ColumnsOf(entry) \in Seq(Seq(S \ {Comma}) \ {<< >>})
<1> DEFINE list == SubSeq(entry, FirstColon(entry) + 1, Len(entry))
<1>1. Len(entry) \in Nat /\ FirstColon(entry) \in 0 .. Len(entry)
    BY ColonFound
<1>2. \A i \in FirstColon(entry) + 1 .. Len(entry) : entry[i] \in S
    BY <1>1, ElementOfSeq
<1>3. list \in Seq(S)
    BY <1>1, <1>2, SubSeqProperties
<1> HIDE DEF list
<1>4. Split(list, Comma) \in Seq(Seq(S \ {Comma}))
    BY <1>3, SplitType
<1> QED
    BY <1>4, NonEmptyType DEF ColumnsOf, list

\* No entry has a semicolon.
LEMMA EntriesType ==
    ASSUME NEW S, NEW text \in Seq(S)
    PROVE  Entries(text) \in Seq(Seq(S \ {Semicolon}))
<1> DEFINE P == Seq(S \ {Semicolon})
<1>1. Split(text, Semicolon) \in Seq(P)
    BY SplitType
<1> HIDE DEF P
<1>2. Entries(text) \in Seq(P \ {<< >>})
    BY <1>1, NonEmptyType DEF Entries
<1>3. P \ {<< >>} \subseteq P
    OBVIOUS
<1>4. Entries(text) \in Seq(P)
    BY <1>2, <1>3, SeqMonotonic
<1> QED
    BY <1>4 DEF P

\* The last entry for a key id is one.
LEMMA LastEntry ==
    ASSUME NEW S, NEW entries \in Seq(S), NEW id, NEW k \in DOMAIN entries,
           KeyIdOf(entries[k]) = id
    PROVE  /\ LastFor(entries, id) \in DOMAIN entries
           /\ KeyIdOf(entries[LastFor(entries, id)]) = id
           /\ \A j \in DOMAIN entries : KeyIdOf(entries[j]) = id => j <= LastFor(entries, id)
<1> DEFINE I == {i \in 1 .. Len(entries) : KeyIdOf(entries[i]) = id}
           B == {Len(entries) - i : i \in I}
<1>1. Len(entries) \in Nat /\ DOMAIN entries = 1 .. Len(entries)
    BY LenProperties
<1>2. B \in SUBSET Nat /\ B # {}
    BY <1>1
<1>3. PICK n \in B : \A m \in B : n <= m
    BY <1>2, Least
<1>4. PICK i \in I : n = Len(entries) - i
    BY <1>3
<1>5. ASSUME NEW j \in I PROVE j <= i
    <2>1. Len(entries) - j \in B
        OBVIOUS
    <2>2. n <= Len(entries) - j
        BY <1>3, <2>1
    <2> QED
        BY <1>1, <1>4, <2>2
<1>6. /\ i \in DOMAIN entries /\ KeyIdOf(entries[i]) = id
      /\ \A j \in DOMAIN entries : KeyIdOf(entries[j]) = id => j <= i
    BY <1>1, <1>5
<1> QED
    BY <1>6, Zenon DEF LastFor

\* Whatever a text is, it stands for a finite map from key ids without colon or
\* semicolon to columns that have names, without comma or semicolon (datafusion.rs:
\* deserialize_column_keys).
THEOREM DeserializeType ==
    ASSUME NEW S, NEW text \in Seq(S)
    PROVE  /\ DOMAIN Deserialize(text) \subseteq Seq(S \ {Semicolon, Colon})
           /\ IsFiniteSet(DOMAIN Deserialize(text))
           /\ Deserialize(text)
                  \in [DOMAIN Deserialize(text) -> Seq(Seq(S \ {Semicolon, Comma}) \ {<< >>})]
<1> DEFINE entries == Entries(text)
           T == S \ {Semicolon}
           ids == {KeyIdOf(entries[i]) : i \in DOMAIN entries}
<1>1. entries \in Seq(Seq(T))
    BY EntriesType
<1>2. DOMAIN entries = 1 .. Len(entries) /\ Len(entries) \in Nat
    BY <1>1, LenProperties
<1>3. Deserialize(text) = [id \in ids |-> ColumnsOf(entries[LastFor(entries, id)])]
    BY DEF Deserialize
<1> HIDE DEF entries
<1>4. \A i \in DOMAIN entries : entries[i] \in Seq(T)
    BY <1>1, <1>2, ElementOfSeq
<1>5. ids \subseteq Seq(S \ {Semicolon, Colon})
    <2>1. T \ {Colon} = S \ {Semicolon, Colon}
        OBVIOUS
    <2> HIDE DEF T
    <2>2. \A i \in DOMAIN entries : KeyIdOf(entries[i]) \in Seq(T \ {Colon})
        BY <1>4, KeyIdType
    <2> QED
        BY <2>1, <2>2
<1>6. IsFiniteSet(ids)
    <2>1. IsFiniteSet(1 .. Len(entries))
        BY <1>2, FS_Interval
    <2> DEFINE keyId == [i \in 1 .. Len(entries) |-> KeyIdOf(entries[i])]
    <2>2. keyId \in Surjection(1 .. Len(entries), ids)
        <3>1. keyId \in [1 .. Len(entries) -> ids]
            BY <1>2
        <3>2. \A id \in ids : \E i \in 1 .. Len(entries) : keyId[i] = id
            BY <1>2
        <3> QED
            BY <3>1, <3>2 DEF Surjection
    <2> HIDE DEF ids, keyId
    <2> QED
        BY <2>1, <2>2, FS_Surjection
<1>7. \A id \in ids : ColumnsOf(entries[LastFor(entries, id)])
                          \in Seq(Seq(S \ {Semicolon, Comma}) \ {<< >>})
    <2>1. T \ {Comma} = S \ {Semicolon, Comma}
        OBVIOUS
    <2> HIDE DEF T
    <2>2. \A id \in ids : LastFor(entries, id) \in DOMAIN entries
        BY <1>1, LastEntry
    <2>3. \A i \in DOMAIN entries : ColumnsOf(entries[i]) \in Seq(Seq(T \ {Comma}) \ {<< >>})
        BY <1>4, ColumnsType
    <2> QED
        BY <2>1, <2>2, <2>3
<1> HIDE DEF ids
<1> QED
    BY <1>3, <1>5, <1>6, <1>7

\* An entry says its key id and columns, if there is no delimiter in the way.
LEMMA EntrySays ==
    ASSUME NEW S, {Colon, Comma} \subseteq S, NEW id \in Seq(S \ {Colon}),
           NEW columns \in Seq(Seq(S \ {Comma}) \ {<< >>})
    PROVE  /\ Entry(id, columns) \in Seq(S)
           /\ FirstColon(Entry(id, columns)) # 0
           /\ KeyIdOf(Entry(id, columns)) = id
           /\ ColumnsOf(Entry(id, columns)) = columns
<1> DEFINE list == Join(columns, Comma)
           entry == Entry(id, columns)
           n == Len(id)
<1>1. id \in Seq(S) /\ n \in Nat
    <2>1. S \ {Colon} \subseteq S
        OBVIOUS
    <2> QED
        BY <2>1, SeqMonotonic
<1>2. columns \in Seq(Seq(S \ {Comma})) /\ columns \in Seq(Seq(S))
    <2>1. S \ {Comma} \subseteq S
        OBVIOUS
    <2>2. Seq(S \ {Comma}) \subseteq Seq(S)
        BY <2>1, SeqMonotonic
    <2>3. Seq(S \ {Comma}) \ {<< >>} \subseteq Seq(S \ {Comma})
        OBVIOUS
    <2> QED
        BY <2>2, <2>3, SeqMonotonic
<1>3. list \in Seq(S) /\ Len(list) \in Nat
    BY <1>2, JoinType
<1>4. <<Colon>> \in Seq(S) /\ id \o <<Colon>> \in Seq(S) /\ Len(id \o <<Colon>>) = n + 1
    BY <1>1, ConcatProperties
<1>5. entry = (id \o <<Colon>>) \o list
    BY DEF Entry
<1> HIDE DEF list, entry
<1>6. /\ entry \in Seq(S) /\ Len(entry) = n + 1 + Len(list)
      /\ \A i \in 1 .. n : entry[i] = id[i]
      /\ entry[n + 1] = Colon
      /\ \A i \in 1 .. Len(list) : entry[n + 1 + i] = list[i]
    <2>1. \A i \in 1 .. n + 1 : (id \o <<Colon>>)[i] = IF i <= n THEN id[i] ELSE Colon
        BY <1>1, <1>4, ConcatProperties
    <2>2. /\ entry \in Seq(S) /\ Len(entry) = n + 1 + Len(list)
          /\ \A i \in 1 .. n + 1 + Len(list) :
                 entry[i] = IF i <= n + 1 THEN (id \o <<Colon>>)[i] ELSE list[i - (n + 1)]
        BY <1>3, <1>4, <1>5, ConcatProperties
    <2>3. \A i \in 1 .. n + 1 : entry[i] = IF i <= n THEN id[i] ELSE Colon
        BY <1>1, <1>3, <2>1, <2>2
    <2>4. ASSUME NEW i \in 1 .. Len(list) PROVE entry[n + 1 + i] = list[i]
        <3>1. n + 1 + i \in 1 .. n + 1 + Len(list) /\ ~ n + 1 + i <= n + 1
              /\ (n + 1 + i) - (n + 1) = i
            BY <1>1, <1>3
        <3> QED
            BY <2>2, <3>1
    <2>5. \A i \in 1 .. n : entry[i] = id[i]
        BY <1>1, <2>3
    <2>6. entry[n + 1] = Colon
        BY <1>1, <2>3
    <2> QED
        BY <2>2, <2>4, <2>5, <2>6
<1>7. \A i \in 1 .. n : entry[i] # Colon
    <2>1. \A i \in 1 .. n : id[i] \in S \ {Colon}
        BY ElementOfSeq
    <2> QED
        BY <1>6, <2>1
<1>8. FirstColon(entry) = n + 1
    <2>1. n + 1 \in 1 .. Len(entry)
        BY <1>1, <1>3, <1>6
    <2>2. FirstColon(entry) # 0
        BY <1>6, <2>1, ColonFound
    <2>3. /\ FirstColon(entry) \in 1 .. Len(entry) /\ entry[FirstColon(entry)] = Colon
          /\ \A i \in 1 .. FirstColon(entry) - 1 : entry[i] # Colon
        BY <1>6, <2>2, ColonFound
    <2>4. ~ FirstColon(entry) <= n
        BY <1>1, <1>7, <2>3
    <2>5. ~ FirstColon(entry) > n + 1
        BY <1>1, <1>6, <2>1, <2>3
    <2> QED
        BY <1>1, <1>6, <2>3, <2>4, <2>5
<1>9. KeyIdOf(entry) = id
    <2>1. (n + 1) - 1 = n
        BY <1>1
    <2>2. \A i \in 1 .. n : entry[i] \in S
        BY <1>1, <1>6, ElementOfSeq
    <2>3. /\ SubSeq(entry, 1, n) \in Seq(S) /\ Len(SubSeq(entry, 1, n)) = n
          /\ \A i \in 1 .. n : SubSeq(entry, 1, n)[i] = entry[i]
        BY <1>1, <2>2, SubSeqProperties
    <2>4. SubSeq(entry, 1, n) = id
        BY <1>1, <1>6, <2>3, SeqEqual
    <2> QED
        BY <1>8, <2>1, <2>4 DEF KeyIdOf
<1>10. SubSeq(entry, FirstColon(entry) + 1, Len(entry)) = list
    <2> DEFINE rest == SubSeq(entry, n + 2, Len(entry))
    <2>1. n + 1 + 1 = n + 2
        BY <1>1
    <2>2. \A i \in n + 2 .. Len(entry) : entry[i] \in S
        BY <1>1, <1>6, ElementOfSeq
    <2>3. /\ rest \in Seq(S)
          /\ Len(rest) = IF n + 2 <= Len(entry) THEN Len(entry) - (n + 2) + 1 ELSE 0
          /\ \A i \in 1 .. Len(entry) - (n + 2) + 1 : rest[i] = entry[n + 2 + i - 1]
        BY <1>1, <1>6, <2>2, SubSeqProperties
    <2> HIDE DEF rest
    <2>4. Len(rest) = Len(list) /\ Len(entry) - (n + 2) + 1 = Len(list)
        BY <1>1, <1>3, <1>6, <2>3
    <2>5. ASSUME NEW i \in 1 .. Len(list) PROVE rest[i] = list[i]
        <3>1. n + 2 + i - 1 = n + 1 + i
            BY <1>1, <1>3
        <3> QED
            BY <1>6, <2>3, <2>4, <3>1
    <2>6. rest = list
        BY <1>3, <2>3, <2>4, <2>5, SeqEqual
    <2> QED
        BY <1>8, <2>1, <2>6 DEF rest
<1>11. ColumnsOf(entry) = columns
    <2>1. NonEmpty(Split(list, Comma)) = columns
        BY NonEmptySplitOfJoin DEF list
    <2> QED
        BY <1>10, <2>1 DEF ColumnsOf
<1>12. n + 1 # 0
    BY <1>1
<1> QED
    BY <1>6, <1>8, <1>9, <1>11, <1>12 DEF entry

\* A map that a text can express is the map that its text stands for, in whatever order
\* its keys come: deserialize_column_keys undoes serialize_column_keys of datafusion.rs
\* unless a delimiter is in the way or a column has no name.
THEOREM DeserializeOfSerialize ==
    ASSUME NEW S, Delimiters \subseteq S, NEW keys, NEW n \in Nat,
           DOMAIN keys \subseteq Seq(S \ {Semicolon, Colon}),
           keys \in [DOMAIN keys -> Seq(Seq(S \ {Semicolon, Comma}) \ {<< >>})],
           NEW order \in Surjection(1 .. n, DOMAIN keys)
    PROVE  /\ WellFormed(Serialize(keys, order))
           /\ Deserialize(Serialize(keys, order)) = keys
<1> DEFINE T == S \ {Semicolon}
           list == [i \in DOMAIN order |-> Entry(order[i], keys[order[i]])]
           text == Serialize(keys, order)
<1>1. /\ DOMAIN order = 1 .. n /\ \A i \in 1 .. n : order[i] \in DOMAIN keys
      /\ \A id \in DOMAIN keys : \E i \in 1 .. n : order[i] = id
    BY DEF Surjection
<1>2. /\ {Colon, Comma} \subseteq T /\ Semicolon \in S
      /\ T \ {Colon} = S \ {Semicolon, Colon} /\ T \ {Comma} = S \ {Semicolon, Comma}
    <2>1. Colon # Semicolon /\ Comma # Semicolon
        BY Zenon DEF Colon, Comma, Semicolon
    <2> QED
        BY <2>1 DEF Delimiters
<1> HIDE DEF T
<1>3. ASSUME NEW i \in 1 .. n
      PROVE  /\ list[i] \in Seq(T) \ {<< >>}
             /\ FirstColon(list[i]) # 0
             /\ KeyIdOf(list[i]) = order[i]
             /\ ColumnsOf(list[i]) = keys[order[i]]
    <2>1. order[i] \in Seq(T \ {Colon}) /\ keys[order[i]] \in Seq(Seq(T \ {Comma}) \ {<< >>})
        BY <1>1, <1>2
    <2>2. list[i] = Entry(order[i], keys[order[i]])
        BY <1>1
    <2>3. \A id \in Seq(T \ {Colon}), columns \in Seq(Seq(T \ {Comma}) \ {<< >>}) :
              /\ Entry(id, columns) \in Seq(T)
              /\ FirstColon(Entry(id, columns)) # 0
              /\ KeyIdOf(Entry(id, columns)) = id
              /\ ColumnsOf(Entry(id, columns)) = columns
        BY <1>2, EntrySays
    <2> HIDE DEF list
    <2>4. /\ list[i] \in Seq(T) /\ FirstColon(list[i]) # 0
          /\ KeyIdOf(list[i]) = order[i] /\ ColumnsOf(list[i]) = keys[order[i]]
        BY <2>1, <2>2, <2>3
    <2>5. list[i] # << >>
        <3>1. FirstColon(list[i]) \in 0 .. Len(list[i])
            BY <2>4, ColonFound
        <3> QED
            BY <2>4, <3>1, EmptySeq
    <2> QED
        BY <2>4, <2>5
<1>4. list \in Seq(Seq(T) \ {<< >>}) /\ DOMAIN list = 1 .. n
    <2>1. DOMAIN list = 1 .. n /\ list = [i \in 1 .. n |-> list[i]]
        BY <1>1
    <2>2. list \in [1 .. n -> Seq(T) \ {<< >>}]
        <3> HIDE DEF list
        <3> QED
            BY <1>3, <2>1
    <2> QED
        BY <2>1, <2>2, SeqDef
<1>5. Entries(text) = list
    <2>1. text = Join(list, Semicolon)
        BY DEF Serialize
    <2> HIDE DEF text, list
    <2> QED
        BY <1>2, <1>4, <2>1, NonEmptySplitOfJoin DEF Entries, T
<1>6. WellFormed(text)
    <2> HIDE DEF text, list
    <2> QED
        BY <1>3, <1>4, <1>5 DEF WellFormed
<1>7. Deserialize(text) = keys
    <2> DEFINE ids == {KeyIdOf(list[i]) : i \in DOMAIN list}
    <2> HIDE DEF text, list
    <2>1. ids = DOMAIN keys
        <3>1. \A i \in 1 .. n : KeyIdOf(list[i]) = order[i]
            BY <1>3
        <3>2. ids = {order[i] : i \in 1 .. n}
            BY <1>4, <3>1
        <3> QED
            BY <1>1, <3>2
    <2>2. Deserialize(text) = [id \in ids |-> ColumnsOf(list[LastFor(list, id)])]
        BY <1>5 DEF Deserialize
    <2>3. ASSUME NEW id \in DOMAIN keys PROVE ColumnsOf(list[LastFor(list, id)]) = keys[id]
        <3>1. PICK k \in DOMAIN list : KeyIdOf(list[k]) = id
            BY <2>1
        <3>2. LastFor(list, id) \in DOMAIN list /\ KeyIdOf(list[LastFor(list, id)]) = id
            BY <1>4, <3>1, LastEntry
        <3> QED
            BY <1>3, <1>4, <3>2
    <2> HIDE DEF ids
    <2> QED
        BY <2>1, <2>2, <2>3
<1> QED
    BY <1>6, <1>7
================================================================================
