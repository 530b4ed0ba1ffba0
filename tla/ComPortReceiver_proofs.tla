----------------------- MODULE ComPortReceiver_proofs -----------------------
(***************************************************************************)
(* Proofs about the byte stuffing, the reference decoder and the receive    *)
(* loop.  What FlattenSeq and the decoder compute is shown for sequences of *)
(* every length, by induction in the form of SetInduction.                  *)
(***************************************************************************)
EXTENDS ComPortReceiver, SequenceTheorems, WellFoundedInduction, TLAPS

\* Induction on the natural numbers, for a set: the theorem of the library takes
\* the predicate as an operator.
LEMMA SetInduction ==
    ASSUME NEW S, 0 \in S, \A n \in Nat : n \in S => n + 1 \in S
    PROVE  Nat \subseteq S
<1> DEFINE R == OpToRel(<, Nat)
           T == Nat \ S
<1> SUFFICES ASSUME T # {} PROVE FALSE
  OBVIOUS
<1>1. PICK x \in T : \A y \in T : <<y, x>> \notin R
  <2>1. IsWellFoundedOn(R, Nat)
    BY NatLessThanWellFounded
  <2>2. T \subseteq Nat
    OBVIOUS
  <2> HIDE DEF R, T
  <2>3. QED
    BY <2>1, <2>2, WFMin, Zenon
<1>2. \A y \in T : ~(y < x)
  BY <1>1 DEF OpToRel
<1>3. x # 0 /\ x - 1 \in Nat
  OBVIOUS
<1>4. x - 1 \in T
  BY <1>3
<1>5. QED
  BY <1>2, <1>3, <1>4

\* The function FlattenSeq is defined by, on the first n of the sequences ss.
IsFlatten(f, ss, n) ==
    f = [i \in 1..n |-> IF i = 1 THEN ss[i] ELSE f[i - 1] \o ss[i]]

LEMMA FlattenExists ==
    ASSUME NEW ss, NEW n \in Nat
    PROVE  \E f : IsFlatten(f, ss, n)
<1> DEFINE S == {m \in Nat : \E f : IsFlatten(f, ss, m)}
<1>1. 0 \in S
  <2>1. IsFlatten(<<>>, ss, 0)
    BY DEF IsFlatten
  <2>2. QED
    BY <2>1
<1>2. ASSUME NEW m \in Nat, m \in S PROVE m + 1 \in S
  <2>1. PICK f : IsFlatten(f, ss, m)
    BY <1>2
  <2> DEFINE g == [i \in 1..(m + 1) |->
                     IF i <= m THEN f[i] ELSE IF m = 0 THEN ss[i] ELSE f[m] \o ss[i]]
  <2>2. \A i \in 1..m : f[i] = IF i = 1 THEN ss[i] ELSE f[i - 1] \o ss[i]
    BY <2>1 DEF IsFlatten
  <2>3. \A i \in 1..(m + 1) : g[i] = IF i = 1 THEN ss[i] ELSE g[i - 1] \o ss[i]
    BY <2>2
  <2>4. g = [i \in 1..(m + 1) |-> IF i = 1 THEN ss[i] ELSE g[i - 1] \o ss[i]]
    BY <2>3
  <2>5. IsFlatten(g, ss, m + 1)
    BY <2>4 DEF IsFlatten
  <2>6. QED
    BY <2>5
<1>3. Nat \subseteq S
  <2> HIDE DEF S
  <2>1. QED
    BY <1>1, <1>2, SetInduction
<1>4. QED
  BY <1>3

LEMMA FlattenStep ==
    ASSUME NEW f, NEW ss, NEW n \in Nat, IsFlatten(f, ss, n)
    PROVE  \A i \in 1..n : f[i] = IF i = 1 THEN ss[i] ELSE f[i - 1] \o ss[i]
BY DEF IsFlatten

\* It is determined by the sequences it joins.
LEMMA FlattenUnique ==
    ASSUME NEW ss, NEW tt, NEW f, NEW g, NEW m \in Nat, NEW n \in Nat, m <= n,
           IsFlatten(f, ss, m), IsFlatten(g, tt, n), \A i \in 1..m : ss[i] = tt[i]
    PROVE  \A i \in 1..m : f[i] = g[i]
<1> DEFINE S == {k \in Nat : k \in 1..m => f[k] = g[k]}
<1>1. 0 \in S
  OBVIOUS
<1>2. ASSUME NEW k \in Nat, k \in S PROVE k + 1 \in S
  <2> SUFFICES ASSUME k + 1 \in 1..m PROVE f[k + 1] = g[k + 1]
    OBVIOUS
  <2>1. \A i \in 1..m : f[i] = IF i = 1 THEN ss[i] ELSE f[i - 1] \o ss[i]
    BY FlattenStep
  <2>2. \A i \in 1..n : g[i] = IF i = 1 THEN tt[i] ELSE g[i - 1] \o tt[i]
    BY FlattenStep
  <2>3. CASE k = 0
    BY <2>1, <2>2, <2>3
  <2>4. CASE k # 0
    BY <1>2, <2>1, <2>2, <2>4
  <2>5. QED
    BY <2>3, <2>4
<1>3. Nat \subseteq S
  <2> HIDE DEF S
  <2>1. QED
    BY <1>1, <1>2, SetInduction
<1>4. QED
  BY <1>3

LEMMA FlattenIs ==
    ASSUME NEW ss, Len(ss) \in Nat \ {0}
    PROVE  \E f : IsFlatten(f, ss, Len(ss)) /\ FlattenSeq(ss) = f[Len(ss)]
<1> DEFINE f == CHOOSE f : IsFlatten(f, ss, Len(ss))
<1>1. IsFlatten(f, ss, Len(ss))
  BY FlattenExists
<1>2. FlattenSeq(ss) = f[Len(ss)]
  BY DEF FlattenSeq, IsFlatten
<1>3. QED
  BY <1>1, <1>2

\* FlattenSeq by its empty case, its step and its type.
LEMMA FlattenEmpty == FlattenSeq(<<>>) = <<>>
BY DEF FlattenSeq

LEMMA FlattenLonger ==
    ASSUME NEW ss, NEW tt, NEW n \in Nat \ {0}, Len(ss) = n, Len(tt) = n + 1,
           \A i \in 1..n : ss[i] = tt[i]
    PROVE  FlattenSeq(tt) = FlattenSeq(ss) \o tt[n + 1]
<1>1. PICK f : IsFlatten(f, ss, n) /\ FlattenSeq(ss) = f[n]
  BY FlattenIs
<1>2. PICK g : IsFlatten(g, tt, n + 1) /\ FlattenSeq(tt) = g[n + 1]
  BY FlattenIs
<1>3. f[n] = g[n]
  BY <1>1, <1>2, FlattenUnique
<1>4. \A i \in 1..(n + 1) : g[i] = IF i = 1 THEN tt[i] ELSE g[i - 1] \o tt[i]
  BY <1>2, FlattenStep
<1>5. g[n + 1] = g[n] \o tt[n + 1]
  <2>1. n + 1 \in 1..(n + 1) /\ n + 1 # 1 /\ (n + 1) - 1 = n
    OBVIOUS
  <2>2. QED
    BY <1>4, <2>1, Zenon
<1>6. QED
  BY <1>1, <1>2, <1>3, <1>5

LEMMA FlattenOne == ASSUME NEW ss, Len(ss) = 1 PROVE FlattenSeq(ss) = ss[1]
<1>1. Len(ss) \in Nat \ {0}
  OBVIOUS
<1>2. PICK f : IsFlatten(f, ss, Len(ss)) /\ FlattenSeq(ss) = f[Len(ss)]
  BY <1>1, FlattenIs
<1>3. QED
  BY <1>2, FlattenStep

LEMMA FlattenAppend ==
    ASSUME NEW T, NEW ss \in Seq(Seq(T)), NEW x \in Seq(T)
    PROVE  FlattenSeq(Append(ss, x)) = FlattenSeq(ss) \o x
<1> DEFINE tt == Append(ss, x)
<1>1. Len(tt) = Len(ss) + 1 /\ tt[Len(ss) + 1] = x /\ Len(ss) \in Nat
  OBVIOUS
<1>2. \A i \in 1..Len(ss) : ss[i] = tt[i]
  OBVIOUS
<1>3. CASE ss = <<>>
  <2>1. FlattenSeq(tt) = x
    BY <1>1, <1>3, FlattenOne
  <2>2. QED
    BY <1>3, <2>1, FlattenEmpty
<1>4. CASE ss # <<>>
  <2>1. Len(ss) # 0
    BY <1>4
  <2> HIDE DEF tt
  <2>2. FlattenSeq(tt) = FlattenSeq(ss) \o tt[Len(ss) + 1]
    BY <1>1, <1>2, <2>1, FlattenLonger
  <2>3. QED
    BY <1>1, <2>2 DEF tt
<1>5. QED
  BY <1>3, <1>4

LEMMA FlattenType ==
    ASSUME NEW T, NEW ss \in Seq(Seq(T))
    PROVE  FlattenSeq(ss) \in Seq(T)
<1> DEFINE S == {n \in Nat : \A tt \in Seq(Seq(T)) : Len(tt) = n => FlattenSeq(tt) \in Seq(T)}
<1>1. 0 \in S
  <2> SUFFICES ASSUME NEW tt \in Seq(Seq(T)), Len(tt) = 0 PROVE FlattenSeq(tt) \in Seq(T)
    OBVIOUS
  <2>1. tt = <<>>
    OBVIOUS
  <2>2. QED
    BY <2>1, FlattenEmpty, EmptySeq
<1>2. ASSUME NEW n \in Nat, n \in S PROVE n + 1 \in S
  <2> SUFFICES ASSUME NEW tt \in Seq(Seq(T)), Len(tt) = n + 1
               PROVE  FlattenSeq(tt) \in Seq(T)
    OBVIOUS
  <2> DEFINE front == SubSeq(tt, 1, n)
             last == tt[n + 1]
  <2>1. front \in Seq(Seq(T)) /\ Len(front) = n /\ last \in Seq(T) /\ tt = Append(front, last)
    OBVIOUS
  <2>2. FlattenSeq(front) \in Seq(T)
    BY <1>2, <2>1
  <2>3. FlattenSeq(tt) = FlattenSeq(front) \o last
    BY <2>1, FlattenAppend
  <2>4. QED
    BY <2>1, <2>2, <2>3
<1>3. Nat \subseteq S
  <2> HIDE DEF S
  <2>1. QED
    BY <1>1, <1>2, SetInduction
<1>4. QED
  BY <1>3
-----------------------------------------------------------------------------
(* The reference decoder, byte by byte. *)

\* An ESC is pending after s.
Pending(s) == Escaped(s, Len(s) + 1)

\* Undoing an escape yields a byte.
LEMMA SetBit7Type == ASSUME NEW b \in Byte PROVE SetBit7(b) \in Byte
BY DEF SetBit7, Byte

LEMMA DecodedByteType ==
    ASSUME NEW s \in Seq(Byte), NEW n \in 1..Len(s)
    PROVE  DecodedByte(s, n) \in Seq(Byte)
<1>1. s[n] \in Byte /\ SetBit7(s[n]) \in Byte
  BY SetBit7Type
<1>2. QED
  BY <1>1 DEF DecodedByte

LEMMA DecodeType == ASSUME NEW s \in Seq(Byte) PROVE DecodeBody(s) \in Seq(Byte)
<1>1. [n \in DOMAIN s |-> DecodedByte(s, n)] \in Seq(Seq(Byte))
  BY DecodedByteType, IsASeq
<1>2. QED
  BY <1>1, FlattenType DEF DecodeBody

LEMMA DecodeEmpty == DecodeBody(<<>>) = <<>>
<1>1. [n \in DOMAIN <<>> |-> DecodedByte(<<>>, n)] = <<>>
  OBVIOUS
<1>2. QED
  BY <1>1, FlattenEmpty DEF DecodeBody

\* What a byte carries is settled by what comes before it.
LEMMA EscapedPrefix ==
    ASSUME NEW s \in Seq(Byte), NEW b \in Byte, NEW n \in 1..(Len(s) + 1)
    PROVE  Escaped(Append(s, b), n) <=> Escaped(s, n)
<1>1. \A i \in 1..Len(s) : Append(s, b)[i] = s[i]
  OBVIOUS
<1>2. \A i \in 1..(n - 1) : i \in 1..Len(s)
  OBVIOUS
<1>3. \A i \in 1..(n - 1) : \A j \in (i + 1)..(n - 1) : j \in 1..Len(s)
  OBVIOUS
<1> DEFINE t == Append(s, b)
<1> HIDE DEF t
<1>4. QED
  BY <1>1, <1>2, <1>3 DEF Escaped, t

LEMMA PendingAppend ==
    ASSUME NEW s \in Seq(Byte), NEW b \in Byte
    PROVE  Pending(Append(s, b)) <=> b = FLAG_ESC \/ (b = FLAG__NULL /\ Pending(s))
<1> DEFINE t == Append(s, b)
           n == Len(s) + 1
<1>1. Len(t) = n /\ t[n] = b /\ (\A i \in 1..Len(s) : t[i] = s[i]) /\ Len(s) \in Nat
  OBVIOUS
<1> HIDE DEF t
<1>2. Pending(t) <=> \E i \in 1..n : t[i] = FLAG_ESC /\ \A j \in (i + 1)..n : t[j] = FLAG__NULL
  BY <1>1 DEF Pending, Escaped
<1>3. Pending(s) <=>
        \E i \in 1..Len(s) : s[i] = FLAG_ESC /\ \A j \in (i + 1)..Len(s) : s[j] = FLAG__NULL
  BY <1>1 DEF Pending, Escaped
<1>4. CASE b = FLAG_ESC
  <2>1. n \in 1..n /\ t[n] = FLAG_ESC /\ \A j \in (n + 1)..n : t[j] = FLAG__NULL
    BY <1>1, <1>4
  <2>2. QED
    BY <1>2, <1>4, <2>1 DEF t
<1>5. CASE b = FLAG__NULL
  <2>1. ASSUME Pending(t) PROVE Pending(s)
    <3>1. PICK i \in 1..n : t[i] = FLAG_ESC /\ \A j \in (i + 1)..n : t[j] = FLAG__NULL
      BY <1>2, <2>1
    <3>2. i \in 1..Len(s)
      BY <1>1, <1>5, <3>1 DEF FLAG_ESC, FLAG__NULL
    <3>3. s[i] = FLAG_ESC /\ \A j \in (i + 1)..Len(s) : s[j] = FLAG__NULL
      BY <1>1, <3>1, <3>2
    <3>4. QED
      BY <1>3, <3>2, <3>3
  <2>2. ASSUME Pending(s) PROVE Pending(t)
    <3>1. PICK i \in 1..Len(s) : s[i] = FLAG_ESC /\ \A j \in (i + 1)..Len(s) : s[j] = FLAG__NULL
      BY <1>3, <2>2
    <3>2. i \in 1..n /\ t[i] = FLAG_ESC /\ \A j \in (i + 1)..n : t[j] = FLAG__NULL
      BY <1>1, <1>5, <3>1
    <3>3. QED
      BY <1>2, <3>2
  <2>3. QED
    BY <1>5, <2>1, <2>2 DEF t, FLAG_ESC, FLAG__NULL
<1>6. CASE b \notin {FLAG_ESC, FLAG__NULL}
  <2>1. ASSUME Pending(t) PROVE FALSE
    <3>1. PICK i \in 1..n : t[i] = FLAG_ESC /\ \A j \in (i + 1)..n : t[j] = FLAG__NULL
      BY <1>2, <2>1
    <3>2. n \in (i + 1)..n
      BY <1>1, <1>6, <3>1
    <3>3. QED
      BY <1>1, <1>6, <3>1, <3>2
  <2>2. QED
    BY <1>6, <2>1 DEF t
<1>7. QED
  BY <1>4, <1>5, <1>6

LEMMA DecodeAppend ==
    ASSUME NEW s \in Seq(Byte), NEW b \in Byte
    PROVE  DecodeBody(Append(s, b)) =
               IF b \in {FLAG_ESC, FLAG__NULL} THEN DecodeBody(s)
               ELSE Append(DecodeBody(s), IF Pending(s) THEN SetBit7(b) ELSE b)
<1> DEFINE t == Append(s, b)
           n == Len(s) + 1
           d == [i \in DOMAIN s |-> DecodedByte(s, i)]
           e == [i \in DOMAIN t |-> DecodedByte(t, i)]
<1>1. t \in Seq(Byte) /\ Len(t) = n /\ t[n] = b /\ Len(s) \in Nat
      /\ \A i \in 1..Len(s) : t[i] = s[i]
  OBVIOUS
<1>2. \A i \in 1..n : Escaped(t, i) <=> Escaped(s, i)
  BY EscapedPrefix
<1> HIDE DEF t
<1>3. d \in Seq(Seq(Byte)) /\ Len(d) = Len(s)
  BY DecodedByteType, IsASeq
<1>4. DecodedByte(t, n) \in Seq(Byte)
  BY <1>1, DecodedByteType
<1>5. e = Append(d, DecodedByte(t, n))
  <2>1. DOMAIN e = 1..n /\ DOMAIN Append(d, DecodedByte(t, n)) = 1..n
    BY <1>1, <1>3
  <2>2. ASSUME NEW i \in 1..n PROVE e[i] = Append(d, DecodedByte(t, n))[i]
    <3>1. CASE i = n
      BY <1>1, <1>3, <3>1
    <3>2. CASE i # n
      <4>1. i \in 1..Len(s)
        BY <1>1, <3>2
      <4>2. DecodedByte(t, i) = DecodedByte(s, i)
        BY <1>1, <1>2, <4>1 DEF DecodedByte
      <4>3. e[i] = DecodedByte(t, i) /\ d[i] = DecodedByte(s, i)
        BY <1>1, <4>1
      <4>4. Append(d, DecodedByte(t, n))[i] = d[i]
        BY <1>3, <1>4, <4>1
      <4>5. QED
        BY <4>2, <4>3, <4>4
    <3>3. QED
      BY <3>1, <3>2
  <2>3. QED
    <3>1. e \in Seq(Seq(Byte)) /\ Append(d, DecodedByte(t, n)) \in Seq(Seq(Byte))
      BY <1>1, <1>3, <1>4, DecodedByteType, IsASeq
    <3>2. Len(e) = n /\ Len(Append(d, DecodedByte(t, n))) = n
      BY <1>1, <1>3, <1>4
    <3> DEFINE f == Append(d, DecodedByte(t, n))
    <3> HIDE DEF d, e, f
    <3>3. QED
      BY <2>2, <3>1, <3>2, SeqEqual DEF f
<1>6. DecodeBody(t) = DecodeBody(s) \o DecodedByte(t, n)
  BY <1>3, <1>4, <1>5, FlattenAppend DEF DecodeBody
<1>7. DecodedByte(t, n) = IF b \in {FLAG_ESC, FLAG__NULL} THEN <<>>
                          ELSE IF Pending(s) THEN <<SetBit7(b)>> ELSE <<b>>
  BY <1>1, <1>2 DEF DecodedByte, Pending
<1>8. DecodeBody(s) \in Seq(Byte) /\ SetBit7(b) \in Byte
  BY DecodeType, SetBit7Type
<1>9. DecodeBody(s) \o <<>> = DecodeBody(s)
      /\ \A x \in Byte : DecodeBody(s) \o <<x>> = Append(DecodeBody(s), x)
  BY <1>8
<1>10. DecodeBody(t) = IF b \in {FLAG_ESC, FLAG__NULL} THEN DecodeBody(s)
                       ELSE Append(DecodeBody(s), IF Pending(s) THEN SetBit7(b) ELSE b)
  BY <1>6, <1>7, <1>8, <1>9
<1>11. QED
  BY <1>10 DEF t

-----------------------------------------------------------------------------
(* Byte stuffing. *)

\* Byte stuffing is transparent for one byte: what travels is one byte that is
\* no flag, or an ESC and one byte that is no flag, and the receiver's
\* treatment of it restores the byte (EComPortPrepareData and EComPortRxInt).
THEOREM StuffingIsTransparent ==
    ASSUME NEW b \in Byte
    PROVE  /\ ~IsFlag(b) => Stuff(b) = <<b>>
           /\ IsFlag(b) => /\ Stuff(b) = <<FLAG_ESC, ClearBit7(b)>>
                           /\ ClearBit7(b) \in Byte
                           /\ ~IsFlag(ClearBit7(b))
                           /\ SetBit7(ClearBit7(b)) = b
<1>1. IsFlag(b) => ClearBit7(b) = b - 128
  BY DEF IsFlag, ClearBit7, Byte
<1>2. QED
  BY <1>1 DEF Stuff, IsFlag, SetBit7, Byte

\* The bytes of a message one by one, and what they travel as.
LEMMA DecodeStuff ==
    ASSUME NEW s \in Seq(Byte), ~Pending(s), NEW b \in Byte
    PROVE  /\ s \o Stuff(b) \in Seq(Byte)
           /\ ~Pending(s \o Stuff(b))
           /\ DecodeBody(s \o Stuff(b)) = Append(DecodeBody(s), b)
<1>1. CASE ~IsFlag(b)
  <2>1. s \o Stuff(b) = Append(s, b)
    BY <1>1 DEF Stuff
  <2>2. b \notin {FLAG_ESC, FLAG__NULL}
    BY <1>1 DEF IsFlag, FLAG_ESC, FLAG__NULL
  <2>3. QED
    BY <2>1, <2>2, PendingAppend, DecodeAppend
<1>2. CASE IsFlag(b)
  <2> DEFINE t == Append(s, FLAG_ESC)
             c == ClearBit7(b)
  <2>1. FLAG_ESC \in Byte /\ c \in Byte /\ c \notin {FLAG_ESC, FLAG__NULL} /\ SetBit7(c) = b
    <3>1. c = b - 128
      BY <1>2 DEF IsFlag, ClearBit7, Byte
    <3>2. QED
      BY <1>2, <3>1 DEF IsFlag, SetBit7, Byte, FLAG_ESC, FLAG__NULL
  <2>2. s \o Stuff(b) = Append(t, c)
    BY <1>2, <2>1 DEF Stuff
  <2>3. t \in Seq(Byte) /\ Append(t, c) \in Seq(Byte)
    BY <2>1
  <2> HIDE DEF c
  <2>4. Pending(t) /\ DecodeBody(t) = DecodeBody(s)
    BY <2>1, PendingAppend, DecodeAppend
  <2> HIDE DEF t
  <2>5. ~Pending(Append(t, c)) /\ DecodeBody(Append(t, c)) = Append(DecodeBody(s), b)
    BY <2>1, <2>3, <2>4, PendingAppend, DecodeAppend
  <2>6. QED
    BY <2>2, <2>3, <2>5
<1>3. QED
  BY <1>1, <1>2

\* No flag in s but ESC.
Plain(s) == \A i \in 1..Len(s) : s[i] = FLAG_ESC \/ ~IsFlag(s[i])

LEMMA StuffPlain ==
    ASSUME NEW b \in Byte
    PROVE  Stuff(b) \in Seq(Byte) /\ Plain(Stuff(b))
<1>1. IsFlag(b) => ClearBit7(b) \in Byte /\ ~IsFlag(ClearBit7(b))
  BY DEF IsFlag, ClearBit7, Byte
<1>2. FLAG_ESC \in Byte
  BY DEF FLAG_ESC, Byte
<1>3. CASE IsFlag(b)
  BY <1>1, <1>2, <1>3 DEF Stuff, Plain
<1>4. CASE ~IsFlag(b)
  BY <1>4 DEF Stuff, Plain
<1>5. QED
  BY <1>3, <1>4

LEMMA PlainConcat ==
    ASSUME NEW s \in Seq(Byte), NEW t \in Seq(Byte), Plain(s), Plain(t)
    PROVE  Plain(s \o t)
BY DEF Plain

StuffedWell(data) ==
    /\ Stuffed(data) \in Seq(Byte)
    /\ Plain(Stuffed(data))
    /\ ~Pending(Stuffed(data))
    /\ DecodeBody(Stuffed(data)) = data

LEMMA StuffedAppend ==
    ASSUME NEW data \in Seq(Byte), NEW b \in Byte
    PROVE  Stuffed(Append(data, b)) = Stuffed(data) \o Stuff(b)
<1> DEFINE d == [i \in DOMAIN data |-> Stuff(data[i])]
           more == Append(data, b)
           e == [i \in DOMAIN more |-> Stuff(more[i])]
<1>1. d \in Seq(Seq(Byte)) /\ Len(d) = Len(data)
  <2>1. \A i \in 1..Len(data) : Stuff(data[i]) \in Seq(Byte)
    BY StuffPlain
  <2>2. QED
    BY <2>1
<1>2. e \in Seq(Seq(Byte)) /\ Len(e) = Len(data) + 1
  BY StuffPlain, IsASeq
<1>3. Append(d, Stuff(b)) \in Seq(Seq(Byte)) /\ Len(Append(d, Stuff(b))) = Len(data) + 1
  BY <1>1, StuffPlain
<1>4. ASSUME NEW i \in 1..(Len(data) + 1) PROVE e[i] = Append(d, Stuff(b))[i]
  <2>1. CASE i = Len(data) + 1
    BY <1>1, <2>1
  <2>2. CASE i # Len(data) + 1
    BY <1>1, <2>2
  <2>3. QED
    BY <2>1, <2>2
<1>5. e = Append(d, Stuff(b))
  <2> DEFINE f == Append(d, Stuff(b))
  <2> HIDE DEF d, e, f
  <2>1. QED
    BY <1>2, <1>3, <1>4, SeqEqual DEF f
<1>6. QED
  BY <1>1, <1>5, StuffPlain, FlattenAppend DEF Stuffed

LEMMA StuffedIsWell == \A data \in Seq(Byte) : StuffedWell(data)
<1> DEFINE S == {n \in Nat : \A data \in Seq(Byte) : Len(data) = n => StuffedWell(data)}
<1>1. 0 \in S
  <2> SUFFICES ASSUME NEW data \in Seq(Byte), Len(data) = 0 PROVE StuffedWell(data)
    OBVIOUS
  <2>1. data = <<>> /\ [i \in DOMAIN data |-> Stuff(data[i])] = <<>>
    OBVIOUS
  <2>2. Stuffed(data) = <<>>
    BY <2>1, FlattenEmpty DEF Stuffed
  <2>3. ~Pending(<<>>) /\ Plain(<<>>) /\ <<>> \in Seq(Byte)
    BY DEF Pending, Escaped, Plain
  <2>4. QED
    BY <2>1, <2>2, <2>3, DecodeEmpty DEF StuffedWell
<1>2. ASSUME NEW n \in Nat, n \in S PROVE n + 1 \in S
  <2> SUFFICES ASSUME NEW data \in Seq(Byte), Len(data) = n + 1 PROVE StuffedWell(data)
    OBVIOUS
  <2> DEFINE front == SubSeq(data, 1, n)
             b == data[n + 1]
             s == Stuffed(front)
  <2>1. front \in Seq(Byte) /\ Len(front) = n /\ b \in Byte /\ data = Append(front, b)
    OBVIOUS
  <2> HIDE DEF front, b
  <2>2. s \in Seq(Byte) /\ Plain(s) /\ ~Pending(s) /\ DecodeBody(s) = front
    BY <1>2, <2>1 DEF StuffedWell
  <2>3. Stuffed(data) = s \o Stuff(b)
    BY <2>1, StuffedAppend
  <2> HIDE DEF s
  <2>4. Plain(s \o Stuff(b))
    BY <2>1, <2>2, StuffPlain, PlainConcat
  <2>5. QED
    BY <2>1, <2>2, <2>3, <2>4, DecodeStuff DEF StuffedWell
<1>3. Nat \subseteq S
  <2> HIDE DEF S
  <2>1. QED
    BY <1>1, <1>2, SetInduction
<1>4. QED
  BY <1>3

\* The byte stuffing is transparent for messages of every length
\* (EComPortPrepareData and EComPortRxInt): between the start flag and the END
\* of a protocol data unit there is no flag but ESC, nothing is left half
\* escaped, and what the protocol reads from it is the message.
THEOREM FramingIsTransparent ==
    ASSUME NEW data \in Seq(Byte)
    PROVE  /\ Stuffed(data) \in Seq(Byte)
           /\ Plain(Stuffed(data))
           /\ ~Pending(Stuffed(data))
           /\ DecodeBody(Stuffed(data)) = data
BY StuffedIsWell DEF StuffedWell

LEMMA StuffLength == \A b \in Byte : Stuff(b) \in Seq(Byte) /\ Len(Stuff(b)) \in {1, 2}
<1> SUFFICES ASSUME NEW b \in Byte
             PROVE  Stuff(b) \in Seq(Byte) /\ Len(Stuff(b)) \in {1, 2}
  OBVIOUS
<1>1. Stuff(b) \in Seq(Byte)
  BY StuffPlain
<1>2. Len(<<FLAG_ESC, ClearBit7(b)>>) = 2 /\ Len(<<b>>) = 1
  OBVIOUS
<1>3. QED
  BY <1>1, <1>2 DEF Stuff

StuffedFits(data) == Len(Stuffed(data)) <= 2 * Len(data)

LEMMA LongerFits ==
    ASSUME NEW data \in Seq(Byte), NEW b \in Byte, StuffedFits(data)
    PROVE  StuffedFits(Append(data, b))
<1> DEFINE m == Len(Stuffed(data))
           k == Len(Stuff(b))
           n == Len(data)
<1>1. /\ Stuffed(Append(data, b)) = Stuffed(data) \o Stuff(b)
      /\ Stuffed(data) \in Seq(Byte) /\ Stuff(b) \in Seq(Byte)
  BY StuffedAppend, StuffedIsWell, StuffLength DEF StuffedWell
<1>2. Len(Stuffed(Append(data, b))) = m + k
  BY <1>1
<1>3. m \in Nat /\ n \in Nat /\ k \in {1, 2} /\ Len(Append(data, b)) = n + 1
  BY <1>1, StuffLength
<1>4. m <= 2 * n
  BY DEF StuffedFits
<1> HIDE DEF m, k, n
<1>5. m + k <= 2 * (n + 1)
  BY <1>3, <1>4
<1>6. QED
  BY <1>2, <1>3, <1>5 DEF StuffedFits

LEMMA StuffedFit == \A data \in Seq(Byte) : StuffedFits(data)
<1> DEFINE S == {n \in Nat : \A data \in Seq(Byte) : Len(data) = n => StuffedFits(data)}
<1>1. 0 \in S
  <2> SUFFICES ASSUME NEW data \in Seq(Byte), Len(data) = 0 PROVE StuffedFits(data)
    OBVIOUS
  <2>1. data = <<>> /\ [i \in DOMAIN data |-> Stuff(data[i])] = <<>>
    OBVIOUS
  <2>2. Stuffed(data) = <<>>
    BY <2>1, FlattenEmpty DEF Stuffed
  <2>3. QED
    BY <2>1, <2>2 DEF StuffedFits
<1>2. ASSUME NEW n \in Nat, n \in S PROVE n + 1 \in S
  <2> SUFFICES ASSUME NEW data \in Seq(Byte), Len(data) = n + 1 PROVE StuffedFits(data)
    OBVIOUS
  <2> DEFINE front == SubSeq(data, 1, n)
             b == data[n + 1]
  <2>1. front \in Seq(Byte) /\ Len(front) = n /\ b \in Byte /\ data = Append(front, b)
    OBVIOUS
  <2> HIDE DEF front, b
  <2>2. StuffedFits(front)
    BY <1>2, <2>1
  <2>3. QED
    BY <2>1, <2>2, LongerFits
<1>3. Nat \subseteq S
  <2> HIDE DEF S
  <2>1. QED
    BY <1>1, <1>2, SetInduction
<1>4. QED
  BY <1>3

\* What EComPortPrepareData writes fits the buffer it allocates for it, twice the
\* message and the two flags, for messages of every length.
THEOREM PreparedFits ==
    ASSUME NEW data \in Seq(Byte)
    PROVE  Len(PrepareData(data)) <= 2 * Len(data) + 2
<1> DEFINE s == Stuffed(data)
           n == Len(data)
<1>1. s \in Seq(Byte) /\ n \in Nat /\ FLAG_START \in Byte /\ FLAG_END \in Byte
  BY StuffedIsWell DEF StuffedWell, FLAG_START, FLAG_END, Byte
<1>2. Len(s) <= 2 * n
  BY StuffedFit DEF StuffedFits
<1>3. PrepareData(data) = <<FLAG_START>> \o s \o <<FLAG_END>>
  BY DEF PrepareData
<1> HIDE DEF s, n
<1>4. Len(PrepareData(data)) = Len(s) + 2 /\ Len(s) \in Nat
  BY <1>1, <1>3
<1>5. Len(PrepareData(data)) <= 2 * n + 2
  BY <1>1, <1>2, <1>4
<1>6. QED
  BY <1>5 DEF n

-----------------------------------------------------------------------------
(* The types of the receive loop. *)

\* One iteration of the receive loop, on whatever byte the data register holds,
\* keeps the types; in particular nothing is written past the client's buffer.
LEMMA ReadType ==
    ASSUME RxTypeOK, NEW b \in Byte, Read(b)
    PROVE  RxTypeOK'
<1> USE MaxPreNullAssumption DEF RxTypeOK, Fields, BufferSize, Results
<1>1. CASE ReadEnd(b)
  BY <1>1 DEF ReadEnd
<1>2. CASE ReadNull(b)
  BY <1>2 DEF ReadNull, NullsAfter
<1>3. CASE ReadEsc(b)
  BY <1>3 DEF ReadEsc
<1>4. CASE ReadStart(b)
  BY <1>4 DEF ReadStart
<1>5. CASE ReadOverlong(b)
  BY <1>5 DEF ReadOverlong
<1>6. CASE ReadData(b)
  <2>1. /\ DOMAIN rx' = Fields
        /\ rx'.startFlag = rx.startFlag /\ rx'.size = rx.size /\ rx'.nulls = rx.nulls
        /\ rx'.started = rx.started /\ rx'.ret = rx.ret
        /\ rx'.idx = rx.idx + 1 /\ rx'.actual = rx.idx + 1 /\ rx'.esc = FALSE
    BY <1>6 DEF ReadData
  <2>6. rx'.buf = [rx.buf EXCEPT ![rx.idx + 1] = Unescaped(b)]
    BY <1>6 DEF ReadData
  <2>2. Unescaped(b) \in Byte
    BY SetBit7Type DEF Unescaped
  <2>3. rx'.buf \in [1..rx'.size -> Byte \cup {Unwritten}]
    BY <2>1, <2>2, <2>6
  <2>4. rx'.idx \in 0..rx'.size /\ rx'.actual \in 0..rx'.size
    BY <1>6, <2>1 DEF ReadData
  <2>5. QED
    BY <2>1, <2>3, <2>4
<1>7. QED
  BY <1>1, <1>2, <1>3, <1>4, <1>5, <1>6 DEF Read

\* An error of EComRxRaw keeps them too.
LEMMA AccessFailsType == RxTypeOK /\ AccessFails => RxTypeOK'
BY DEF RxTypeOK, AccessFails, Fields, Results

\* A call of any length of buffer starts well typed.
FreshOK(r, n) ==
    /\ DOMAIN r = Fields
    /\ r.startFlag \in {FLAG_START, FLAG_IDA} /\ r.size = n
    /\ r.nulls = 0 /\ r.idx = 0 /\ r.actual = 0
    /\ r.started = FALSE /\ r.esc = FALSE /\ r.ret = "reading"
    /\ r.buf \in [1..n -> Byte \cup {Unwritten}]

LEMMA FreshFields ==
    ASSUME NEW flag \in {FLAG_START, FLAG_IDA}, NEW n \in Nat
    PROVE  FreshOK(Fresh(flag, n), n)
BY DEF Fresh, FreshOK, Fields

LEMMA FreshType ==
    ASSUME NEW flag \in {FLAG_START, FLAG_IDA}, NEW n \in BufferSize
    PROVE  /\ rx = Fresh(flag, n) => RxTypeOK
           /\ rx' = Fresh(flag, n) => RxTypeOK'
<1>1. FreshOK(Fresh(flag, n), n)
  BY FreshFields DEF BufferSize
<1>2. ASSUME NEW r, FreshOK(r, n)
      PROVE  /\ DOMAIN r = Fields
             /\ r.startFlag \in {FLAG_START, FLAG_IDA} /\ r.size \in BufferSize
             /\ r.nulls \in Nat /\ r.nulls <= MaxPreNull
             /\ r.idx \in 0..r.size /\ r.actual \in 0..r.size
             /\ r.started \in BOOLEAN /\ r.esc \in BOOLEAN
             /\ r.buf \in [1..r.size -> Byte \cup {Unwritten}]
             /\ r.ret \in Results
  <2>1. r.started \in BOOLEAN /\ r.esc \in BOOLEAN
    BY <1>2 DEF FreshOK
  <2>2. r.nulls <= MaxPreNull /\ r.idx \in 0..r.size /\ r.actual \in 0..r.size
    BY <1>2, MaxPreNullAssumption DEF FreshOK, BufferSize
  <2>3. QED
    BY <1>2, <2>1, <2>2 DEF FreshOK, Results
<1>3. QED
  BY <1>1, <1>2 DEF RxTypeOK

-----------------------------------------------------------------------------
(* What the loop has after the bytes s. *)

\* k is the place of the last start flag in s, 0 if there is none.
LastStartAt(s, flag, k) ==
    \/ k = 0 /\ \A i \in 1..Len(s) : s[i] # flag
    \/ /\ k \in 1..Len(s)
       /\ s[k] = flag
       /\ \A i \in (k + 1)..Len(s) : s[i] # flag

After(s, k) == SubSeq(s, k + 1, Len(s))

\* What the locals r store of the message, and with which length.
Stores(r, content, dangles) ==
    /\ r.idx = Len(content)
    /\ content # <<>> =>
           /\ r.actual = r.idx
           /\ SubSeq(r.buf, 1, r.idx) = IF dangles THEN FirstFlipped(content) ELSE content

IsDataFor(flag, b) == b \notin {FLAG_END, FLAG__NULL, FLAG_ESC, flag}

RxHas(r, s, k) ==
    /\ LastStartAt(s, r.startFlag, k)
    /\ r.started <=> k # 0
    /\ r.esc <=> Dangling(s, r.startFlag, Len(s) + 1)
    /\ r.esc <=> \/ Pending(After(s, k))
                 \/ Dangling(s, r.startFlag, k) /\ DecodeBody(After(s, k)) = <<>>
    /\ Stores(r, DecodeBody(After(s, k)), Dangling(s, r.startFlag, k))
    /\ DecodeBody(After(s, k)) = <<>> /\ r.actual # 0 =>
           \E i \in 1..(k - 1) : IsDataFor(r.startFlag, s[i])
    /\ r.actual # 0 => \E i \in 1..Len(s) : IsDataFor(r.startFlag, s[i])

RxAfter(r, s) == \E k \in Nat : RxHas(r, s, k)

LEMMA AfterAppend ==
    ASSUME NEW s \in Seq(Byte), NEW b \in Byte, NEW k \in 0..Len(s)
    PROVE  /\ After(s, k) \in Seq(Byte)
           /\ After(Append(s, b), k) = Append(After(s, k), b)
<1> DEFINE t == Append(s, b)
           a == SubSeq(s, k + 1, Len(s))
           c == SubSeq(t, k + 1, Len(t))
<1>1. t \in Seq(Byte) /\ Len(t) = Len(s) + 1 /\ t[Len(s) + 1] = b
      /\ \A i \in 1..Len(s) : t[i] = s[i]
  OBVIOUS
<1>2. a \in Seq(Byte) /\ Len(a) = Len(s) - k /\ Len(s) \in Nat /\ k \in Nat /\ \A i \in 1..(Len(s) - k) : a[i] = s[k + i]
  OBVIOUS
<1> HIDE DEF t
<1>3. c \in Seq(Byte) /\ Len(c) = Len(s) + 1 - k
      /\ \A i \in 1..(Len(s) + 1 - k) : c[i] = t[k + i]
  BY <1>1
<1> HIDE DEF a, c
<1>4. Append(a, b) \in Seq(Byte) /\ Len(Append(a, b)) = Len(s) + 1 - k
  BY <1>2, AppendProperties
<1>5. ASSUME NEW i \in 1..(Len(s) + 1 - k) PROVE c[i] = Append(a, b)[i]
  BY <1>1, <1>2, <1>3
<1>6. c = Append(a, b)
  BY <1>3, <1>4, <1>5, SeqEqual
<1>7. QED
  BY <1>2, <1>6 DEF After, a, c, t

LEMMA DanglingPrefix ==
    ASSUME NEW s \in Seq(Byte), NEW b \in Byte, NEW flag, NEW k \in 0..(Len(s) + 1)
    PROVE  Dangling(Append(s, b), flag, k) <=> Dangling(s, flag, k)
<1> DEFINE t == Append(s, b)
<1>1. \A i \in 1..Len(s) : t[i] = s[i]
  OBVIOUS
<1>2. \A i \in 1..(k - 1) : i \in 1..Len(s) /\ \A j \in (i + 1)..(k - 1) : j \in 1..Len(s)
  OBVIOUS
<1> HIDE DEF t
<1>3. QED
  BY <1>1, <1>2 DEF Dangling, t

LEMMA DanglingAppend ==
    ASSUME NEW s \in Seq(Byte), NEW b \in Byte, NEW flag, flag # FLAG_ESC
    PROVE  Dangling(Append(s, b), flag, Len(s) + 2) <=>
               \/ b = FLAG_ESC
               \/ b \in {FLAG__NULL, flag} /\ Dangling(s, flag, Len(s) + 1)
<1> DEFINE t == Append(s, b)
           n == Len(s) + 1
           Quiets == {FLAG__NULL, flag}
<1>1. t[n] = b /\ (\A i \in 1..Len(s) : t[i] = s[i]) /\ Len(s) \in Nat
      /\ n - 1 = Len(s) /\ (Len(s) + 2) - 1 = n
  OBVIOUS
<1> HIDE DEF t
<1>2. Dangling(t, flag, Len(s) + 2) <=>
        \E i \in 1..n : t[i] = FLAG_ESC /\ \A j \in (i + 1)..n : t[j] \in Quiets
  BY <1>1 DEF Dangling
<1>3. Dangling(s, flag, n) <=>
        \E i \in 1..Len(s) : s[i] = FLAG_ESC /\ \A j \in (i + 1)..Len(s) : s[j] \in Quiets
  BY <1>1 DEF Dangling
<1>4. FLAG_ESC \notin Quiets
  BY DEF FLAG_ESC, FLAG__NULL
<1> HIDE DEF Quiets
<1>5. CASE b = FLAG_ESC
  <2>1. n \in 1..n /\ t[n] = FLAG_ESC /\ \A j \in (n + 1)..n : t[j] \in Quiets
    BY <1>1, <1>5
  <2>2. QED
    BY <1>2, <1>5, <2>1 DEF t
<1>6. CASE b \in Quiets
  <2>1. ASSUME Dangling(t, flag, Len(s) + 2) PROVE Dangling(s, flag, n)
    <3>1. PICK i \in 1..n : t[i] = FLAG_ESC /\ \A j \in (i + 1)..n : t[j] \in Quiets
      BY <1>2, <2>1
    <3>2. i \in 1..Len(s)
      BY <1>1, <1>4, <1>6, <3>1
    <3>3. s[i] = FLAG_ESC /\ \A j \in (i + 1)..Len(s) : s[j] \in Quiets
      BY <1>1, <3>1, <3>2
    <3>4. QED
      BY <1>3, <3>2, <3>3
  <2>2. ASSUME Dangling(s, flag, n) PROVE Dangling(t, flag, Len(s) + 2)
    <3>1. PICK i \in 1..Len(s) : s[i] = FLAG_ESC /\ \A j \in (i + 1)..Len(s) : s[j] \in Quiets
      BY <1>3, <2>2
    <3>2. i \in 1..n /\ t[i] = FLAG_ESC /\ \A j \in (i + 1)..n : t[j] \in Quiets
      BY <1>1, <1>6, <3>1
    <3>3. QED
      BY <1>2, <3>2
  <2>3. QED
    BY <1>4, <1>6, <2>1, <2>2 DEF t, Quiets
<1>7. CASE b # FLAG_ESC /\ b \notin Quiets
  <2>1. ASSUME Dangling(t, flag, Len(s) + 2) PROVE FALSE
    <3>1. PICK i \in 1..n : t[i] = FLAG_ESC /\ \A j \in (i + 1)..n : t[j] \in Quiets
      BY <1>2, <2>1
    <3>2. n \in (i + 1)..n
      BY <1>1, <1>7, <3>1
    <3>3. QED
      BY <1>1, <1>7, <3>1, <3>2
  <2>2. QED
    BY <1>7, <2>1 DEF t, Quiets
<1>8. QED
  BY <1>5, <1>6, <1>7

\* A call that has just been entered has read nothing.
LEMMA FreshHas ==
    ASSUME NEW r, NEW n \in Nat, FreshOK(r, n)
    PROVE  RxAfter(r, <<>>)
<1>1. After(<<>>, 0) = <<>> /\ ~Pending(<<>>)
  BY DEF After, Pending, Escaped
<1>2. ~Dangling(<<>>, r.startFlag, 0) /\ ~Dangling(<<>>, r.startFlag, Len(<<>>) + 1)
  BY DEF Dangling
<1>3. LastStartAt(<<>>, r.startFlag, 0)
  BY DEF LastStartAt
<1>4. Stores(r, DecodeBody(After(<<>>, 0)), Dangling(<<>>, r.startFlag, 0))
  <2>1. r.idx = Len(<<>>)
    BY DEF FreshOK
  <2>2. QED
    BY <1>1, <2>1, DecodeEmpty DEF Stores
<1>5. ~r.started /\ ~r.esc /\ r.actual = 0
  BY DEF FreshOK
<1>6. RxHas(r, <<>>, 0)
  BY <1>1, <1>2, <1>3, <1>4, <1>5, DecodeEmpty, Zenon DEF RxHas
<1>7. QED
  BY <1>6 DEF RxAfter

\* A byte that is no start flag extends the message under way.
LEMMA SameStart ==
    ASSUME NEW s \in Seq(Byte), NEW b \in Byte, NEW k \in Nat, NEW flag,
           LastStartAt(s, flag, k), b # flag
    PROVE  /\ k \in 0..Len(s)
           /\ LastStartAt(Append(s, b), flag, k)
           /\ Dangling(Append(s, b), flag, k) <=> Dangling(s, flag, k)
           /\ (\E i \in 1..(k - 1) : IsDataFor(flag, s[i]))
                  => \E i \in 1..(k - 1) : IsDataFor(flag, Append(s, b)[i])
           /\ (\E i \in 1..Len(s) : IsDataFor(flag, s[i]))
                  => \E i \in 1..Len(Append(s, b)) : IsDataFor(flag, Append(s, b)[i])
<1> DEFINE t == Append(s, b)
<1>1. k \in 0..Len(s)
  BY DEF LastStartAt
<1>2. Len(t) = Len(s) + 1 /\ t[Len(s) + 1] = b /\ \A i \in 1..Len(s) : t[i] = s[i]
  OBVIOUS
<1> HIDE DEF t
<1>3. \A i \in (k + 1)..Len(t) : i = Len(s) + 1 \/ i \in (k + 1)..Len(s)
  BY <1>1, <1>2
<1>4. LastStartAt(t, flag, k)
  BY <1>1, <1>2, <1>3 DEF LastStartAt
<1>5. (\A i \in 1..(k - 1) : t[i] = s[i]) /\ \A i \in 1..Len(s) : i \in 1..Len(t) /\ t[i] = s[i]
  BY <1>1, <1>2
<1>6. QED
  BY <1>1, <1>4, <1>5, DanglingPrefix DEF t

LEMMA DanglingAfter ==
    ASSUME NEW s \in Seq(Byte), NEW b \in Byte, NEW flag \in {FLAG_START, FLAG_IDA}
    PROVE  Dangling(Append(s, b), flag, Len(Append(s, b)) + 1) <=>
               \/ b = FLAG_ESC
               \/ b \in {FLAG__NULL, flag} /\ Dangling(s, flag, Len(s) + 1)
<1>1. Len(Append(s, b)) + 1 = Len(s) + 2
  OBVIOUS
<1>2. flag # FLAG_ESC
  BY DEF FLAG_ESC, FLAG_START, FLAG_IDA
<1>3. QED
  BY <1>1, <1>2, DanglingAppend

\* A NULL or an ESC adds nothing to the message.
LEMMA NothingAdded ==
    ASSUME NEW r, NEW q, NEW s \in Seq(Byte), NEW k \in Nat, RxHas(r, s, k),
           r.startFlag \in {FLAG_START, FLAG_IDA}, NEW b \in {FLAG__NULL, FLAG_ESC},
           q.startFlag = r.startFlag, q.started = r.started, q.idx = r.idx,
           q.actual = r.actual, q.buf = r.buf, q.esc <=> b = FLAG_ESC \/ r.esc
    PROVE  RxHas(q, Append(s, b), k)
<1> DEFINE t == Append(s, b)
           flag == r.startFlag
           a == After(s, k)
<1>1. b \in Byte /\ b # flag /\ FLAG_ESC # FLAG__NULL
  BY DEF FLAG_ESC, FLAG__NULL, FLAG_START, FLAG_IDA, Byte
<1>2. LastStartAt(s, flag, k)
  BY DEF RxHas
<1>3. /\ k \in 0..Len(s) /\ LastStartAt(t, flag, k)
      /\ Dangling(t, flag, k) <=> Dangling(s, flag, k)
      /\ (\E i \in 1..(k - 1) : IsDataFor(flag, s[i])) => \E i \in 1..(k - 1) : IsDataFor(flag, t[i])
      /\ (\E i \in 1..Len(s) : IsDataFor(flag, s[i])) => \E i \in 1..Len(t) : IsDataFor(flag, t[i])
  BY <1>1, <1>2, SameStart
<1>4. Dangling(t, flag, Len(t) + 1) <=> b = FLAG_ESC \/ Dangling(s, flag, Len(s) + 1)
  BY <1>1, DanglingAfter
<1>5. a \in Seq(Byte) /\ After(t, k) = Append(a, b)
  BY <1>1, <1>3, AfterAppend
<1> HIDE DEF t, flag, a
<1>6. Pending(After(t, k)) <=> b = FLAG_ESC \/ Pending(a)
  <2>1. Pending(Append(a, b)) <=> b = FLAG_ESC \/ (b = FLAG__NULL /\ Pending(a))
    BY <1>1, <1>5, PendingAppend
  <2>2. QED
    BY <1>5, <2>1
<1>7. DecodeBody(After(t, k)) = DecodeBody(a)
  <2>1. DecodeBody(Append(a, b)) = DecodeBody(a)
    BY <1>1, <1>5, DecodeAppend
  <2>2. QED
    BY <1>5, <2>1
<1>8. /\ r.started <=> k # 0
      /\ r.esc <=> Dangling(s, flag, Len(s) + 1)
      /\ r.esc <=> Pending(a) \/ (Dangling(s, flag, k) /\ DecodeBody(a) = <<>>)
      /\ Stores(r, DecodeBody(a), Dangling(s, flag, k))
      /\ DecodeBody(a) = <<>> /\ r.actual # 0 => \E i \in 1..(k - 1) : IsDataFor(flag, s[i])
      /\ r.actual # 0 => \E i \in 1..Len(s) : IsDataFor(flag, s[i])
  BY DEF RxHas, flag, a
<1>9. Stores(q, DecodeBody(a), Dangling(t, flag, k))
  <2>1. Stores(q, DecodeBody(a), Dangling(s, flag, k))
    BY <1>8 DEF Stores
  <2>2. Dangling(t, flag, k) = Dangling(s, flag, k)
    BY <1>3 DEF Dangling
  <2>3. QED
    BY <2>1, <2>2
<1>10. q.startFlag = flag
  BY DEF flag
<1>11. RxHas(q, t, k)
  <2>1. q.started <=> k # 0
    BY <1>8
  <2>2. q.esc <=> Dangling(t, flag, Len(t) + 1)
    BY <1>4, <1>8
  <2>3. q.esc <=> Pending(After(t, k)) \/ (Dangling(t, flag, k) /\ DecodeBody(After(t, k)) = <<>>)
    BY <1>3, <1>6, <1>7, <1>8
  <2>4. DecodeBody(After(t, k)) = <<>> /\ q.actual # 0
          => \E i \in 1..(k - 1) : IsDataFor(flag, t[i])
    BY <1>3, <1>7, <1>8
  <2>7. q.actual # 0 => \E i \in 1..Len(t) : IsDataFor(flag, t[i])
    BY <1>3, <1>8
  <2>5. Stores(q, DecodeBody(After(t, k)), Dangling(t, flag, k))
    BY <1>7, <1>9
  <2>6. QED
    BY <1>3, <1>10, <2>1, <2>2, <2>3, <2>4, <2>5, <2>7, Zenon DEF RxHas
<1>12. QED
  BY <1>11 DEF t

\* A start flag begins a message; what is pending and reported is kept.
LEMMA StartRestarts ==
    ASSUME NEW r, NEW q, NEW s \in Seq(Byte), NEW k \in Nat, RxHas(r, s, k),
           r.startFlag \in {FLAG_START, FLAG_IDA},
           q.startFlag = r.startFlag, q.started = TRUE, q.idx = 0,
           q.actual = r.actual, q.esc = r.esc
    PROVE  RxHas(q, Append(s, r.startFlag), Len(s) + 1)
<1> DEFINE flag == r.startFlag
           t == Append(s, flag)
           n == Len(s) + 1
<1>1. flag \in Byte
  BY DEF FLAG_START, FLAG_IDA, Byte
<1>2. t \in Seq(Byte) /\ Len(t) = n /\ t[n] = flag /\ \A i \in 1..Len(s) : t[i] = s[i]
  BY <1>1
<1>3. Dangling(t, flag, Len(t) + 1) <=> flag = FLAG_ESC \/ Dangling(s, flag, Len(s) + 1)
  BY <1>1, DanglingAfter
<1>4. Dangling(t, flag, n) <=> Dangling(s, flag, n)
  BY <1>1, DanglingPrefix
<1>5. flag # FLAG_ESC
  BY DEF FLAG_START, FLAG_IDA, FLAG_ESC
<1>6. /\ r.esc <=> Dangling(s, flag, n)
      /\ r.actual # 0 => \E i \in 1..Len(s) : IsDataFor(flag, s[i])
  BY DEF RxHas
<1> HIDE DEF t, flag
<1>7. LastStartAt(t, flag, n)
  BY <1>2 DEF LastStartAt
<1>8. After(t, n) = <<>> /\ DecodeBody(After(t, n)) = <<>> /\ ~Pending(After(t, n))
  <2>1. After(t, n) = <<>>
    BY <1>2 DEF After
  <2>2. ~Pending(<<>>)
    BY DEF Pending, Escaped
  <2>3. QED
    BY <2>1, <2>2, DecodeEmpty
<1>9. Stores(q, DecodeBody(After(t, n)), Dangling(t, flag, n))
  <2>1. q.idx = Len(<<>>)
    OBVIOUS
  <2>2. QED
    BY <1>8, <2>1 DEF Stores
<1>10. \/ q.actual = 0
       \/ /\ \E i \in 1..(n - 1) : IsDataFor(flag, t[i])
          /\ \E i \in 1..Len(t) : IsDataFor(flag, t[i])
  BY <1>2, <1>6
<1>11. /\ q.started <=> n # 0
       /\ q.esc <=> Dangling(t, flag, Len(t) + 1)
       /\ q.esc <=> Pending(After(t, n)) \/ (Dangling(t, flag, n) /\ DecodeBody(After(t, n)) = <<>>)
  <2>1. q.started <=> n # 0
    OBVIOUS
  <2>2. QED
    BY <1>3, <1>4, <1>5, <1>6, <1>8, <2>1
<1>12. q.startFlag = flag
  BY DEF flag
<1>13. RxHas(q, t, n)
  BY <1>7, <1>9, <1>10, <1>11, <1>12, Zenon DEF RxHas
<1>14. QED
  BY <1>13 DEF t, flag

\* Undoing an escape twice changes no more than undoing it once.
LEMMA SetBit7Twice == \A b \in Byte : SetBit7(SetBit7(b)) = SetBit7(b)
BY DEF SetBit7, Byte

LEMMA FlippedOne ==
    ASSUME NEW x \in Byte
    PROVE  FirstFlipped(<<x>>) = <<SetBit7(x)>>
BY SetBit7Type DEF FirstFlipped

LEMMA FlippedAppend ==
    ASSUME NEW c \in Seq(Byte), c # <<>>, NEW x \in Byte
    PROVE  /\ FirstFlipped(c) \in Seq(Byte)
           /\ Len(FirstFlipped(c)) = Len(c)
           /\ FirstFlipped(Append(c, x)) = Append(FirstFlipped(c), x)
<1>1. 1 \in 1..Len(c) /\ SetBit7(c[1]) \in Byte
  BY SetBit7Type
<1>2. FirstFlipped(c) \in Seq(Byte) /\ Len(FirstFlipped(c)) = Len(c)
      /\ FirstFlipped(c)[1] = SetBit7(c[1]) /\ \A i \in 2..Len(c) : FirstFlipped(c)[i] = c[i]
  BY <1>1 DEF FirstFlipped
<1> DEFINE d == Append(c, x)
<1>3. d \in Seq(Byte) /\ Len(d) = Len(c) + 1 /\ d[1] = c[1] /\ d[Len(c) + 1] = x
      /\ \A i \in 2..Len(c) : d[i] = c[i]
  BY <1>1
<1> HIDE DEF d
<1>4. FirstFlipped(d) \in Seq(Byte) /\ Len(FirstFlipped(d)) = Len(c) + 1
      /\ FirstFlipped(d)[1] = SetBit7(c[1]) /\ \A i \in 2..(Len(c) + 1) : FirstFlipped(d)[i] = d[i]
  BY <1>1, <1>3 DEF FirstFlipped
<1> DEFINE e == FirstFlipped(c)
           f == FirstFlipped(d)
<1> HIDE DEF e, f
<1>5. Append(e, x) \in Seq(Byte) /\ Len(Append(e, x)) = Len(c) + 1
      /\ (\A i \in 1..Len(c) : Append(e, x)[i] = e[i]) /\ Append(e, x)[Len(c) + 1] = x
  BY <1>2 DEF e
<1>6. \A i \in 1..(Len(c) + 1) : f[i] = Append(e, x)[i]
  <2> SUFFICES ASSUME NEW i \in 1..(Len(c) + 1) PROVE f[i] = Append(e, x)[i]
    OBVIOUS
  <2>1. CASE i = Len(c) + 1
    <3>1. f[Len(c) + 1] = x
      BY <1>1, <1>3, <1>4 DEF f
    <3>2. QED
      BY <1>5, <2>1, <3>1
  <2>2. CASE i = 1
    <3>1. f[1] = SetBit7(c[1]) /\ e[1] = SetBit7(c[1])
      BY <1>2, <1>4 DEF e, f
    <3>2. Append(e, x)[1] = e[1]
      BY <1>1, <1>5
    <3>3. QED
      BY <2>2, <3>1, <3>2
  <2>3. CASE i \in 2..Len(c)
    <3>1. f[i] = d[i] /\ d[i] = c[i] /\ e[i] = c[i]
      BY <1>2, <1>3, <1>4, <2>3 DEF e, f
    <3>2. QED
      BY <1>5, <2>3, <3>1
  <2>4. i = Len(c) + 1 \/ i = 1 \/ i \in 2..Len(c)
    OBVIOUS
  <2>5. QED
    BY <2>1, <2>2, <2>3, <2>4, Zenon
<1>7. f = Append(e, x)
  BY <1>4, <1>5, <1>6, SeqEqual DEF f
<1>8. QED
  BY <1>2, <1>7 DEF d, e, f

\* Any other byte is the next one of the message.
LEMMA DataStored ==
    ASSUME NEW r, NEW q, NEW s \in Seq(Byte), NEW k \in Nat, RxHas(r, s, k),
           NEW flag \in {FLAG_START, FLAG_IDA}, r.startFlag = flag,
           r.idx \in Nat, NEW size \in Nat, r.idx < size,
           r.buf \in [1..size -> Byte \cup {Unwritten}],
           NEW b \in Byte, IsDataFor(flag, b),
           q.startFlag = flag, q.started = r.started, q.idx = r.idx + 1,
           q.actual = r.idx + 1, q.esc = FALSE,
           q.buf = [r.buf EXCEPT ![r.idx + 1] = IF r.esc THEN SetBit7(b) ELSE b]
    PROVE  RxHas(q, Append(s, b), k)
<1> DEFINE t == Append(s, b)
           a == After(s, k)
           c == DecodeBody(a)
           D == Dangling(s, flag, k)
           x == IF r.esc THEN SetBit7(b) ELSE b
           y == IF Pending(a) THEN SetBit7(b) ELSE b
<1>1. b # flag /\ b \notin {FLAG_ESC, FLAG__NULL} /\ SetBit7(b) \in Byte
  BY SetBit7Type DEF IsDataFor
<1>2. LastStartAt(s, flag, k)
  BY DEF RxHas
<1>3. /\ k \in 0..Len(s) /\ LastStartAt(t, flag, k)
      /\ Dangling(t, flag, k) <=> D
  BY <1>1, <1>2, SameStart
<1>4. ~Dangling(t, flag, Len(t) + 1)
  BY <1>1, DanglingAfter
<1>5. a \in Seq(Byte) /\ After(t, k) = Append(a, b)
  BY <1>3, AfterAppend
<1>6. Len(t) \in Nat \ {0} /\ t[Len(t)] = b
  OBVIOUS
<1>7. /\ r.started <=> k # 0
      /\ r.esc <=> Pending(a) \/ (D /\ c = <<>>)
      /\ Stores(r, c, D)
  BY DEF RxHas
<1> HIDE DEF t, a
<1>8. ~Pending(After(t, k)) /\ DecodeBody(After(t, k)) = Append(c, y)
  <2>1. ~Pending(Append(a, b)) /\ DecodeBody(Append(a, b)) = Append(c, y)
    BY <1>1, <1>5, PendingAppend, DecodeAppend
  <2>2. QED
    BY <1>5, <2>1
<1>9. c \in Seq(Byte) /\ x \in Byte /\ y \in Byte
  BY <1>1, <1>5, DecodeType
<1>10. r.idx = Len(c) /\ (c # <<>> => SubSeq(r.buf, 1, r.idx) = IF D THEN FirstFlipped(c) ELSE c)
  BY <1>7 DEF Stores
<1>11. /\ c # <<>> => x = y
       /\ c = <<>> => <<x>> = IF D THEN FirstFlipped(<<y>>) ELSE <<y>>
  <2>1. c # <<>> => x = y
    BY <1>7
  <2>2. c = <<>> /\ ~D => x = y
    BY <1>7
  <2>3. c = <<>> /\ D => x = SetBit7(b)
    BY <1>7
  <2>4. SetBit7(y) = SetBit7(b)
    BY SetBit7Twice
  <2>5. FirstFlipped(<<y>>) = <<SetBit7(y)>>
    BY <1>9, FlippedOne
  <2> HIDE DEF c, D, x, y
  <2>6. QED
    BY <2>1, <2>2, <2>3, <2>4, <2>5
<1> HIDE DEF c, D, x, y
<1> DEFINE g == IF D THEN FirstFlipped(Append(c, y)) ELSE Append(c, y)
<1>12. SubSeq(q.buf, 1, r.idx + 1) = Append(SubSeq(r.buf, 1, r.idx), x)
  <2>1. q.buf = [r.buf EXCEPT ![r.idx + 1] = x]
    BY DEF x
  <2> DEFINE V == Byte \cup {Unwritten}
             m == r.idx
             u == r.buf
             w == q.buf
  <2>2. u \in Seq(V) /\ Len(u) = size /\ x \in V /\ m + 1 \in 1..size /\ m \in Nat
    BY <1>9
  <2> HIDE DEF V, m, u
  <2>3. w = [u EXCEPT ![m + 1] = x]
    BY <2>1 DEF m, u
  <2> HIDE DEF w
  <2>4. w \in Seq(V) /\ Len(w) = size /\ w[m + 1] = x /\ \A i \in 1..m : w[i] = u[i]
    BY <2>2, <2>3
  <2> DEFINE l == SubSeq(w, 1, m + 1)
             h == Append(SubSeq(u, 1, m), x)
  <2>5. l \in Seq(V) /\ Len(l) = m + 1 /\ \A i \in 1..(m + 1) : l[i] = w[i]
    BY <2>2, <2>4
  <2>6. h \in Seq(V) /\ Len(h) = m + 1 /\ h[m + 1] = x /\ \A i \in 1..m : h[i] = u[i]
    BY <2>2
  <2>7. \A i \in 1..(m + 1) : l[i] = h[i]
    <3> HIDE DEF l, h
    <3>1. QED
      BY <2>2, <2>4, <2>5, <2>6
  <2>8. l = h
    <3> HIDE DEF l, h
    <3>1. QED
      BY <2>5, <2>6, <2>7, SeqEqual
  <2>9. QED
    BY <2>8 DEF l, h, m, u, w
<1>13. SubSeq(q.buf, 1, r.idx + 1) = g
  <2>1. CASE c = <<>>
    <3>1. r.idx = 0 /\ SubSeq(r.buf, 1, r.idx) = <<>>
      BY <1>10, <2>1
    <3>2. Append(<<>>, x) = <<x>> /\ Append(<<>>, y) = <<y>>
      OBVIOUS
    <3>3. QED
      BY <1>11, <1>12, <2>1, <3>1, <3>2
  <2>2. CASE c # <<>>
    <3>1. FirstFlipped(Append(c, y)) = Append(FirstFlipped(c), y)
      BY <1>9, <2>2, FlippedAppend
    <3>2. QED
      BY <1>10, <1>11, <1>12, <2>2, <3>1
  <2>3. QED
    BY <2>1, <2>2
<1>14. Len(Append(c, y)) = r.idx + 1 /\ Append(c, y) # <<>>
  BY <1>9, <1>10
<1>15. Stores(q, DecodeBody(After(t, k)), Dangling(t, flag, k))
  BY <1>3, <1>8, <1>13, <1>14 DEF Stores
<1>16. /\ q.started <=> k # 0
       /\ q.esc <=> Dangling(t, flag, Len(t) + 1)
       /\ q.esc <=> Pending(After(t, k)) \/ (Dangling(t, flag, k) /\ DecodeBody(After(t, k)) = <<>>)
  BY <1>4, <1>7, <1>8, <1>14
<1>17. \E i \in 1..Len(t) : IsDataFor(flag, t[i])
  BY <1>6
<1>18. DecodeBody(After(t, k)) # <<>>
  BY <1>8, <1>14
<1>19. RxHas(q, t, k)
  BY <1>3, <1>15, <1>16, <1>17, <1>18, Zenon DEF RxHas
<1>20. QED
  BY <1>19 DEF t

\* One iteration of the loop, when the byte is not the END.
LEMMA ReadHas ==
    ASSUME RxTypeOK, NEW s \in Seq(Byte), RxAfter(rx, s), NEW b \in Byte, b # FLAG_END, Read(b)
    PROVE  /\ rx'.ret # "Success"
           /\ rx'.ret # "InternalError" => RxAfter(rx', Append(s, b))
<1> DEFINE flag == rx.startFlag
<1>1. PICK k \in Nat : RxHas(rx, s, k)
  BY DEF RxAfter
<1>2. flag \in {FLAG_START, FLAG_IDA} /\ rx.ret = "reading"
  BY DEF RxTypeOK, Read
<1>3. DOMAIN rx = Fields
  BY DEF RxTypeOK
<1>4. CASE ReadNull(b)
  <2>1. /\ rx'.startFlag = flag /\ rx'.started = rx.started /\ rx'.idx = rx.idx
        /\ rx'.actual = rx.actual /\ rx'.buf = rx.buf /\ rx'.esc = rx.esc
        /\ rx'.ret \in {"reading", "TimeoutError"}
    BY <1>2, <1>3, <1>4 DEF ReadNull, Fields
  <2>2. b = FLAG__NULL /\ b # FLAG_ESC
    BY <1>4 DEF ReadNull, FLAG__NULL, FLAG_ESC
  <2>3. RxHas(rx', Append(s, b), k)
    BY <1>1, <1>2, <2>1, <2>2, NothingAdded
  <2>4. QED
    BY <2>1, <2>3 DEF RxAfter
<1>5. CASE ReadEsc(b)
  <2>1. /\ rx'.startFlag = flag /\ rx'.started = rx.started /\ rx'.idx = rx.idx
        /\ rx'.actual = rx.actual /\ rx'.buf = rx.buf /\ rx'.esc = TRUE
        /\ rx'.ret = "reading" /\ b = FLAG_ESC
    BY <1>2, <1>3, <1>5 DEF ReadEsc, Fields
  <2>2. RxHas(rx', Append(s, b), k)
    BY <1>1, <1>2, <2>1, NothingAdded
  <2>3. QED
    BY <2>1, <2>2 DEF RxAfter
<1>6. CASE ReadStart(b)
  <2>1. /\ rx'.startFlag = flag /\ rx'.started = TRUE /\ rx'.idx = 0
        /\ rx'.actual = rx.actual /\ rx'.esc = rx.esc /\ rx'.ret = "reading"
        /\ b = flag
    BY <1>2, <1>3, <1>6 DEF ReadStart, Fields
  <2>2. RxHas(rx', Append(s, b), Len(s) + 1)
    BY <1>1, <1>2, <2>1, StartRestarts
  <2>3. Len(s) + 1 \in Nat
    OBVIOUS
  <2>4. QED
    BY <2>1, <2>2, <2>3 DEF RxAfter
<1>7. CASE ReadOverlong(b)
  BY <1>3, <1>7 DEF ReadOverlong, Fields
<1>8. CASE ReadData(b)
  <2>1. /\ rx'.startFlag = flag /\ rx'.started = rx.started /\ rx'.idx = rx.idx + 1
        /\ rx'.actual = rx.idx + 1 /\ rx'.esc = FALSE /\ rx'.ret = "reading"
        /\ rx'.buf = [rx.buf EXCEPT ![rx.idx + 1] = Unescaped(b)]
        /\ rx.idx < rx.size /\ IsData(b)
    BY <1>2, <1>3, <1>8 DEF ReadData, Fields
  <2>2. rx.idx \in Nat /\ rx.size \in Nat /\ rx.buf \in [1..rx.size -> Byte \cup {Unwritten}]
    BY DEF RxTypeOK, BufferSize
  <2>3. rx'.buf = [rx.buf EXCEPT ![rx.idx + 1] = IF rx.esc THEN SetBit7(b) ELSE b]
    BY <2>1 DEF Unescaped
  <2>4. IsDataFor(flag, b)
    BY <2>1 DEF IsData, IsDataFor
  <2>5. RxHas(rx', Append(s, b), k)
    BY <1>1, <1>2, <2>1, <2>2, <2>3, <2>4, DataStored
  <2>6. QED
    BY <2>1, <2>5 DEF RxAfter
<1>9. QED
  BY <1>4, <1>5, <1>6, <1>7, <1>8 DEF Read, ReadEnd

\* The END keeps what is stored, and succeeds after a start flag.
LEMMA EndHas ==
    ASSUME RxTypeOK, NEW s \in Seq(Byte), RxAfter(rx, s), Read(FLAG_END),
           rx'.ret = "Success"
    PROVE  RxAfter(rx', s) /\ rx'.started
<1>1. FLAG_END \notin {FLAG__NULL, FLAG_ESC, rx.startFlag}
  BY DEF RxTypeOK, FLAG_END, FLAG__NULL, FLAG_ESC, FLAG_START, FLAG_IDA
<1>2. ReadEnd(FLAG_END)
  BY <1>1 DEF Read, ReadNull, ReadEsc, ReadStart, ReadOverlong, ReadData, IsData
<1>3. DOMAIN rx = Fields
  BY DEF RxTypeOK
<1>4. /\ rx'.startFlag = rx.startFlag /\ rx'.started = rx.started /\ rx'.idx = rx.idx
      /\ rx'.actual = rx.actual /\ rx'.buf = rx.buf /\ rx'.esc = rx.esc /\ rx.started
  BY <1>2, <1>3 DEF ReadEnd, Fields
<1>5. PICK k \in Nat : RxHas(rx, s, k)
  BY DEF RxAfter
<1>6. RxHas(rx', s, k)
  <2>1. Stores(rx', DecodeBody(After(s, k)), Dangling(s, rx.startFlag, k))
    BY <1>4, <1>5 DEF RxHas, Stores
  <2>2. QED
    BY <1>4, <1>5, <2>1 DEF RxHas
<1>7. QED
  BY <1>4, <1>6 DEF RxAfter
-----------------------------------------------------------------------------
(* A call that has taken the bytes s so far, its END included. *)
Took(r, s) ==
    /\ r.ret \in {"reading", "TimeoutError"} =>
           RxAfter(r, s) /\ \A i \in 1..Len(s) : s[i] # FLAG_END
    /\ r.ret = "Success" =>
           r.started /\ \E t \in Seq(Byte) : s = Append(t, FLAG_END) /\ RxAfter(r, t)

LEMMA FreshTook ==
    ASSUME NEW r, NEW n \in Nat, FreshOK(r, n)
    PROVE  Took(r, <<>>)
<1>1. RxAfter(r, <<>>) /\ r.ret = "reading"
  BY FreshHas DEF FreshOK
<1>2. QED
  BY <1>1 DEF Took

LEMMA ReadTook ==
    ASSUME RxTypeOK, NEW s \in Seq(Byte), Took(rx, s), NEW b \in Byte, Read(b)
    PROVE  Took(rx', Append(s, b))
<1>1. rx.ret = "reading" /\ RxAfter(rx, s) /\ \A i \in 1..Len(s) : s[i] # FLAG_END
  BY DEF Took, Read
<1>2. CASE b = FLAG_END
  <2>1. rx'.ret \in {"Success", "InternalError"}
    <3>1. ReadEnd(b)
      BY <1>2 DEF Read, ReadNull, ReadEsc, ReadStart, ReadOverlong, ReadData, IsData,
                  RxTypeOK, FLAG_END, FLAG__NULL, FLAG_ESC, FLAG_START, FLAG_IDA
    <3>2. QED
      BY <3>1 DEF ReadEnd, RxTypeOK, Fields
  <2>2. rx'.ret = "Success" => rx'.started /\ RxAfter(rx', s)
    BY <1>1, <1>2, EndHas
  <2>3. QED
    BY <1>2, <2>1, <2>2 DEF Took
<1>3. CASE b # FLAG_END
  <2>1. /\ rx'.ret # "Success"
        /\ rx'.ret # "InternalError" => RxAfter(rx', Append(s, b))
    BY <1>1, <1>3, ReadHas
  <2>2. \A i \in 1..Len(Append(s, b)) : Append(s, b)[i] # FLAG_END
    BY <1>1, <1>3
  <2>3. QED
    BY <2>1, <2>2 DEF Took
<1>4. QED
  BY <1>2, <1>3

\* A NULL of an empty FIFO may be left out of them.
LEMMA NullTook ==
    ASSUME RxTypeOK, NEW s \in Seq(Byte), Took(rx, s), Read(FLAG__NULL)
    PROVE  Took(rx', s)
<1>1. rx.ret = "reading" /\ RxAfter(rx, s) /\ \A i \in 1..Len(s) : s[i] # FLAG_END
  BY DEF Took, Read
<1>2. ReadNull(FLAG__NULL)
  BY DEF Read, ReadEnd, ReadEsc, ReadStart, ReadOverlong, ReadData, IsData,
         RxTypeOK, FLAG_END, FLAG__NULL, FLAG_ESC, FLAG_START, FLAG_IDA
<1>3. /\ rx'.startFlag = rx.startFlag /\ rx'.started = rx.started /\ rx'.idx = rx.idx
      /\ rx'.actual = rx.actual /\ rx'.buf = rx.buf /\ rx'.esc = rx.esc
      /\ rx'.ret \in {"reading", "TimeoutError"}
  BY <1>1, <1>2 DEF ReadNull, RxTypeOK, Fields
<1>4. PICK k \in Nat : RxHas(rx, s, k)
  BY <1>1 DEF RxAfter
<1>5. RxHas(rx', s, k)
  <2>1. Stores(rx', DecodeBody(After(s, k)), Dangling(s, rx.startFlag, k))
    BY <1>3, <1>4 DEF RxHas, Stores
  <2>2. QED
    BY <1>3, <1>4, <2>1 DEF RxHas
<1>6. QED
  BY <1>1, <1>3, <1>5 DEF Took, RxAfter

=============================================================================
