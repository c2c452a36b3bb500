-------------------------- MODULE RevocationProofs --------------------------
(***************************************************************************)
(* The revocation log for any indices, any length of the file and every    *)
(* fault: types, what a line that began a line is worth, and what is read  *)
(* back.  ParseUint stays opaque: all that is used of it is that it reads  *)
(* what FormatUint wrote (DecimalAssumption) and what fits 64 bits.        *)
(***************************************************************************)
EXTENDS RevocationFile, SequenceTheorems, TLAPS

-----------------------------------------------------------------------------
(* Bytes *)

LEMMA LineBytes ==
  ASSUME NEW i \in Indices
  PROVE  /\ Decimal[i] \in Seq(0 .. 9) /\ Len(Decimal[i]) \in Nat \ {0}
         /\ Line(i) \in Seq(Bytes) /\ Len(Line(i)) = Len(Decimal[i]) + 1
         /\ \A k \in 1 .. Len(Decimal[i]) : Line(i)[k] = Decimal[i][k] /\ Line(i)[k] \in 0 .. 9
         /\ Line(i)[Len(Decimal[i]) + 1] = NewLine
<1>1. Decimal[i] \in Seq(0 .. 9) /\ Decimal[i] # << >>
  BY RevocationFileConstants, DecimalAssumption
<1>2. PICK d \in Seq(0 .. 9) : d = Decimal[i] /\ d # << >>
  BY <1>1
<1>3. Len(d) \in Nat \ {0} /\ \A k \in 1 .. Len(d) : d[k] \in 0 .. 9
  BY <1>2, EmptySeq, ElementOfSeq
<1>4. d \in Seq(Bytes) /\ NewLine \in Bytes
  BY <1>2, <1>3 DEF Bytes, NewLine
<1>5. /\ Append(d, NewLine) \in Seq(Bytes) /\ Len(Append(d, NewLine)) = Len(d) + 1
      /\ \A k \in 1 .. Len(d) : Append(d, NewLine)[k] = d[k]
      /\ Append(d, NewLine)[Len(d) + 1] = NewLine
  BY <1>4, AppendProperties
<1> QED
  BY <1>2, <1>3, <1>5 DEF Line

\* The bytes after a write, and those that a power loss leaves.
LEMMA Appended ==
  ASSUME NEW b \in Seq(Bytes), NEW x \in Seq(Bytes)
  PROVE  /\ b \o x \in Seq(Bytes) /\ Len(b \o x) = Len(b) + Len(x)
         /\ \A k \in 1 .. Len(b) : (b \o x)[k] = b[k]
         /\ \A k \in 1 .. Len(x) : (b \o x)[Len(b) + k] = x[k]
<1>1. Len(b) \in Nat /\ Len(x) \in Nat
  OBVIOUS
<1>2. /\ b \o x \in Seq(Bytes) /\ Len(b \o x) = Len(b) + Len(x)
      /\ \A i \in 1 .. Len(b) + Len(x) : (b \o x)[i] = IF i <= Len(b) THEN b[i] ELSE x[i - Len(b)]
  BY ConcatProperties
<1>3. ASSUME NEW k \in 1 .. Len(b) PROVE (b \o x)[k] = b[k]
  <2>1. k \in 1 .. Len(b) + Len(x) /\ k <= Len(b)
    BY <1>1
  <2> QED
    BY <1>2, <2>1
<1>4. ASSUME NEW k \in 1 .. Len(x) PROVE (b \o x)[Len(b) + k] = x[k]
  <2>1. Len(b) + k \in 1 .. Len(b) + Len(x) /\ ~(Len(b) + k <= Len(b)) /\ (Len(b) + k) - Len(b) = k
    BY <1>1
  <2> QED
    BY <1>2, <2>1
<1> QED
  BY <1>2, <1>3, <1>4

LEMMA Prefix ==
  ASSUME NEW b \in Seq(Bytes), NEW n \in 0 .. Len(b)
  PROVE  /\ SubSeq(b, 1, n) \in Seq(Bytes) /\ Len(SubSeq(b, 1, n)) = n
         /\ \A k \in 1 .. n : SubSeq(b, 1, n)[k] = b[k]
<1>1. Len(b) \in Nat /\ n \in Nat /\ n <= Len(b) /\ n \in Int /\ 1 \in Int
  OBVIOUS
<1>2. \A k \in 1 .. n : b[k] \in Bytes
  <2>1. \A k \in 1 .. n : k \in 1 .. Len(b)
    BY <1>1
  <2> QED
    BY <2>1, ElementOfSeq
<1>3. /\ SubSeq(b, 1, n) \in Seq(Bytes)
      /\ Len(SubSeq(b, 1, n)) = IF 1 <= n THEN n - 1 + 1 ELSE 0
      /\ \A k \in 1 .. n - 1 + 1 : SubSeq(b, 1, n)[k] = b[1 + k - 1]
  BY <1>1, <1>2, SubSeqProperties
<1>4. Len(SubSeq(b, 1, n)) = n
  BY <1>1, <1>3
<1>5. ASSUME NEW k \in 1 .. n PROVE SubSeq(b, 1, n)[k] = b[k]
  <2>1. k \in 1 .. n - 1 + 1 /\ 1 + k - 1 = k
    BY <1>1
  <2> QED
    BY <1>3, <2>1
<1> QED
  BY <1>3, <1>4, <1>5

-----------------------------------------------------------------------------
(* Lines *)

\* The line of index i begins at s.
LineAt(b, s, i) ==
  /\ s \in 1 .. Len(b) /\ s + Len(Decimal[i]) \in 1 .. Len(b)
  /\ \A k \in 1 .. Len(Decimal[i]) : b[s - 1 + k] = Decimal[i][k]
  /\ b[s + Len(Decimal[i])] = NewLine
  /\ s = 1 \/ b[s - 1] = NewLine

\* The span of the digits of i reads as i.
LEMMA SpanReads ==
  ASSUME NEW b \in Seq(Bytes), NEW i \in Indices, NEW s \in Nat, 1 <= s,
         s - 1 + Len(Decimal[i]) <= Len(b),
         \A k \in 1 .. Len(Decimal[i]) : b[s - 1 + k] = Decimal[i][k]
  PROVE  ParseUint(SubSeq(b, s, s - 1 + Len(Decimal[i]))) = i
<1> DEFINE d == Decimal[i]
           e == s - 1 + Len(d)
<1>1. d \in Seq(0 .. 9) /\ Len(d) \in Nat \ {0} /\ \A k \in 1 .. Len(d) : d[k] \in 0 .. 9
  BY LineBytes, ElementOfSeq
<1>2. e \in Int /\ s \in Int /\ e - s + 1 = Len(d) /\ s <= e
  BY <1>1
<1>3. \A k \in s .. e : b[k] \in 0 .. 9
  <2> SUFFICES ASSUME NEW k \in s .. e PROVE b[k] \in 0 .. 9
    OBVIOUS
  <2>1. k - s + 1 \in 1 .. Len(d) /\ s - 1 + (k - s + 1) = k
    BY <1>1, <1>2
  <2>2. b[s - 1 + (k - s + 1)] = d[k - s + 1]
    BY <2>1
  <2> QED
    BY <1>1, <2>1, <2>2
<1> HIDE DEF d, e
<1>4. /\ SubSeq(b, s, e) \in Seq(0 .. 9) /\ Len(SubSeq(b, s, e)) = e - s + 1
      /\ \A k \in 1 .. e - s + 1 : SubSeq(b, s, e)[k] = b[s + k - 1]
  BY <1>2, <1>3, SubSeqProperties
<1>5. \A k \in 1 .. Len(SubSeq(b, s, e)) : SubSeq(b, s, e)[k] = d[k]
  <2> SUFFICES ASSUME NEW k \in 1 .. Len(d) PROVE SubSeq(b, s, e)[k] = d[k]
    BY <1>2, <1>4
  <2>1. s + k - 1 = s - 1 + k
    BY <1>1
  <2>2. SubSeq(b, s, e)[k] = b[s - 1 + k]
    BY <1>2, <1>4, <2>1
  <2> QED
    BY <2>2 DEF d
<1>6. SubSeq(b, s, e) = d
  BY <1>1, <1>2, <1>4, <1>5, SeqEqual
<1>7. ParseUint(d) = i
  BY DecimalAssumption DEF d
<1> QED
  BY <1>6, <1>7 DEF d, e

LEMMA LineIsLoaded ==
  ASSUME NEW b \in Seq(Bytes), NEW i \in Indices, NEW s, LineAt(b, s, i)
  PROVE  i \in Load(b)
<1> DEFINE n == Len(Decimal[i])
           e == s - 1 + n
<1>1. n \in Nat \ {0} /\ \A k \in 1 .. n : Decimal[i][k] \in 0 .. 9
  BY LineBytes, ElementOfSeq
<1>2. Len(b) \in Nat /\ s \in 1 .. Len(b) /\ s \in Nat /\ 1 <= s /\ s + n \in 1 .. Len(b)
  BY DEF LineAt
<1>3. /\ \A k \in 1 .. n : b[s - 1 + k] = Decimal[i][k]
      /\ b[s + n] = NewLine /\ (s = 1 \/ b[s - 1] = NewLine)
  BY DEF LineAt
<1>4. ParseUint(SubSeq(b, s, e)) = i
  <2>1. s - 1 + n <= Len(b)
    BY <1>1, <1>2
  <2> QED
    BY <1>2, <1>3, <2>1, SpanReads
<1>5. <<s, e>> \in LineSpans(b)
  <2>1. e \in 1 .. Len(b) /\ s <= e /\ e + 1 = s + n
    BY <1>1, <1>2
  <2>2. ASSUME NEW k \in s .. e PROVE b[k] # NewLine
    <3>1. k - s + 1 \in 1 .. n /\ s - 1 + (k - s + 1) = k
      BY <1>1, <1>2
    <3>2. b[s - 1 + (k - s + 1)] = Decimal[i][k - s + 1]
      BY <1>3, <3>1
    <3>3. b[k] \in 0 .. 9
      BY <1>1, <3>1, <3>2
    <3> QED
      BY <3>3 DEF NewLine
  <2> HIDE DEF e, n
  <2> QED
    BY <1>2, <1>3, <2>1, <2>2 DEF LineSpans
<1>6. i \in 0 .. MaxIndex
  BY RevocationFileConstants
<1> HIDE DEF e
<1> QED
  BY <1>4, <1>5, <1>6 DEF Load

\* A line stays where it is when more is written, and in a prefix that has its end.
LEMMA LineStays ==
  ASSUME NEW b \in Seq(Bytes), NEW c \in Seq(Bytes), NEW i \in Indices, NEW s, LineAt(b, s, i),
         s + Len(Decimal[i]) <= Len(c), \A k \in 1 .. s + Len(Decimal[i]) : c[k] = b[k]
  PROVE  LineAt(c, s, i)
<1> DEFINE n == Len(Decimal[i])
<1>1. n \in Nat \ {0} /\ Len(b) \in Nat /\ Len(c) \in Nat
  BY LineBytes
<1>2. s \in Nat /\ 1 <= s /\ s \in 1 .. Len(b) /\ s + n <= Len(c)
  BY <1>1 DEF LineAt
<1>3. s \in 1 .. Len(c) /\ s + n \in 1 .. Len(c) /\ s + n \in 1 .. s + n
  BY <1>1, <1>2
<1>4. ASSUME NEW k \in 1 .. n PROVE c[s - 1 + k] = Decimal[i][k]
  <2>1. s - 1 + k \in 1 .. s + n
    BY <1>1, <1>2
  <2> QED
    BY <2>1 DEF LineAt
<1>5. s = 1 \/ c[s - 1] = NewLine
  <2>1. s # 1 => s - 1 \in 1 .. s + n
    BY <1>1, <1>2
  <2> QED
    BY <2>1 DEF LineAt
<1>6. c[s + n] = NewLine
  BY <1>3 DEF LineAt
<1> QED
  BY <1>3, <1>4, <1>5, <1>6 DEF LineAt

\* What begins a line of the file is a line of it.
LEMMA NewLineAt ==
  ASSUME NEW b \in Seq(Bytes), NEW i \in Indices, b = << >> \/ Last(b) = NewLine
  PROVE  LineAt(b \o Line(i), Len(b) + 1, i)
<1> DEFINE n == Len(Decimal[i])
           c == b \o Line(i)
           s == Len(b) + 1
<1>1. /\ n \in Nat \ {0} /\ Len(b) \in Nat /\ Line(i) \in Seq(Bytes) /\ Len(Line(i)) = n + 1
      /\ \A k \in 1 .. n : Line(i)[k] = Decimal[i][k]
      /\ Line(i)[n + 1] = NewLine
  BY LineBytes
<1>2. /\ Len(c) = Len(b) + Len(Line(i))
      /\ \A k \in 1 .. Len(b) : c[k] = b[k]
      /\ \A k \in 1 .. Len(Line(i)) : c[Len(b) + k] = Line(i)[k]
  BY <1>1, Appended
<1> HIDE DEF c, n
<1>3. s \in 1 .. Len(c) /\ s + n \in 1 .. Len(c) /\ s + n = Len(b) + (n + 1)
      /\ n + 1 \in 1 .. Len(Line(i))
  BY <1>1, <1>2
<1>4. ASSUME NEW k \in 1 .. n PROVE c[s - 1 + k] = Decimal[i][k]
  <2>1. s - 1 + k = Len(b) + k /\ k \in 1 .. Len(Line(i))
    BY <1>1
  <2> QED
    BY <1>1, <1>2, <2>1
<1>5. c[s + n] = NewLine
  BY <1>1, <1>2, <1>3
<1>6. s = 1 \/ c[s - 1] = NewLine
  <2>1. CASE b = << >>
    BY <2>1, EmptySeq
  <2>2. CASE b # << >> /\ Last(b) = NewLine
    <3>1. Len(b) \in 1 .. Len(b) /\ s - 1 = Len(b)
      BY <2>2, EmptySeq
    <3> QED
      BY <1>2, <2>2, <3>1 DEF Last
  <2> QED
    BY <2>1, <2>2
<1> QED
  BY <1>3, <1>4, <1>5, <1>6 DEF LineAt, c, n

\* A whole line added to whole lines reads as its index, and changes no other.
LEMMA AppendedLoad ==
  ASSUME NEW b \in Seq(Bytes), NEW i \in Indices, b = << >> \/ Last(b) = NewLine
  PROVE  Load(b \o Line(i)) \subseteq Load(b) \cup {i}
<1> DEFINE n == Len(Decimal[i])
           c == b \o Line(i)
<1>1. /\ n \in Nat \ {0} /\ Len(b) \in Nat /\ Line(i) \in Seq(Bytes) /\ Len(Line(i)) = n + 1
      /\ \A k \in 1 .. n : Line(i)[k] = Decimal[i][k] /\ Line(i)[k] \in 0 .. 9
      /\ Line(i)[n + 1] = NewLine
  BY LineBytes
<1>2. /\ c \in Seq(Bytes) /\ Len(c) = Len(b) + (n + 1)
      /\ \A k \in 1 .. Len(b) : c[k] = b[k]
      /\ \A k \in 1 .. n + 1 : c[Len(b) + k] = Line(i)[k]
  <2>1. /\ c \in Seq(Bytes) /\ Len(c) = Len(b) + Len(Line(i))
        /\ \A k \in 1 .. Len(b) : c[k] = b[k]
        /\ \A k \in 1 .. Len(Line(i)) : c[Len(b) + k] = Line(i)[k]
    BY <1>1, Appended
  <2> QED
    BY <1>1, <2>1
<1>3. Len(b) # 0 => b[Len(b)] = NewLine
  <2>1. b = << >> => Len(b) = 0
    BY EmptySeq
  <2> QED
    BY <2>1 DEF Last
<1> HIDE DEF c, n
<1> SUFFICES ASSUME NEW span \in LineSpans(c),
                    ParseUint(SubSeq(c, span[1], span[2])) \in 0 .. MaxIndex
             PROVE  ParseUint(SubSeq(c, span[1], span[2])) \in Load(b) \cup {i}
  BY DEF Load, c
<1> DEFINE s == span[1]
           e == span[2]
<1>4. /\ s \in 1 .. Len(c) /\ e \in 1 .. Len(c) /\ s <= e
      /\ \A k \in s .. e : c[k] # NewLine
      /\ s = 1 \/ c[s - 1] = NewLine
      /\ e = Len(c) \/ c[e + 1] = NewLine
  BY DEF LineSpans
<1>5. s \in Nat /\ e \in Nat /\ 1 <= s /\ s <= e /\ e <= Len(b) + (n + 1)
  <2> HIDE DEF s, e
  <2> QED
    BY <1>1, <1>2, <1>4
<1> HIDE DEF s, e
<1>6. CASE e <= Len(b)
  <2>1. s \in 1 .. Len(b) /\ e \in 1 .. Len(b) /\ e # Len(c)
    BY <1>1, <1>2, <1>5, <1>6
  <2>2. \A k \in s .. e : k \in 1 .. Len(b)
    BY <1>1, <1>5, <1>6
  <2>3. \A k \in s .. e : b[k] # NewLine
    BY <1>2, <1>4, <2>2
  <2>4. s = 1 \/ b[s - 1] = NewLine
    <3>1. s # 1 => s - 1 \in 1 .. Len(b)
      BY <1>1, <1>5, <1>6
    <3> QED
      BY <1>2, <1>4, <3>1
  <2>5. e = Len(b) \/ b[e + 1] = NewLine
    <3>1. e # Len(b) => e + 1 \in 1 .. Len(b)
      BY <1>1, <1>5, <1>6
    <3> QED
      BY <1>2, <1>4, <2>1, <3>1
  <2>6. <<s, e>> \in LineSpans(b)
    BY <1>4, <2>1, <2>3, <2>4, <2>5 DEF LineSpans
  <2>7. SubSeq(c, s, e) = SubSeq(b, s, e)
    <3>1. \A k \in s .. e : c[k] = b[k] /\ c[k] \in Bytes /\ b[k] \in Bytes
      BY <1>2, <2>2, ElementOfSeq
    <3>2. s \in Int /\ e \in Int
      BY <1>5
    <3>3. /\ SubSeq(c, s, e) \in Seq(Bytes) /\ Len(SubSeq(c, s, e)) = e - s + 1
          /\ \A k \in 1 .. e - s + 1 : SubSeq(c, s, e)[k] = c[s + k - 1]
      BY <1>5, <3>1, <3>2, SubSeqProperties
    <3>4. /\ SubSeq(b, s, e) \in Seq(Bytes) /\ Len(SubSeq(b, s, e)) = e - s + 1
          /\ \A k \in 1 .. e - s + 1 : SubSeq(b, s, e)[k] = b[s + k - 1]
      BY <1>5, <3>1, <3>2, SubSeqProperties
    <3>5. \A k \in 1 .. e - s + 1 : s + k - 1 \in s .. e
      BY <1>5
    <3>6. \A k \in 1 .. Len(SubSeq(c, s, e)) : SubSeq(c, s, e)[k] = SubSeq(b, s, e)[k]
      BY <3>1, <3>3, <3>4, <3>5
    <3> QED
      BY <3>3, <3>4, <3>6, SeqEqual
  <2> QED
    <3>1. <<s, e>>[1] = s /\ <<s, e>>[2] = e
      OBVIOUS
    <3>2. ParseUint(SubSeq(b, s, e)) \in {ParseUint(SubSeq(b, sp[1], sp[2])) : sp \in LineSpans(b)}
      BY <2>6, <3>1
    <3> QED
      BY <2>7, <3>2 DEF Load, s, e
<1>7. CASE e > Len(b)
  <2>1. s > Len(b)
    <3> SUFFICES ASSUME s <= Len(b) PROVE FALSE
      BY <1>1, <1>5
    <3>1. Len(b) \in s .. e /\ Len(b) # 0 /\ Len(b) \in 1 .. Len(b)
      BY <1>1, <1>5, <1>7
    <3> QED
      BY <1>2, <1>3, <1>4, <3>1
  <2>2. ASSUME NEW k \in Nat, Len(b) < k, k <= Len(b) + n PROVE c[k] # NewLine
    <3>1. k - Len(b) \in 1 .. n /\ k - Len(b) \in 1 .. n + 1 /\ Len(b) + (k - Len(b)) = k
      BY <1>1, <2>2
    <3>2. c[k] = Line(i)[k - Len(b)]
      BY <1>2, <3>1
    <3>3. c[k] \in 0 .. 9
      BY <1>1, <3>1, <3>2
    <3> QED
      BY <3>3 DEF NewLine
  <2>3. c[Len(b) + (n + 1)] = NewLine
    <3>1. n + 1 \in 1 .. n + 1
      BY <1>1
    <3> QED
      BY <1>1, <1>2, <3>1
  <2>4. e <= Len(b) + n
    <3> SUFFICES ASSUME e = Len(b) + (n + 1) PROVE FALSE
      BY <1>1, <1>5
    <3>1. e \in s .. e
      BY <1>5
    <3> QED
      BY <1>4, <2>3, <3>1
  <2>5. s = Len(b) + 1
    <3> SUFFICES ASSUME s > Len(b) + 1 PROVE FALSE
      BY <1>1, <1>5, <2>1
    <3>1. s - 1 \in Nat /\ Len(b) < s - 1 /\ s - 1 <= Len(b) + n /\ s # 1
      BY <1>1, <1>5, <2>1, <2>4
    <3> QED
      BY <1>4, <2>2, <3>1
  <2>6. e = Len(b) + n
    <3> SUFFICES ASSUME e < Len(b) + n PROVE FALSE
      BY <1>1, <1>5, <2>4
    <3>1. e + 1 \in Nat /\ Len(b) < e + 1 /\ e + 1 <= Len(b) + n
      BY <1>1, <1>5, <1>7
    <3>2. e # Len(b) + (n + 1)
      BY <1>1, <1>5
    <3> QED
      BY <1>2, <1>4, <2>2, <3>1, <3>2
  <2>7. e = s - 1 + n /\ s - 1 + n <= Len(c)
    BY <1>1, <1>2, <1>5, <2>5, <2>6
  <2>8. ASSUME NEW k \in 1 .. n PROVE c[s - 1 + k] = Decimal[i][k]
    <3>1. s - 1 + k = Len(b) + k /\ k \in 1 .. n + 1
      BY <1>1, <2>5
    <3> QED
      BY <1>1, <1>2, <3>1
  <2>9. ParseUint(SubSeq(c, s, s - 1 + Len(Decimal[i]))) = i
    BY <1>2, <1>5, <2>7, <2>8, SpanReads DEF n
  <2> QED
    BY <2>7, <2>9 DEF n, s, e
<1> QED
  BY <1>1, <1>5, <1>6, <1>7

\* What a power loss between lines leaves reads as part of what was there.
LEMMA PrefixLoad ==
  ASSUME NEW b \in Seq(Bytes), NEW m \in 0 .. Len(b), m > 0 => b[m] = NewLine
  PROVE  Load(SubSeq(b, 1, m)) \subseteq Load(b)
<1> DEFINE c == SubSeq(b, 1, m)
<1>1. /\ c \in Seq(Bytes) /\ Len(c) = m /\ (\A k \in 1 .. m : c[k] = b[k])
      /\ Len(b) \in Nat /\ m \in Nat /\ m <= Len(b)
  BY Prefix
<1> HIDE DEF c
<1> SUFFICES ASSUME NEW span \in LineSpans(c),
                    ParseUint(SubSeq(c, span[1], span[2])) \in 0 .. MaxIndex
             PROVE  ParseUint(SubSeq(c, span[1], span[2])) \in Load(b)
  BY DEF Load, c
<1> DEFINE s == span[1]
           e == span[2]
<1>4. /\ s \in 1 .. m /\ e \in 1 .. m /\ s <= e
      /\ \A k \in s .. e : c[k] # NewLine
      /\ s = 1 \/ c[s - 1] = NewLine
      /\ e = m \/ c[e + 1] = NewLine
  BY <1>1 DEF LineSpans
<1>5. s \in Nat /\ e \in Nat /\ 1 <= s /\ s <= e /\ e <= m
  <2> HIDE DEF s, e
  <2> QED
    BY <1>1, <1>4
<1> HIDE DEF s, e
<1>6. e # m
  <2> SUFFICES ASSUME e = m PROVE FALSE
    OBVIOUS
  <2>1. m \in s .. e /\ m \in 1 .. m /\ m > 0
    BY <1>1, <1>5
  <2> QED
    BY <1>1, <1>4, <2>1
<1>7. \A k \in s .. e : k \in 1 .. m /\ k \in 1 .. Len(b)
  BY <1>1, <1>5
<1>8. s = 1 \/ b[s - 1] = NewLine
  <2>1. s # 1 => s - 1 \in 1 .. m
    BY <1>1, <1>5
  <2> QED
    BY <1>1, <1>4, <2>1
<1>9. b[e + 1] = NewLine
  <2>1. e + 1 \in 1 .. m
    BY <1>1, <1>5, <1>6
  <2> QED
    BY <1>1, <1>4, <1>6, <2>1
<1>10. \A k \in s .. e : b[k] # NewLine
  BY <1>1, <1>4, <1>7
<1>11. s \in 1 .. Len(b) /\ e \in 1 .. Len(b)
  BY <1>1, <1>5
<1>12. <<s, e>> \in LineSpans(b)
  BY <1>4, <1>8, <1>9, <1>10, <1>11 DEF LineSpans
<1>13. SubSeq(c, s, e) = SubSeq(b, s, e)
  <2>1. \A k \in s .. e : c[k] = b[k] /\ c[k] \in Bytes /\ b[k] \in Bytes
    BY <1>1, <1>7, ElementOfSeq
  <2>2. s \in Int /\ e \in Int
    BY <1>5
  <2>3. /\ SubSeq(c, s, e) \in Seq(Bytes) /\ Len(SubSeq(c, s, e)) = e - s + 1
        /\ \A k \in 1 .. e - s + 1 : SubSeq(c, s, e)[k] = c[s + k - 1]
    BY <1>5, <2>1, <2>2, SubSeqProperties
  <2>4. /\ SubSeq(b, s, e) \in Seq(Bytes) /\ Len(SubSeq(b, s, e)) = e - s + 1
        /\ \A k \in 1 .. e - s + 1 : SubSeq(b, s, e)[k] = b[s + k - 1]
    BY <1>5, <2>1, <2>2, SubSeqProperties
  <2>5. \A k \in 1 .. e - s + 1 : s + k - 1 \in s .. e
    BY <1>5
  <2>6. \A k \in 1 .. Len(SubSeq(c, s, e)) : SubSeq(c, s, e)[k] = SubSeq(b, s, e)[k]
    BY <2>1, <2>3, <2>4, <2>5
  <2> QED
    BY <2>3, <2>4, <2>6, SeqEqual
<1>14. <<s, e>>[1] = s /\ <<s, e>>[2] = e
  OBVIOUS
<1>15. ParseUint(SubSeq(b, s, e)) \in {ParseUint(SubSeq(b, sp[1], sp[2])) : sp \in LineSpans(b)}
  BY <1>12, <1>14
<1> QED
  BY <1>13, <1>15 DEF Load, s, e

-----------------------------------------------------------------------------
(* Types *)

LEMMA IdleType == Idle \in [waiting : BOOLEAN, index : Indices, whole : BOOLEAN] /\ ~Idle.waiting
<1>1. (CHOOSE i \in Indices : TRUE) \in Indices
  BY RevocationFileConstants
<1> QED
  BY <1>1 DEF Idle

LEMMA LoadedFits ==
  ASSUME NEW b
  PROVE  Load(b) \subseteq 0 .. MaxIndex
BY DEF Load

LEMMA TypeKept == TypeOK /\ [Next]_vars => TypeOK'
<1> SUFFICES ASSUME TypeOK, [Next]_vars PROVE TypeOK'
  OBVIOUS
<1>1. /\ file \in Seq(Bytes) /\ Len(file) \in Nat /\ Len(file) <= MaxBytes /\ MaxBytes \in Nat
      /\ synced \in 0 .. Len(file) /\ synced \in Nat /\ synced <= Len(file)
  BY RevocationFileConstants DEF TypeOK
<1>2. ASSUME NEW i \in Indices, WriteLine(i) PROVE TypeOK'
  <2>1. /\ Line(i) \in Seq(Bytes) /\ Len(Line(i)) \in Nat
    BY LineBytes
  <2>2. /\ file' = file \o Line(i) /\ Len(file) + Len(Line(i)) <= MaxBytes
        /\ pending' = [waiting |-> TRUE, index |-> i, whole |-> AtLineStart]
        /\ asked' = asked \cup {i} /\ UNCHANGED <<synced, revoked, acked, whole, torn>>
    BY <1>2 DEF WriteLine
  <2>3. file' \in Seq(Bytes) /\ Len(file') = Len(file) + Len(Line(i))
    BY <1>1, <2>1, <2>2, Appended
  <2>4. Len(file') <= MaxBytes /\ synced \in 0 .. Len(file')
    BY <1>1, <2>1, <2>2, <2>3
  <2>5. pending' \in [waiting : BOOLEAN, index : Indices, whole : BOOLEAN]
    BY <2>2 DEF AtLineStart
  <2> QED
    BY <2>2, <2>3, <2>4, <2>5 DEF TypeOK
<1>3. ASSUME NEW i \in Indices, NEW n \in 0 .. MaxBytes, WriteFails(i, n) PROVE TypeOK'
  <2>1. /\ Line(i) \in Seq(Bytes) /\ Len(Line(i)) \in Nat /\ n \in Nat
    BY <1>1, LineBytes
  <2>2. /\ file' = file \o SubSeq(Line(i), 1, n) /\ Len(file) + n <= MaxBytes /\ n < Len(Line(i))
        /\ torn' = (torn \/ n > 0)
        /\ asked' = asked \cup {i} /\ UNCHANGED <<synced, revoked, pending, acked, whole>>
    BY <1>3 DEF WriteFails
  <2>3. n \in 0 .. Len(Line(i))
    BY <2>1, <2>2
  <2>4. SubSeq(Line(i), 1, n) \in Seq(Bytes) /\ Len(SubSeq(Line(i), 1, n)) = n
    BY <2>1, <2>3, Prefix
  <2>5. file' \in Seq(Bytes) /\ Len(file') = Len(file) + n
    BY <1>1, <2>2, <2>4, Appended
  <2>6. Len(file') <= MaxBytes /\ synced \in 0 .. Len(file')
    BY <1>1, <2>1, <2>2, <2>5
  <2> QED
    BY <2>2, <2>5, <2>6 DEF TypeOK
<1>4. CASE SyncAndPublish
  <2>1. /\ synced' = Len(file) /\ revoked' = revoked \cup {pending.index}
        /\ acked' = acked \cup {pending.index}
        /\ whole' = whole \cup {i \in {pending.index} : pending.whole}
        /\ pending' = Idle /\ UNCHANGED <<file, asked, torn>>
    BY <1>4 DEF SyncAndPublish
  <2>2. pending.index \in Indices /\ pending.index \in 0 .. MaxIndex
    BY RevocationFileConstants DEF TypeOK
  <2>3. Len(file) \in 0 .. Len(file)
    BY <1>1
  <2> QED
    BY <1>1, <2>1, <2>2, <2>3, IdleType DEF TypeOK
<1>5. CASE SyncFails
  BY <1>5, IdleType DEF SyncFails, TypeOK
<1>6. CASE ProcessRestart
  BY <1>6, IdleType, LoadedFits DEF ProcessRestart, TypeOK
<1>7. ASSUME NEW n \in 0 .. MaxBytes, PowerLoss(n) PROVE TypeOK'
  <2>1. /\ n \in synced .. Len(file) /\ file' = SubSeq(file, 1, n) /\ synced' = n
        /\ revoked' = Load(file') /\ pending' = Idle
        /\ torn' = (torn \/ (n > 0 /\ file[n] # NewLine))
        /\ UNCHANGED <<acked, asked, whole>>
    BY <1>7 DEF PowerLoss
  <2>2. n \in 0 .. Len(file) /\ n \in 0 .. n /\ n <= MaxBytes
    BY <1>1, <2>1
  <2>3. file' \in Seq(Bytes) /\ Len(file') = n
    BY <1>1, <2>1, <2>2, Prefix
  <2>4. torn' \in BOOLEAN
    BY <2>1 DEF TypeOK
  <2> QED
    BY <2>1, <2>2, <2>3, <2>4, IdleType, LoadedFits DEF TypeOK
<1>8. CASE UNCHANGED vars
  BY <1>8 DEF vars, TypeOK
<1> QED
  BY <1>2, <1>3, <1>4, <1>5, <1>6, <1>7, <1>8 DEF Next

\* Type correctness of the log for any indices and any length of the file: no
\* fault leaves more synced than written, and only what fits 64 bits is loaded.
THEOREM TypeCorrect == Spec => []TypeOK
<1>1. Init => TypeOK
  <2> SUFFICES ASSUME Init PROVE TypeOK
    OBVIOUS
  <2>1. file \in Seq(Bytes) /\ Len(file) = 0 /\ MaxBytes \in Nat /\ synced = 0
    BY RevocationFileConstants, EmptySeq DEF Init
  <2>2. Len(file) <= MaxBytes /\ synced \in 0 .. Len(file)
    BY <2>1
  <2> QED
    BY <2>1, <2>2, IdleType DEF Init, TypeOK
<1> QED
  BY <1>1, TypeKept, PTL DEF Spec

-----------------------------------------------------------------------------
(* What survives *)

\* Every revocation whose line began a line is in memory and on the disk, in a
\* line of its own; one that is about to be synced has such a line already.
OnDisk(i) == \E s \in Nat : LineAt(file, s, i) /\ s + Len(Decimal[i]) <= synced

DurableInv ==
  /\ whole \subseteq revoked
  /\ \A i \in whole : OnDisk(i)
  /\ pending.waiting /\ pending.whole => \E s \in Nat : LineAt(file, s, pending.index)

LEMMA DurableKept == TypeOK /\ DurableInv /\ [Next]_vars => DurableInv'
<1> SUFFICES ASSUME TypeOK, DurableInv, [Next]_vars PROVE DurableInv'
  OBVIOUS
<1>1. /\ file \in Seq(Bytes) /\ Len(file) \in Nat /\ MaxBytes \in Nat
      /\ synced \in Nat /\ synced <= Len(file) /\ whole \subseteq Indices
      /\ pending.index \in Indices
  BY RevocationFileConstants DEF TypeOK
<1>2. ASSUME NEW x \in Seq(Bytes), file' = file \o x, synced' = synced, NEW i \in whole
      PROVE  OnDisk(i)'
  <2>1. PICK s \in Nat : LineAt(file, s, i) /\ s + Len(Decimal[i]) <= synced
    BY DEF DurableInv, OnDisk
  <2>2. /\ file' \in Seq(Bytes) /\ Len(file') = Len(file) + Len(x)
        /\ \A k \in 1 .. Len(file) : file'[k] = file[k]
    BY <1>1, <1>2, Appended
  <2>3. Len(Decimal[i]) \in Nat /\ Len(x) \in Nat /\ i \in Indices
    BY <1>1, LineBytes
  <2>4. /\ s + Len(Decimal[i]) <= Len(file')
        /\ \A k \in 1 .. s + Len(Decimal[i]) : k \in 1 .. Len(file)
    BY <1>1, <2>1, <2>2, <2>3
  <2>5. LineAt(file', s, i)
    BY <1>1, <2>1, <2>2, <2>3, <2>4, LineStays
  <2> QED
    BY <1>2, <2>1, <2>5 DEF OnDisk
<1>3. ASSUME NEW i \in Indices, WriteLine(i) PROVE DurableInv'
  <2>1. /\ file' = file \o Line(i) /\ Line(i) \in Seq(Bytes)
        /\ pending' = [waiting |-> TRUE, index |-> i, whole |-> AtLineStart]
        /\ UNCHANGED <<synced, revoked, whole>>
    BY <1>3, LineBytes DEF WriteLine
  <2>2. \A j \in whole : OnDisk(j)'
    BY <1>2, <2>1
  <2>3. AtLineStart => LineAt(file', Len(file) + 1, i)
    BY <1>1, <2>1, NewLineAt DEF AtLineStart
  <2>4. pending'.index = i /\ pending'.whole = AtLineStart /\ Len(file) + 1 \in Nat
    BY <1>1, <2>1
  <2>5. pending'.whole => \E s \in Nat : LineAt(file', s, pending'.index)
    BY <2>3, <2>4
  <2> QED
    BY <2>1, <2>2, <2>5 DEF DurableInv
<1>4. ASSUME NEW i \in Indices, NEW n \in 0 .. MaxBytes, WriteFails(i, n) PROVE DurableInv'
  <2>1. /\ file' = file \o SubSeq(Line(i), 1, n) /\ n < Len(Line(i)) /\ ~pending.waiting
        /\ UNCHANGED <<synced, revoked, pending, whole>>
    BY <1>4 DEF WriteFails
  <2>2. Line(i) \in Seq(Bytes) /\ n \in 0 .. Len(Line(i))
    BY <1>1, <2>1, LineBytes
  <2>3. SubSeq(Line(i), 1, n) \in Seq(Bytes)
    BY <2>2, Prefix
  <2>4. \A j \in whole : OnDisk(j)'
    BY <1>2, <2>1, <2>3
  <2> QED
    BY <2>1, <2>4 DEF DurableInv
<1>5. CASE SyncAndPublish
  <2>1. /\ synced' = Len(file) /\ revoked' = revoked \cup {pending.index} /\ pending.waiting
        /\ whole' = whole \cup {i \in {pending.index} : pending.whole}
        /\ pending' = Idle /\ file' = file
    BY <1>5 DEF SyncAndPublish
  <2>2. ASSUME NEW i \in Indices, NEW s \in Nat, LineAt(file, s, i) PROVE OnDisk(i)'
    <3>1. s + Len(Decimal[i]) <= Len(file)
      BY <1>1, <2>2 DEF LineAt
    <3> QED
      BY <2>1, <2>2, <3>1 DEF OnDisk
  <2>3. \A i \in whole : OnDisk(i)'
    <3> SUFFICES ASSUME NEW i \in whole PROVE OnDisk(i)'
      OBVIOUS
    <3>1. PICK s \in Nat : LineAt(file, s, i)
      BY DEF DurableInv, OnDisk
    <3> QED
      BY <1>1, <2>2, <3>1
  <2>4. PICK p \in Indices : p = pending.index
    BY <1>1
  <2>5. pending.whole => OnDisk(p)'
    <3>1. pending.whole => \E s \in Nat : LineAt(file, s, p)
      BY <2>1, <2>4 DEF DurableInv
    <3> QED
      BY <2>2, <3>1
  <2>6. whole' \subseteq revoked'
    BY <2>1 DEF DurableInv
  <2>7. \A i \in whole' : OnDisk(i)'
    <3>1. \A i \in whole' : i \in whole \/ (i = p /\ pending.whole)
      BY <2>1, <2>4
    <3> QED
      BY <2>3, <2>5, <3>1
  <2> QED
    BY <2>1, <2>6, <2>7, IdleType DEF DurableInv
<1>6. CASE SyncFails
  BY <1>6, IdleType DEF SyncFails, DurableInv, OnDisk
<1>7. CASE ProcessRestart
  <2>1. revoked' = Load(file) /\ pending' = Idle /\ UNCHANGED <<file, synced, whole>>
    BY <1>7 DEF ProcessRestart
  <2>2. ASSUME NEW i \in whole PROVE i \in Load(file)
    <3>1. PICK s \in Nat : LineAt(file, s, i)
      BY DEF DurableInv, OnDisk
    <3> QED
      BY <1>1, <3>1, LineIsLoaded
  <2> QED
    BY <2>1, <2>2, IdleType DEF DurableInv, OnDisk
<1>8. ASSUME NEW n \in 0 .. MaxBytes, PowerLoss(n) PROVE DurableInv'
  <2>1. /\ n \in synced .. Len(file) /\ file' = SubSeq(file, 1, n) /\ synced' = n
        /\ revoked' = Load(file') /\ pending' = Idle /\ whole' = whole
    BY <1>8 DEF PowerLoss
  <2>2. n \in 0 .. Len(file) /\ synced <= n /\ n \in Nat
    BY <1>1, <2>1
  <2>3. file' \in Seq(Bytes) /\ Len(file') = n /\ \A k \in 1 .. n : file'[k] = file[k]
    BY <1>1, <2>1, <2>2, Prefix
  <2>4. ASSUME NEW i \in whole PROVE i \in Load(file') /\ OnDisk(i)'
    <3>1. PICK s \in Nat : LineAt(file, s, i) /\ s + Len(Decimal[i]) <= synced
      BY DEF DurableInv, OnDisk
    <3>2. Len(Decimal[i]) \in Nat /\ i \in Indices
      BY <1>1, LineBytes
    <3>3. /\ s + Len(Decimal[i]) <= n
          /\ \A k \in 1 .. s + Len(Decimal[i]) : k \in 1 .. n
      BY <1>1, <2>2, <3>1, <3>2
    <3>4. LineAt(file', s, i)
      BY <1>1, <2>3, <3>1, <3>2, <3>3, LineStays
    <3>5. i \in Load(file')
      BY <2>3, <3>2, <3>4, LineIsLoaded
    <3> QED
      BY <2>1, <3>3, <3>4, <3>5 DEF OnDisk
  <2> QED
    BY <2>1, <2>4, IdleType DEF DurableInv
<1>9. CASE UNCHANGED vars
  BY <1>9 DEF vars, DurableInv, OnDisk
<1> QED
  BY <1>3, <1>4, <1>5, <1>6, <1>7, <1>8, <1>9 DEF Next

\* An acknowledged revocation whose line began a line is in memory and readable
\* from the synced bytes alone, whatever fails, crashes or loses power later.
THEOREM WholeLinesSurvive == Spec => []WholeLinesAreDurable
<1>1. Init => DurableInv
  BY IdleType DEF Init, DurableInv
<1>2. TypeOK /\ DurableInv => WholeLinesAreDurable
  <2> SUFFICES ASSUME TypeOK, DurableInv, NEW i \in whole
               PROVE  i \in revoked /\ i \in Load(SubSeq(file, 1, synced))
    BY DEF WholeLinesAreDurable
  <2>1. /\ file \in Seq(Bytes) /\ synced \in 0 .. Len(file) /\ i \in Indices
        /\ synced \in Nat /\ Len(file) \in Nat
    BY DEF TypeOK
  <2> DEFINE disk == SubSeq(file, 1, synced)
  <2>2. disk \in Seq(Bytes) /\ Len(disk) = synced /\ \A k \in 1 .. synced : disk[k] = file[k]
    BY <2>1, Prefix
  <2>3. PICK s \in Nat : LineAt(file, s, i) /\ s + Len(Decimal[i]) <= synced
    BY DEF DurableInv, OnDisk
  <2>4. \A k \in 1 .. s + Len(Decimal[i]) : k \in 1 .. synced
    <3>1. Len(Decimal[i]) \in Nat
      BY <2>1, LineBytes
    <3> QED
      BY <2>1, <2>3, <3>1
  <2> HIDE DEF disk
  <2>5. LineAt(disk, s, i)
    BY <2>1, <2>2, <2>3, <2>4, LineStays
  <2>6. i \in Load(disk)
    BY <2>1, <2>2, <2>5, LineIsLoaded
  <2> QED
    BY <2>6 DEF DurableInv, disk
<1> QED
  BY <1>1, <1>2, DurableKept, TypeCorrect, PTL DEF Spec

-----------------------------------------------------------------------------
(* What is read back *)

\* As long as no line was cut short, the file ends with a line and reads as
\* indices that were asked for; so is what waits for its fsync.
AskedInv ==
  /\ pending.waiting => pending.index \in asked
  /\ ~torn => AtLineStart /\ Load(file) \subseteq asked /\ revoked \subseteq asked

LEMMA AskedKept == TypeOK /\ AskedInv /\ [Next]_vars => AskedInv'
<1> SUFFICES ASSUME TypeOK, AskedInv, [Next]_vars PROVE AskedInv'
  OBVIOUS
<1>1. /\ file \in Seq(Bytes) /\ Len(file) \in Nat /\ MaxBytes \in Nat
      /\ synced \in Nat /\ synced <= Len(file)
  BY RevocationFileConstants DEF TypeOK
<1>2. ASSUME NEW i \in Indices, WriteLine(i) PROVE AskedInv'
  <2>1. /\ file' = file \o Line(i)
        /\ pending' = [waiting |-> TRUE, index |-> i, whole |-> AtLineStart]
        /\ asked' = asked \cup {i} /\ UNCHANGED <<synced, revoked, acked, whole, torn>>
    BY <1>2 DEF WriteLine
  <2>2. pending'.index = i
    BY <2>1
  <2>3. AtLineStart'
    <3>1. /\ Line(i) \in Seq(Bytes) /\ Len(Line(i)) \in Nat \ {0}
          /\ Line(i)[Len(Line(i))] = NewLine
      BY LineBytes
    <3>2. /\ Len(file') = Len(file) + Len(Line(i))
          /\ \A k \in 1 .. Len(Line(i)) : file'[Len(file) + k] = Line(i)[k]
      BY <1>1, <2>1, <3>1, Appended
    <3>3. Len(Line(i)) \in 1 .. Len(Line(i))
      BY <3>1
    <3>4. file'[Len(file')] = NewLine
      BY <3>1, <3>2, <3>3
    <3> QED
      BY <3>4 DEF AtLineStart, Last
  <2>4. ~torn => Load(file') \subseteq asked'
    <3>1. AtLineStart => Load(file') \subseteq Load(file) \cup {i}
      BY <1>1, <2>1, AppendedLoad DEF AtLineStart
    <3> QED
      BY <2>1, <3>1 DEF AskedInv
  <2> QED
    BY <2>1, <2>2, <2>3, <2>4 DEF AskedInv
<1>3. ASSUME NEW i \in Indices, NEW n \in 0 .. MaxBytes, WriteFails(i, n) PROVE AskedInv'
  <2>1. /\ file' = file \o SubSeq(Line(i), 1, n) /\ torn' = (torn \/ n > 0)
        /\ asked' = asked \cup {i} /\ UNCHANGED <<revoked, pending>>
    BY <1>3 DEF WriteFails
  <2>2. CASE n = 0
    <3>1. SubSeq(Line(i), 1, n) = << >>
      BY <2>2, SubSeqEmpty
    <3>2. file' = file
      BY <1>1, <2>1, <3>1, ConcatEmptySeq
    <3> QED
      BY <2>1, <2>2, <3>2 DEF AskedInv, AtLineStart
  <2>3. CASE n # 0
    <3>1. torn'
      <4>1. n > 0
        BY <1>1, <2>3
      <4> QED
        BY <2>1, <4>1
    <3> QED
      BY <2>1, <3>1 DEF AskedInv
  <2> QED
    BY <2>2, <2>3
<1>4. CASE SyncAndPublish
  BY <1>4, IdleType DEF SyncAndPublish, AskedInv, AtLineStart
<1>5. CASE SyncFails
  BY <1>5, IdleType DEF SyncFails, AskedInv, AtLineStart
<1>6. CASE ProcessRestart
  BY <1>6, IdleType DEF ProcessRestart, AskedInv, AtLineStart
<1>7. ASSUME NEW n \in 0 .. MaxBytes, PowerLoss(n) PROVE AskedInv'
  <2>1. /\ n \in synced .. Len(file) /\ file' = SubSeq(file, 1, n)
        /\ revoked' = Load(file') /\ pending' = Idle
        /\ torn' = (torn \/ (n > 0 /\ file[n] # NewLine)) /\ asked' = asked
    BY <1>7 DEF PowerLoss
  <2>2. n \in 0 .. Len(file) /\ n \in Nat
    BY <1>1, <2>1
  <2>3. file' \in Seq(Bytes) /\ Len(file') = n /\ \A k \in 1 .. n : file'[k] = file[k]
    BY <1>1, <2>1, <2>2, Prefix
  <2>4. CASE ~torn'
    <3>1. ~torn /\ (n > 0 => file[n] = NewLine)
      BY <2>1, <2>4
    <3>2. Load(file') \subseteq Load(file)
      BY <1>1, <2>1, <2>2, <3>1, PrefixLoad
    <3>3. AtLineStart'
      <4>1. CASE n = 0
        BY <2>3, <4>1, EmptySeq DEF AtLineStart
      <4>2. CASE n > 0
        <5>1. n \in 1 .. n
          BY <2>2, <4>2
        <5>2. file'[Len(file')] = NewLine
          BY <2>3, <3>1, <4>2, <5>1
        <5> QED
          BY <5>2 DEF AtLineStart, Last
      <4> QED
        BY <2>2, <4>1, <4>2
    <3> QED
      BY <2>1, <3>1, <3>2, <3>3, IdleType DEF AskedInv
  <2>5. CASE torn'
    BY <2>1, <2>5, IdleType DEF AskedInv
  <2> QED
    BY <2>4, <2>5
<1>8. CASE UNCHANGED vars
  BY <1>8 DEF vars, AskedInv, AtLineStart
<1> QED
  BY <1>2, <1>3, <1>4, <1>5, <1>6, <1>7, <1>8 DEF Next

\* Failing fsyncs, crashes and power losses between lines never make the log
\* read as an index that nobody asked to revoke.
THEOREM OnlyWhatWasAsked == Spec => []NothingInvented
<1>1. Init => AskedInv
  <2>1. LineSpans(<< >>) = {}
    BY EmptySeq DEF LineSpans
  <2>2. Load(<< >>) = {}
    BY <2>1 DEF Load
  <2> QED
    BY <2>2, IdleType DEF Init, AskedInv, AtLineStart
<1>2. AskedInv => NothingInvented
  BY DEF AskedInv, NothingInvented
<1> QED
  BY <1>1, <1>2, AskedKept, TypeCorrect, PTL DEF Spec
=============================================================================
