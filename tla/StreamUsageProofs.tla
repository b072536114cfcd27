-------------------------- MODULE StreamUsageProofs --------------------------
(***************************************************************************)
(* Theorems about SseEvents and StreamUsage, for streams of any length and *)
(* any bytes, chunks of any sizes and any control headers.                 *)
(***************************************************************************)
EXTENDS StreamUsage, SumTheorems, SequenceTheorems, TLAPS

-----------------------------------------------------------------------------
(* Where separators are.                                                   *)

LEMMA BytesDiffer == CR # LF
BY DEF CR, LF

(* The separators, byte by byte: one of length n after the first p bytes.  *)
SeparatorAt(bytes, p, n) ==
  \/ /\ n = 4 /\ bytes[p + 1] = CR /\ bytes[p + 2] = LF
     /\ bytes[p + 3] = CR /\ bytes[p + 4] = LF
  \/ n = 3 /\ bytes[p + 1] = CR /\ bytes[p + 2] = LF /\ bytes[p + 3] = LF
  \/ n = 3 /\ bytes[p + 1] = LF /\ bytes[p + 2] = CR /\ bytes[p + 3] = LF
  \/ n = 2 /\ bytes[p + 1] = LF /\ bytes[p + 2] = LF
  \/ n = 2 /\ bytes[p + 1] = CR /\ bytes[p + 2] = CR

LEMMA SeparatorsFound ==
  ASSUME NEW bytes, Len(bytes) \in Nat, NEW p, NEW n
  PROVE  <<p, n>> \in SeparatorsIn(bytes) <=>
           p \in Nat /\ n \in Nat /\ p + n <= Len(bytes) /\ SeparatorAt(bytes, p, n)
<1> DEFINE matches(sep) ==
             Len(sep) = n /\ \A i \in 1..Len(sep) : bytes[p + i] = sep[i]
<1>1. matches(<<CR, LF, CR, LF>>) <=>
        /\ n = 4 /\ bytes[p + 1] = CR /\ bytes[p + 2] = LF
        /\ bytes[p + 3] = CR /\ bytes[p + 4] = LF
  OBVIOUS
<1>2. matches(<<CR, LF, LF>>) <=>
        n = 3 /\ bytes[p + 1] = CR /\ bytes[p + 2] = LF /\ bytes[p + 3] = LF
  OBVIOUS
<1>3. matches(<<LF, CR, LF>>) <=>
        n = 3 /\ bytes[p + 1] = LF /\ bytes[p + 2] = CR /\ bytes[p + 3] = LF
  OBVIOUS
<1>4. matches(<<LF, LF>>) <=> n = 2 /\ bytes[p + 1] = LF /\ bytes[p + 2] = LF
  OBVIOUS
<1>5. matches(<<CR, CR>>) <=> n = 2 /\ bytes[p + 1] = CR /\ bytes[p + 2] = CR
  OBVIOUS
<1> HIDE DEF matches
<1>6. (\E sep \in EventSeparators : matches(sep)) <=> SeparatorAt(bytes, p, n)
  BY <1>1, <1>2, <1>3, <1>4, <1>5 DEF EventSeparators, SeparatorAt
<1>7. <<p, n>> \in SeparatorsIn(bytes) <=>
        /\ p \in 0..Len(bytes) /\ n \in {Len(sep) : sep \in EventSeparators}
        /\ p + n <= Len(bytes)
        /\ \E sep \in EventSeparators : matches(sep)
  BY DEF SeparatorsIn, matches
<1>8. (\E sep \in EventSeparators : matches(sep)) =>
        n \in {Len(sep) : sep \in EventSeparators}
  BY DEF matches
<1>9. SeparatorAt(bytes, p, n) => n \in 2..4
  BY DEF SeparatorAt
<1>10. ASSUME p \in Nat, n \in 2..4, p + n <= Len(bytes) PROVE p \in 0..Len(bytes)
  BY <1>10
<1>11. QED
  BY <1>6, <1>7, <1>8, <1>9, <1>10

(* One starts at a place at most, and one that starts before another does  *)
(* not end after it: the earliest to start is the earliest to end.         *)
LEMMA SeparatorsNest ==
  ASSUME NEW bytes, NEW p \in Nat, NEW q \in Nat, NEW n \in Nat, NEW m \in Nat,
         SeparatorAt(bytes, p, n), SeparatorAt(bytes, q, m)
  PROVE  /\ n \in 2..4
         /\ p = q => n = m
         /\ p <= q => p + n <= q + m
<1>1. n \in 2..4 /\ m \in 2..4
  BY DEF SeparatorAt
<1>2. p = q => n = m
  BY BytesDiffer DEF SeparatorAt
<1>3. ASSUME p < q, q + m < p + n PROVE FALSE
  <2>1. n = 4 /\ q = p + 1 /\ m = 2
    BY <1>1, <1>3
  <2>2. bytes[p + 2] = LF /\ bytes[p + 3] = CR
    BY <2>1 DEF SeparatorAt
  <2>3. q + 1 = p + 2 /\ q + 2 = p + 3
    BY <2>1
  <2>4. QED
    BY <2>1, <2>2, <2>3, BytesDiffer DEF SeparatorAt
<1>4. QED
  BY <1>1, <1>2, <1>3

(* What bytes have in common have their separators in common.              *)
LEMMA SeparatorsShared ==
  ASSUME NEW a, NEW b, NEW k \in Nat, \A i \in 1..k : a[i] = b[i],
         NEW p \in Nat, NEW n \in Nat, p + n <= k
  PROVE  SeparatorAt(a, p, n) <=> SeparatorAt(b, p, n)
<1>1. \A i \in 1..n : p + i \in 1..k
  OBVIOUS
<1>2. \A i \in 1..n : a[p + i] = b[p + i]
  BY <1>1
<1>3. CASE n = 4
  <2>1. /\ a[p + 1] = b[p + 1] /\ a[p + 2] = b[p + 2]
        /\ a[p + 3] = b[p + 3] /\ a[p + 4] = b[p + 4]
    BY <1>2, <1>3
  <2>2. QED
    BY <1>3, <2>1 DEF SeparatorAt
<1>4. CASE n = 3
  <2>1. a[p + 1] = b[p + 1] /\ a[p + 2] = b[p + 2] /\ a[p + 3] = b[p + 3]
    BY <1>2, <1>4
  <2>2. QED
    BY <1>4, <2>1 DEF SeparatorAt
<1>5. CASE n = 2
  <2>1. a[p + 1] = b[p + 1] /\ a[p + 2] = b[p + 2]
    BY <1>2, <1>5
  <2>2. QED
    BY <1>5, <2>1 DEF SeparatorAt
<1>6. n \notin {2, 3, 4} => ~SeparatorAt(a, p, n) /\ ~SeparatorAt(b, p, n)
  BY DEF SeparatorAt
<1>7. QED
  BY <1>3, <1>4, <1>5, <1>6

-----------------------------------------------------------------------------
(* Parse.                                                                  *)

(* What Parse passes through, up to k bytes.                               *)
IsRun(parsed, bytes, g, k) ==
  g = [n \in 0..k |-> IF n = 0 THEN parsed ELSE ReadByte(g[n - 1], bytes[n])]

LEMMA RunSteps ==
  ASSUME NEW parsed, NEW bytes, NEW g, NEW k \in Nat, IsRun(parsed, bytes, g, k)
  PROVE  /\ g[0] = parsed
         /\ \A n \in 0..k : n + 1 \in 0..k =>
              g[n + 1] = ReadByte(g[n], bytes[n + 1])
<1>1. \A n \in 0..k : g[n] = IF n = 0 THEN parsed ELSE ReadByte(g[n - 1], bytes[n])
  BY DEF IsRun
<1>2. \A n \in 0..k : (n + 1) - 1 = n /\ n + 1 # 0
  OBVIOUS
<1>3. QED
  BY <1>1, <1>2

LEMMA RunExists ==
  ASSUME NEW parsed, NEW bytes, NEW k \in Nat
  PROVE  \E g : IsRun(parsed, bytes, g, k)
<1> DEFINE A == {n \in Nat : \E g : IsRun(parsed, bytes, g, n)}
<1>1. 0 \in A
  <2>1. IsRun(parsed, bytes, [n \in 0..0 |-> parsed], 0)
    BY DEF IsRun
  <2>2. QED
    BY <2>1
<1>2. ASSUME NEW n \in A PROVE n + 1 \in A
  <2>1. PICK g : IsRun(parsed, bytes, g, n)
    OBVIOUS
  <2>2. PICK h : h = [i \in 0..(n + 1) |->
                        IF i = 0 THEN parsed ELSE ReadByte(g[i - 1], bytes[i])]
    OBVIOUS
  <2>3. \A i \in 0..n : h[i] = g[i]
    <3>1. \A i \in 0..n : i \in 0..(n + 1)
      OBVIOUS
    <3>2. \A i \in 0..n :
            g[i] = IF i = 0 THEN parsed ELSE ReadByte(g[i - 1], bytes[i])
      BY <2>1 DEF IsRun
    <3>3. QED
      BY <2>2, <3>1, <3>2
  <2>4. \A i \in 0..(n + 1) : i # 0 => i - 1 \in 0..n
    OBVIOUS
  <2>5. IsRun(parsed, bytes, h, n + 1)
    BY <2>2, <2>3, <2>4 DEF IsRun
  <2>6. QED
    BY <2>5
<1>3. A = Nat
  <2> HIDE DEF A
  <2> QED BY <1>1, <1>2, NaturalsFromZero DEF A
<1>4. QED
  BY <1>3

LEMMA RunsAgree ==
  ASSUME NEW parsed, NEW a, NEW b, NEW g, NEW h, NEW k \in Nat, NEW m \in Nat, k <= m,
         IsRun(parsed, a, g, k), IsRun(parsed, b, h, m), \A i \in 1..k : a[i] = b[i]
  PROVE  \A n \in 0..k : g[n] = h[n]
<1> DEFINE A == {n \in Nat : n <= k => g[n] = h[n]}
<1>1. 0 \in A
  BY RunSteps
<1>2. ASSUME NEW n \in A PROVE n + 1 \in A
  <2> SUFFICES ASSUME n + 1 <= k PROVE g[n + 1] = h[n + 1]
    OBVIOUS
  <2>1. n \in 0..k /\ n + 1 \in 0..k /\ n \in 0..m /\ n + 1 \in 0..m /\ n + 1 \in 1..k
    OBVIOUS
  <2>2. g[n] = h[n]
    BY <2>1
  <2>3. g[n + 1] = ReadByte(g[n], a[n + 1])
    BY <2>1, RunSteps
  <2>4. h[n + 1] = ReadByte(h[n], b[n + 1])
    BY <2>1, RunSteps
  <2>5. QED
    BY <2>1, <2>2, <2>3, <2>4
<1>3. A = Nat
  <2> HIDE DEF A
  <2> QED BY <1>1, <1>2, NaturalsFromZero DEF A
<1>4. QED
  BY <1>3

LEMMA ParseRuns ==
  ASSUME NEW parsed, NEW bytes, Len(bytes) \in Nat
  PROVE  \E g : IsRun(parsed, bytes, g, Len(bytes)) /\ Parse(parsed, bytes) = g[Len(bytes)]
<1> DEFINE after == CHOOSE g : IsRun(parsed, bytes, g, Len(bytes))
<1>1. IsRun(parsed, bytes, after, Len(bytes))
  BY RunExists
<1>2. Parse(parsed, bytes) = after[Len(bytes)]
  BY DEF Parse, IsRun
<1>3. QED
  BY <1>1, <1>2

(* Byte by byte, and sequence by sequence.                                 *)
LEMMA ParseNone ==
  ASSUME NEW parsed PROVE Parse(parsed, <<>>) = parsed
<1>1. Len(<<>>) \in Nat /\ Len(<<>>) = 0
  OBVIOUS
<1>2. PICK g : IsRun(parsed, <<>>, g, 0) /\ Parse(parsed, <<>>) = g[0]
  BY <1>1, ParseRuns
<1>3. QED
  BY <1>2, RunSteps, 0 \in Nat

LEMMA ParseAppend ==
  ASSUME NEW T, NEW bytes \in Seq(T), NEW byte \in T, NEW parsed
  PROVE  Parse(parsed, Append(bytes, byte)) = ReadByte(Parse(parsed, bytes), byte)
<1> DEFINE n == Len(bytes)
           longer == Append(bytes, byte)
<1>1. /\ n \in Nat /\ Len(longer) = n + 1 /\ longer[n + 1] = byte
      /\ \A i \in 1..n : bytes[i] = longer[i]
  OBVIOUS
<1>2. PICK g : IsRun(parsed, bytes, g, n) /\ Parse(parsed, bytes) = g[n]
  BY <1>1, ParseRuns
<1> HIDE DEF n, longer
<1>3. PICK h : IsRun(parsed, longer, h, n + 1) /\ Parse(parsed, longer) = h[n + 1]
  BY <1>1, ParseRuns
<1>4. n \in 0..n /\ n \in 0..(n + 1) /\ n + 1 \in 0..(n + 1) /\ n + 1 \in Nat /\ n <= n + 1
  BY <1>1
<1>5. g[n] = h[n]
  BY <1>1, <1>2, <1>3, <1>4, RunsAgree
<1>6. h[n + 1] = ReadByte(h[n], byte)
  BY <1>1, <1>3, <1>4, RunSteps
<1>7. QED
  BY <1>2, <1>3, <1>5, <1>6 DEF longer

LEMMA ParseJoin ==
  ASSUME NEW T, NEW a \in Seq(T), NEW b \in Seq(T), NEW parsed
  PROVE  Parse(parsed, a \o b) = Parse(Parse(parsed, a), b)
<1> DEFINE A == {n \in Nat : \A c \in Seq(T) : Len(c) = n =>
                   Parse(parsed, a \o c) = Parse(Parse(parsed, a), c)}
<1>1. 0 \in A
  <2>1. ASSUME NEW c \in Seq(T), Len(c) = 0 PROVE c = <<>> /\ a \o c = a
    BY <2>1
  <2>2. QED
    BY <2>1, ParseNone
<1>2. ASSUME NEW n \in A PROVE n + 1 \in A
  <2> SUFFICES ASSUME NEW c \in Seq(T), Len(c) = n + 1
               PROVE  Parse(parsed, a \o c) = Parse(Parse(parsed, a), c)
    OBVIOUS
  <2>1. PICK d \in Seq(T), x \in T : c = Append(d, x) /\ Len(d) = n
    <3>1. c # <<>> /\ n \in Nat
      OBVIOUS
    <3> DEFINE d == SubSeq(c, 1, n)
               x == c[n + 1]
    <3>2. d \in Seq(T) /\ x \in T /\ Len(d) = n
      BY <3>1
    <3>3. c = Append(d, x)
      BY <3>1, <3>2
    <3>4. QED
      BY <3>2, <3>3
  <2>2. a \o d \in Seq(T) /\ a \o c = Append(a \o d, x)
    BY <2>1
  <2>3. Parse(parsed, a \o d) = Parse(Parse(parsed, a), d)
    BY <2>1
  <2>4. Parse(parsed, a \o c) = ReadByte(Parse(parsed, a \o d), x)
    BY <2>2, ParseAppend
  <2>5. Parse(Parse(parsed, a), c) = ReadByte(Parse(Parse(parsed, a), d), x)
    BY <2>1, ParseAppend
  <2>6. QED
    BY <2>3, <2>4, <2>5
<1>3. A = Nat
  <2> HIDE DEF A
  <2> QED BY <1>1, <1>2, NaturalsFromZero DEF A
<1>4. QED
  BY <1>3

-----------------------------------------------------------------------------
(* The reader that gets one byte at a time.                                *)

LEMMA PrefixGrows ==
  ASSUME NEW T, NEW bytes \in Seq(T), NEW k \in Nat, k + 1 <= Len(bytes)
  PROVE  /\ SubSeq(bytes, 1, k) \in Seq(T) /\ SubSeq(bytes, 1, k + 1) \in Seq(T)
         /\ bytes[k + 1] \in T
         /\ SubSeq(bytes, 1, k + 1) = Append(SubSeq(bytes, 1, k), bytes[k + 1])
         /\ Len(SubSeq(bytes, 1, k + 1)) = k + 1
         /\ \A i \in 1..(k + 1) : SubSeq(bytes, 1, k + 1)[i] = bytes[i]
OBVIOUS

LEMMA CutJoins ==
  ASSUME NEW T, NEW bytes \in Seq(T), NEW m \in 0..Len(bytes)
  PROVE  /\ SubSeq(bytes, 1, m) \in Seq(T)
         /\ SubSeq(bytes, m + 1, Len(bytes)) \in Seq(T)
         /\ bytes = SubSeq(bytes, 1, m) \o SubSeq(bytes, m + 1, Len(bytes))
<1> DEFINE a == SubSeq(bytes, 1, m)
           b == SubSeq(bytes, m + 1, Len(bytes))
           n == Len(bytes)
<1>1. n \in Nat /\ m \in Nat /\ m <= n
  OBVIOUS
<1>2. a \in Seq(T) /\ Len(a) = m /\ \A i \in 1..m : a[i] = bytes[i]
  BY <1>1
<1>3. b \in Seq(T) /\ Len(b) = n - m /\ \A i \in 1..(n - m) : b[i] = bytes[m + i]
  BY <1>1
<1>4. Len(a \o b) = n /\ a \o b \in Seq(T)
  <2> HIDE DEF a, b
  <2> QED BY <1>1, <1>2, <1>3
<1>5. ASSUME NEW i \in 1..n PROVE (a \o b)[i] = bytes[i]
  <2> HIDE DEF a, b
  <2>1. CASE i <= m
    BY <1>1, <1>2, <1>3, <2>1
  <2>2. CASE i > m
    <3>1. i - m \in 1..(n - m) /\ m + (i - m) = i
      BY <1>1, <2>2
    <3>2. (a \o b)[i] = b[i - m]
      BY <1>1, <1>2, <1>3, <2>2
    <3>3. QED
      BY <1>3, <3>1, <3>2
  <2>3. i <= m \/ i > m
    <3> HIDE DEF n
    <3> QED BY <1>1
  <2>4. QED
    BY <2>1, <2>2, <2>3
<1>6. a \o b = bytes
  <2>1. bytes \in Seq(T) /\ n = Len(bytes)
    OBVIOUS
  <2> HIDE DEF a, b, n
  <2> QED BY <1>4, <1>5, <2>1, SeqEqual
<1>7. QED
  BY <1>2, <1>3, <1>6

LEMMA ParsePrefix ==
  ASSUME NEW T, NEW bytes \in Seq(T), NEW k \in Nat, k + 1 <= Len(bytes), NEW parsed
  PROVE  Parse(parsed, SubSeq(bytes, 1, k + 1)) =
           ReadByte(Parse(parsed, SubSeq(bytes, 1, k)), bytes[k + 1])
<1> DEFINE prefix == SubSeq(bytes, 1, k)
           longer == SubSeq(bytes, 1, k + 1)
           byte == bytes[k + 1]
<1>1. prefix \in Seq(T) /\ byte \in T /\ longer = Append(prefix, byte)
  BY PrefixGrows
<1> HIDE DEF prefix, longer, byte
<1>2. Parse(parsed, longer) = ReadByte(Parse(parsed, prefix), byte)
  BY <1>1, ParseAppend
<1>3. QED
  BY <1>2 DEF prefix, longer, byte

LEMMA EndsInPrefix ==
  ASSUME NEW T, NEW bytes \in Seq(T), NEW k \in Nat, k + 1 <= Len(bytes)
  PROVE  LET before == SubSeq(bytes, 1, k + 1)
             starts == {found[1] : found \in {found \in SeparatorsIn(before) :
                                              found[1] + found[2] = Len(before)}}
         IN  \A p : p \in starts <=>
               p \in Nat /\ \E n \in Nat : p + n = k + 1 /\ SeparatorAt(bytes, p, n)
<1> DEFINE before == SubSeq(bytes, 1, k + 1)
           starts == {found[1] : found \in {found \in SeparatorsIn(before) :
                                            found[1] + found[2] = Len(before)}}
<1>1. Len(before) = k + 1 /\ \A i \in 1..(k + 1) : before[i] = bytes[i]
  BY PrefixGrows
<1> HIDE DEF before
<1>2. \A p, n : <<p, n>> \in SeparatorsIn(before) <=>
        p \in Nat /\ n \in Nat /\ p + n <= k + 1 /\ SeparatorAt(before, p, n)
  BY <1>1, SeparatorsFound, k + 1 \in Nat
<1>3. \A p, n \in Nat : p + n = k + 1 =>
        (SeparatorAt(before, p, n) <=> SeparatorAt(bytes, p, n))
  <2> SUFFICES ASSUME NEW p \in Nat, NEW n \in Nat, p + n = k + 1
               PROVE  SeparatorAt(before, p, n) <=> SeparatorAt(bytes, p, n)
    OBVIOUS
  <2>1. k + 1 \in Nat /\ p + n <= k + 1
    OBVIOUS
  <2>2. QED
    BY <1>1, <2>1, SeparatorsShared
<1>4. \A found \in SeparatorsIn(before) : found = <<found[1], found[2]>>
  BY DEF SeparatorsIn
<1>5. ASSUME NEW p
      PROVE  p \in starts <=> \E n : <<p, n>> \in SeparatorsIn(before) /\ p + n = k + 1
  <2>1. ASSUME p \in starts
        PROVE  \E n : <<p, n>> \in SeparatorsIn(before) /\ p + n = k + 1
    <3>1. PICK found \in SeparatorsIn(before) :
            found[1] + found[2] = k + 1 /\ p = found[1]
      BY <1>1, <2>1
    <3>2. <<p, found[2]>> \in SeparatorsIn(before) /\ p + found[2] = k + 1
      BY <1>4, <3>1
    <3>3. QED
      BY <3>2
  <2>2. ASSUME NEW n, <<p, n>> \in SeparatorsIn(before), p + n = k + 1
        PROVE  p \in starts
    BY <1>1, <2>2
  <2>3. QED
    BY <2>1, <2>2
<1> HIDE DEF starts
<1>6. ASSUME NEW p, p \in starts
      PROVE  p \in Nat /\ \E n \in Nat : p + n = k + 1 /\ SeparatorAt(bytes, p, n)
  <2>1. PICK n : <<p, n>> \in SeparatorsIn(before) /\ p + n = k + 1
    BY <1>5, <1>6
  <2>2. p \in Nat /\ n \in Nat /\ SeparatorAt(before, p, n)
    BY <1>2, <2>1
  <2>3. SeparatorAt(bytes, p, n)
    BY <1>3, <2>1, <2>2
  <2>4. QED
    BY <2>1, <2>2, <2>3
<1>7. ASSUME NEW p \in Nat, NEW n \in Nat, p + n = k + 1, SeparatorAt(bytes, p, n)
      PROVE  p \in starts
  <2>1. SeparatorAt(before, p, n)
    BY <1>3, <1>7
  <2>2. <<p, n>> \in SeparatorsIn(before)
    BY <1>2, <1>7, <2>1
  <2>3. QED
    BY <1>5, <1>7, <2>2
<1>8. \A p : p \in starts <=>
        p \in Nat /\ \E n \in Nat : p + n = k + 1 /\ SeparatorAt(bytes, p, n)
  BY <1>6, <1>7
<1>9. QED
  BY <1>8 DEF starts, before

LEMMA ReadsOn ==
  ASSUME NEW T, NEW bytes \in Seq(T), NEW k \in Nat, k + 1 <= Len(bytes), NEW taken,
         \A p, n \in Nat : p + n = k + 1 => ~SeparatorAt(bytes, p, n)
  PROVE  ReadByte([events |-> taken, rest |-> SubSeq(bytes, 1, k)], bytes[k + 1]) =
           [events |-> taken, rest |-> SubSeq(bytes, 1, k + 1)]
<1> DEFINE before == SubSeq(bytes, 1, k + 1)
           starts == {found[1] : found \in {found \in SeparatorsIn(before) :
                                            found[1] + found[2] = Len(before)}}
<1>1. before = Append(SubSeq(bytes, 1, k), bytes[k + 1])
  BY PrefixGrows
<1>2. starts = {}
  BY EndsInPrefix
<1>3. QED
  BY <1>1, <1>2 DEF ReadByte

LEMMA EndsEvent ==
  ASSUME NEW T, NEW bytes \in Seq(T), NEW k \in Nat, k + 1 <= Len(bytes), NEW taken,
         NEW p \in Nat, NEW n \in Nat, p + n = k + 1, SeparatorAt(bytes, p, n),
         \A q, m \in Nat : q + m = k + 1 /\ SeparatorAt(bytes, q, m) => p <= q
  PROVE  ReadByte([events |-> taken, rest |-> SubSeq(bytes, 1, k)], bytes[k + 1]) =
           [events |-> Append(taken, SubSeq(bytes, 1, p)), rest |-> <<>>]
<1> DEFINE before == SubSeq(bytes, 1, k + 1)
           starts == {found[1] : found \in {found \in SeparatorsIn(before) :
                                            found[1] + found[2] = Len(before)}}
<1>1. before = Append(SubSeq(bytes, 1, k), bytes[k + 1])
  BY PrefixGrows
<1>2. \A q : q \in starts <=>
        q \in Nat /\ \E m \in Nat : q + m = k + 1 /\ SeparatorAt(bytes, q, m)
  BY EndsInPrefix
<1>3. p \in starts /\ \A q \in starts : p <= q /\ q \in Nat
  BY <1>2
<1>4. Min(starts) = p
  <2> HIDE DEF starts
  <2>1. \A q \in starts : (\A y \in starts : q <= y) => q = p
    BY <1>3
  <2>2. QED
    BY <1>3, <2>1 DEF Min
<1>5. SubSeq(before, 1, p) = SubSeq(bytes, 1, p)
  <2>1. p <= k + 1
    OBVIOUS
  <2>2. QED
    BY <2>1
<1>6. starts # {}
  BY <1>3
<1>7. ReadByte([events |-> taken, rest |-> SubSeq(bytes, 1, k)], bytes[k + 1]) =
        [events |-> Append(taken, SubSeq(before, 1, Min(starts))), rest |-> <<>>]
  BY <1>1, <1>6 DEF ReadByte
<1>8. QED
  BY <1>4, <1>5, <1>7

(* Up to the first separator the reader only collects.                     *)
LEMMA NoEventYet ==
  ASSUME NEW T, NEW bytes \in Seq(T), NEW k \in 0..Len(bytes), NEW taken,
         \A p, n \in Nat : p + n <= k => ~SeparatorAt(bytes, p, n)
  PROVE  Parse([events |-> taken, rest |-> <<>>], SubSeq(bytes, 1, k)) =
           [events |-> taken, rest |-> SubSeq(bytes, 1, k)]
<1> DEFINE start == [events |-> taken, rest |-> <<>>]
           A == {j \in Nat : j <= k => Parse(start, SubSeq(bytes, 1, j)) =
                                         [events |-> taken, rest |-> SubSeq(bytes, 1, j)]}
<1>1. 0 \in A
  <2>1. SubSeq(bytes, 1, 0) = <<>>
    OBVIOUS
  <2>2. QED
    BY <2>1, ParseNone
<1>2. ASSUME NEW j \in A PROVE j + 1 \in A
  <2> SUFFICES ASSUME j + 1 <= k
               PROVE  Parse(start, SubSeq(bytes, 1, j + 1)) =
                        [events |-> taken, rest |-> SubSeq(bytes, 1, j + 1)]
    OBVIOUS
  <2>1. j \in Nat /\ j <= k /\ j + 1 <= Len(bytes)
    OBVIOUS
  <2>2. Parse(start, SubSeq(bytes, 1, j)) =
          [events |-> taken, rest |-> SubSeq(bytes, 1, j)]
    BY <2>1
  <2>3. Parse(start, SubSeq(bytes, 1, j + 1)) =
          ReadByte(Parse(start, SubSeq(bytes, 1, j)), bytes[j + 1])
    BY <2>1, ParsePrefix
  <2>4. \A p, n \in Nat : p + n = j + 1 => ~SeparatorAt(bytes, p, n)
    OBVIOUS
  <2> HIDE DEF start
  <2>5. QED
    BY <2>1, <2>2, <2>3, <2>4, ReadsOn
<1>3. A = Nat
  <2> HIDE DEF A
  <2> QED BY <1>1, <1>2, NaturalsFromZero DEF A
<1>4. k \in Nat /\ k <= k
  <2>1. Len(bytes) \in Nat
    OBVIOUS
  <2>2. QED
    BY <2>1
<1>5. k \in A
  <2> HIDE DEF A
  <2> QED BY <1>3, <1>4
<1>6. QED
  BY <1>4, <1>5

(* The earliest separator.                                                 *)
EarliestAt(bytes, p, n) ==
  /\ p \in Nat /\ n \in Nat /\ p + n <= Len(bytes) /\ SeparatorAt(bytes, p, n)
  /\ \A q, m \in Nat : q + m <= Len(bytes) /\ SeparatorAt(bytes, q, m) => p <= q

(* Taking the event before the earliest separator takes what the reader    *)
(* would have taken.                                                       *)
LEMMA EventTakenAlike ==
  ASSUME NEW T, NEW bytes \in Seq(T), NEW taken, NEW p, NEW n, EarliestAt(bytes, p, n)
  PROVE  Parse([events |-> taken, rest |-> <<>>], bytes) =
           Parse([events |-> Append(taken, SubSeq(bytes, 1, p)), rest |-> <<>>],
                 SubSeq(bytes, p + n + 1, Len(bytes)))
<1> DEFINE start == [events |-> taken, rest |-> <<>>]
           k == p + n - 1
           next == [events |-> Append(taken, SubSeq(bytes, 1, p)), rest |-> <<>>]
           tail == SubSeq(bytes, p + n + 1, Len(bytes))
<1>0. /\ p \in Nat /\ n \in Nat /\ p + n <= Len(bytes) /\ SeparatorAt(bytes, p, n)
      /\ \A q, m \in Nat :
           q + m <= Len(bytes) /\ SeparatorAt(bytes, q, m) => p <= q
  BY DEF EarliestAt
<1>1. n \in 2..4
  BY <1>0, SeparatorsNest
<1>2. /\ k \in Nat /\ k + 1 = p + n /\ k + 1 <= Len(bytes) /\ k \in 0..Len(bytes)
      /\ Len(bytes) \in Nat
  BY <1>0, <1>1
<1>3. \A q, m \in Nat : q + m <= Len(bytes) /\ SeparatorAt(bytes, q, m) =>
        p <= q /\ p + n <= q + m
  BY <1>0, SeparatorsNest
<1>4. \A q, m \in Nat : q + m <= k => ~SeparatorAt(bytes, q, m)
  BY <1>0, <1>2, <1>3
<1>5. \A q, m \in Nat : q + m = k + 1 /\ SeparatorAt(bytes, q, m) => p <= q
  BY <1>0, <1>2, <1>3
<1> HIDE DEF k
<1>6. Parse(start, SubSeq(bytes, 1, k)) = [events |-> taken, rest |-> SubSeq(bytes, 1, k)]
  BY <1>2, <1>4, NoEventYet
<1>7. Parse(start, SubSeq(bytes, 1, k + 1)) =
        ReadByte(Parse(start, SubSeq(bytes, 1, k)), bytes[k + 1])
  BY <1>2, ParsePrefix
<1>8. Parse(start, SubSeq(bytes, 1, k + 1)) = next
  <2>1. ReadByte([events |-> taken, rest |-> SubSeq(bytes, 1, k)], bytes[k + 1]) =
          [events |-> Append(taken, SubSeq(bytes, 1, p)), rest |-> <<>>]
    <3>1. k \in Nat /\ k + 1 <= Len(bytes) /\ p + n = k + 1
      BY <1>0, <1>2
    <3>2. QED
      BY <1>0, <1>5, <3>1, EndsEvent
  <2>2. Parse(start, SubSeq(bytes, 1, k + 1)) =
          ReadByte([events |-> taken, rest |-> SubSeq(bytes, 1, k)], bytes[k + 1])
    BY <1>6, <1>7
  <2>3. QED
    BY <2>1, <2>2
<1>9. /\ SubSeq(bytes, 1, k + 1) \in Seq(T) /\ tail \in Seq(T)
      /\ bytes = SubSeq(bytes, 1, k + 1) \o tail
  <2>1. tail = SubSeq(bytes, (k + 1) + 1, Len(bytes))
    BY <1>0, <1>2
  <2>2. k + 1 \in 0..Len(bytes)
    BY <1>2
  <2>3. QED
    BY <2>1, <2>2, CutJoins
<1> DEFINE head == SubSeq(bytes, 1, k + 1)
<1> HIDE DEF start, next, tail
<1>10. Parse(start, bytes) = Parse(Parse(start, SubSeq(bytes, 1, k + 1)), tail)
  <2>1. head \in Seq(T) /\ tail \in Seq(T) /\ bytes = head \o tail
    BY <1>9
  <2> HIDE DEF head
  <2>2. Parse(start, head \o tail) = Parse(Parse(start, head), tail)
    BY ONLY <2>1, ParseJoin
  <2>3. QED
    BY <2>1, <2>2 DEF head
<1>11. QED
  BY <1>8, <1>10 DEF start, next, tail

-----------------------------------------------------------------------------
(* The events of the mock.                                                 *)

LEMMA JoinCounted ==
  ASSUME NEW S, NEW a \in Seq(S), NEW b \in Seq(S)
  PROVE  /\ a \o b \in Seq(S) /\ Len(a \o b) = Len(a) + Len(b)
         /\ Len(a) \in Nat /\ Len(b) \in Nat
OBVIOUS

LEMMA JoinElements ==
  ASSUME NEW S, NEW a \in Seq(S), NEW b \in Seq(S)
  PROVE  /\ \A i \in 1..Len(a) : (a \o b)[i] = a[i]
         /\ \A i \in 1..Len(b) : (a \o b)[Len(a) + i] = b[i]
<1>1. \A i \in 1..Len(b) : Len(a) + i \in 1..(Len(a) + Len(b)) /\ ~(Len(a) + i <= Len(a))
                         /\ (Len(a) + i) - Len(a) = i
  OBVIOUS
<1>2. \A i \in 1..Len(a) : i \in 1..(Len(a) + Len(b)) /\ i <= Len(a)
  OBVIOUS
<1>3. \A i \in 1..(Len(a) + Len(b)) :
        (a \o b)[i] = IF i <= Len(a) THEN a[i] ELSE b[i - Len(a)]
  BY ConcatProperties
<1>4. QED
  BY <1>1, <1>2, <1>3

(* The pieces of the content that are sent.                                *)
SentChunks(c) == IF c.errorAfter = None THEN c.chunks ELSE c.errorAfter
DeltaAt(r, c, i) == EventOf("delta", Pieces(r, c)[i], NoUsage)

LEMMA SentTyped ==
  ASSUME NEW r \in Routes, NEW c, ControlAccepted(r, c)
  PROVE  /\ c.chunks \in Nat /\ c.chunks >= 1 /\ SentChunks(c) \in Nat
         /\ SentChunks(c) <= c.chunks
         /\ c.errorAfter = None => SentChunks(c) = c.chunks
BY MockAssumption DEF ControlAccepted, SentChunks

(* The content, piece by piece, then the completion or the error.          *)
LEMMA ContentAt ==
  ASSUME NEW r \in Routes, NEW c, ControlAccepted(r, c), NEW E, NEW completion \in Seq(E)
  PROVE  LET content == ContentEvents(r, c, completion)
             n == SentChunks(c)
         IN  /\ \E F : content \in Seq(F)
             /\ \A i \in 1..n : content[i] = DeltaAt(r, c, i)
             /\ c.errorAfter # None =>
                  Len(content) = n + 1 /\ content[n + 1] = Plain("error")
             /\ c.errorAfter = None =>
                  /\ Len(content) = n + Len(completion)
                  /\ \A i \in 1..Len(completion) : content[n + i] = completion[i]
<1> DEFINE n == SentChunks(c)
           content == ContentEvents(r, c, completion)
           deltas == [i \in 1..n |-> DeltaAt(r, c, i)]
           error == <<Plain("error")>>
           last == IF c.errorAfter = None THEN completion ELSE error
           F == E \cup {DeltaAt(r, c, i) : i \in 1..n} \cup {Plain("error")}
<1>1. n \in Nat
  BY SentTyped
<1>2. content = deltas \o last
  BY DEF ContentEvents, SentChunks, DeltaAt
<1>3. deltas \in Seq(F) /\ Len(deltas) = n /\ \A i \in 1..n : deltas[i] = DeltaAt(r, c, i)
  <2> HIDE DEF n
  <2> QED BY <1>1
<1>4. error \in Seq(F) /\ Len(error) = 1 /\ error[1] = Plain("error")
  OBVIOUS
<1>5. completion \in Seq(F)
  <2>1. \A e \in E : e \in F
    OBVIOUS
  <2> HIDE DEF F
  <2>2. QED
    BY <2>1
<1> HIDE DEF F, deltas, error, content, n
<1>6. last \in Seq(F)
  BY <1>4, <1>5
<1> HIDE DEF last
<1>7. content \in Seq(F) /\ Len(content) = n + Len(last)
  BY <1>2, <1>3, <1>6, JoinCounted
<1>8. \A i \in 1..n : content[i] = DeltaAt(r, c, i)
  BY <1>2, <1>3, <1>6, JoinElements
<1>9. \A i \in 1..Len(last) : content[n + i] = last[i]
  BY <1>2, <1>3, <1>6, JoinElements
<1>10. ASSUME c.errorAfter # None
       PROVE  Len(content) = n + 1 /\ content[n + 1] = Plain("error")
  <2>1. last = error
    BY <1>10 DEF last
  <2>2. Len(last) = 1 /\ last[1] = Plain("error") /\ 1 \in 1..1
    BY <1>4, <2>1
  <2>3. content[n + 1] = last[1]
    BY <1>9, <2>2
  <2>4. Len(content) = n + 1
    BY <1>7, <2>2
  <2>5. QED
    BY <2>2, <2>3, <2>4
<1>11. ASSUME c.errorAfter = None
       PROVE  /\ Len(content) = n + Len(completion)
              /\ \A i \in 1..Len(completion) : content[n + i] = completion[i]
  <2>1. last = completion
    BY <1>11 DEF last
  <2>2. QED
    BY <1>7, <1>9, <2>1
<1>12. \E G : content \in Seq(G)
  BY <1>7
<1>13. QED
  BY <1>8, <1>10, <1>11, <1>12 DEF content, n

(* The events of a stream, at their places.                                *)
OpenAiAt(c, A) ==
  LET n == SentChunks(c)
  IN  /\ \E E : A \in Seq(E)
      /\ A[1] = Plain("role")
      /\ \A i \in 1..n : A[1 + i] = DeltaAt("openai", c, i)
      /\ c.errorAfter # None => Len(A) = n + 2 /\ A[n + 2] = Plain("error")
      /\ c.errorAfter = None => A[n + 2] = Plain("finish")
      /\ c.errorAfter = None /\ c.includeUsage =>
           /\ Len(A) = n + 4 /\ A[n + 4] = Plain("[DONE]")
           /\ A[n + 3] = EventOf("usage", <<>>, OpenAiUsage(c))
      /\ c.errorAfter = None /\ ~c.includeUsage =>
           Len(A) = n + 3 /\ A[n + 3] = Plain("[DONE]")

AnthropicAt(c, A) ==
  LET n == SentChunks(c)
  IN  /\ \E E : A \in Seq(E)
      /\ A[1] = EventOf("message_start", <<>>, AnthropicUsage(c, 1))
      /\ A[2] = Plain("content_block_start")
      /\ \A i \in 1..n : A[2 + i] = DeltaAt("anthropic", c, i)
      /\ c.errorAfter # None => Len(A) = n + 3 /\ A[n + 3] = Plain("error")
      /\ c.errorAfter = None =>
           /\ Len(A) = n + 5
           /\ A[n + 3] = Plain("content_block_stop")
           /\ A[n + 4] = EventOf("message_delta", <<>>, [output_tokens |-> OutputTokens])
           /\ A[n + 5] = Plain("message_stop")

LEMMA OpenAiPlaces ==
  ASSUME NEW c, ControlAccepted("openai", c)
  PROVE  OpenAiAt(c, StreamingEvents("openai", c))
<1> DEFINE report == EventOf("usage", <<>>, OpenAiUsage(c))
           done == Plain("[DONE]")
           finish == Plain("finish")
           long == <<finish, report, done>>
           short == <<finish, done>>
           completion == IF c.includeUsage THEN long ELSE short
           content == ContentEvents("openai", c, completion)
           first == <<Plain("role")>>
           A == StreamingEvents("openai", c)
           n == SentChunks(c)
<1>0. "openai" \in Routes
  BY DEF Routes
<1>1. n \in Nat
  BY <1>0, SentTyped
<1>2. /\ long \in Seq({finish, report, done}) /\ Len(long) = 3
      /\ long[1] = finish /\ long[2] = report /\ long[3] = done
      /\ short \in Seq({finish, report, done}) /\ Len(short) = 2
      /\ short[1] = finish /\ short[2] = done
  <2> HIDE DEF finish, report, done
  <2> QED OBVIOUS
<1>3. A = first \o content
  BY DEF StreamingEvents, OpenAiEvents
<1> HIDE DEF A, long, short
<1>4. completion \in Seq({finish, report, done})
  BY <1>2
<1> HIDE DEF completion, n
<1>5. /\ \E F : content \in Seq(F)
      /\ \A i \in 1..n : content[i] = DeltaAt("openai", c, i)
      /\ c.errorAfter # None =>
           Len(content) = n + 1 /\ content[n + 1] = Plain("error")
      /\ c.errorAfter = None =>
           /\ Len(content) = n + Len(completion)
           /\ \A i \in 1..Len(completion) : content[n + i] = completion[i]
  BY <1>0, <1>4, ContentAt DEF n
<1> HIDE DEF content
<1>6. PICK F : content \in Seq(F)
  BY <1>5
<1> DEFINE G == F \cup {Plain("role")}
<1>7. /\ first \in Seq(G) /\ content \in Seq(G) /\ Len(first) = 1
      /\ first[1] = Plain("role")
  BY <1>6
<1> HIDE DEF first, G
<1>8. A \in Seq(G) /\ Len(A) = 1 + Len(content) /\ Len(content) \in Nat
  BY <1>3, <1>7, JoinCounted
<1>a. /\ \A i \in 1..Len(first) : A[i] = first[i]
      /\ \A i \in 1..Len(content) : A[Len(first) + i] = content[i]
  <2>1. first \in Seq(G) /\ content \in Seq(G)
    BY <1>7
  <2>2. /\ \A i \in 1..Len(first) : (first \o content)[i] = first[i]
        /\ \A i \in 1..Len(content) :
             (first \o content)[Len(first) + i] = content[i]
    BY ONLY <2>1, JoinElements
  <2>3. QED
    BY <1>3, <2>2
<1>9. A[1] = Plain("role")
  BY <1>a, <1>7, 1 \in 1..1
<1>10. \A i \in 1..Len(content) : A[1 + i] = content[i]
  BY <1>a, <1>7
<1>11. \A i \in 1..n : A[1 + i] = DeltaAt("openai", c, i)
  <2>1. n <= Len(content)
    <3>1. Len(completion) \in Nat
      BY <1>4
    <3>2. QED
      BY <1>1, <1>5, <1>8, <3>1
  <2>2. \A i \in 1..n : i \in 1..Len(content)
    BY <1>1, <1>8, <2>1
  <2>3. QED
    BY <1>5, <1>10, <2>2
<1>12. ASSUME c.errorAfter # None PROVE Len(A) = n + 2 /\ A[n + 2] = Plain("error")
  <2>1. n + 1 \in 1..Len(content) /\ 1 + (n + 1) = n + 2 /\ Len(A) = n + 2
    BY <1>1, <1>5, <1>8, <1>12
  <2>2. QED
    BY <1>5, <1>10, <1>12, <2>1
<1>13. ASSUME c.errorAfter = None, NEW m \in Nat, Len(completion) = m
       PROVE  /\ Len(A) = (n + m) + 1
              /\ \A i \in 1..m : A[(n + 1) + i] = completion[i]
  <2>1. Len(content) = n + m
    BY <1>5, <1>13
  <2>2. Len(A) = (n + m) + 1
    BY <1>1, <1>8, <2>1
  <2>3. \A i \in 1..m : n + i \in 1..Len(content) /\ 1 + (n + i) = (n + 1) + i
    BY <1>1, <2>1
  <2>4. \A i \in 1..m : content[n + i] = completion[i]
    BY <1>5, <1>13
  <2>5. QED
    BY <1>10, <2>2, <2>3, <2>4
<1>14. ASSUME c.errorAfter = None, c.includeUsage
       PROVE  /\ Len(A) = n + 4 /\ A[n + 2] = finish
              /\ A[n + 3] = report /\ A[n + 4] = done
  <2>1. completion = long
    BY <1>14 DEF completion
  <2>2. Len(A) = (n + 3) + 1 /\ \A i \in 1..3 : A[(n + 1) + i] = long[i]
    BY <1>2, <1>13, <1>14, <2>1
  <2>3. /\ (n + 3) + 1 = n + 4 /\ (n + 1) + 1 = n + 2
        /\ (n + 1) + 2 = n + 3 /\ (n + 1) + 3 = n + 4
    BY <1>1
  <2>4. 1 \in 1..3 /\ 2 \in 1..3 /\ 3 \in 1..3
    OBVIOUS
  <2>5. QED
    BY <1>2, <2>2, <2>3, <2>4
<1>15. ASSUME c.errorAfter = None, ~c.includeUsage
       PROVE  Len(A) = n + 3 /\ A[n + 2] = finish /\ A[n + 3] = done
  <2>1. completion = short
    BY <1>15 DEF completion
  <2>2. Len(A) = (n + 2) + 1 /\ \A i \in 1..2 : A[(n + 1) + i] = short[i]
    BY <1>2, <1>13, <1>15, <2>1
  <2>3. (n + 2) + 1 = n + 3 /\ (n + 1) + 1 = n + 2 /\ (n + 1) + 2 = n + 3
    BY <1>1
  <2>4. 1 \in 1..2 /\ 2 \in 1..2
    OBVIOUS
  <2>5. QED
    BY <1>2, <2>2, <2>3, <2>4
<1>16. QED
  BY <1>8, <1>9, <1>11, <1>12, <1>14, <1>15 DEF OpenAiAt, n, A

LEMMA AnthropicPlaces ==
  ASSUME NEW c, ControlAccepted("anthropic", c)
  PROVE  AnthropicAt(c, StreamingEvents("anthropic", c))
<1> DEFINE start == EventOf("message_start", <<>>, AnthropicUsage(c, 1))
           opened == Plain("content_block_start")
           stop == Plain("content_block_stop")
           delta == EventOf("message_delta", <<>>, [output_tokens |-> OutputTokens])
           done == Plain("message_stop")
           completion == <<stop, delta, done>>
           content == ContentEvents("anthropic", c, completion)
           first == <<start, opened>>
           A == StreamingEvents("anthropic", c)
           n == SentChunks(c)
<1>0. "anthropic" \in Routes
  BY DEF Routes
<1>1. n \in Nat
  BY <1>0, SentTyped
<1>2. A = first \o content
  BY DEF StreamingEvents, AnthropicEvents
<1> HIDE DEF A, n, start, opened, stop, delta, done
<1>3. /\ completion \in Seq({stop, delta, done}) /\ Len(completion) = 3
      /\ completion[1] = stop /\ completion[2] = delta /\ completion[3] = done
  OBVIOUS
<1> HIDE DEF completion
<1>4. /\ \E F : content \in Seq(F)
      /\ \A i \in 1..n : content[i] = DeltaAt("anthropic", c, i)
      /\ c.errorAfter # None =>
           Len(content) = n + 1 /\ content[n + 1] = Plain("error")
      /\ c.errorAfter = None =>
           /\ Len(content) = n + Len(completion)
           /\ \A i \in 1..Len(completion) : content[n + i] = completion[i]
  <2>1. PICK E : completion \in Seq(E)
    BY <1>3
  <2> HIDE DEF first
  <2>2. QED
    BY <1>0, <2>1, ContentAt DEF n
<1> HIDE DEF content
<1>5. PICK F : content \in Seq(F)
  BY <1>4
<1> DEFINE G == F \cup {start, opened}
<1>6. /\ first \in Seq(G) /\ content \in Seq(G) /\ Len(first) = 2
      /\ first[1] = start /\ first[2] = opened
  BY <1>5
<1> HIDE DEF first, G
<1>7. A \in Seq(G) /\ Len(A) = 2 + Len(content) /\ Len(content) \in Nat
  BY <1>2, <1>6, JoinCounted
<1>a. /\ \A i \in 1..Len(first) : A[i] = first[i]
      /\ \A i \in 1..Len(content) : A[Len(first) + i] = content[i]
  <2>1. first \in Seq(G) /\ content \in Seq(G)
    BY <1>6
  <2>2. /\ \A i \in 1..Len(first) : (first \o content)[i] = first[i]
        /\ \A i \in 1..Len(content) :
             (first \o content)[Len(first) + i] = content[i]
    BY ONLY <2>1, JoinElements
  <2>3. QED
    BY <1>2, <2>2
<1>8. A[1] = start /\ A[2] = opened
  BY <1>a, <1>6, 1 \in 1..2, 2 \in 1..2
<1>9. \A i \in 1..Len(content) : A[2 + i] = content[i]
  BY <1>a, <1>6
<1>10. \A i \in 1..n : A[2 + i] = DeltaAt("anthropic", c, i)
  <2>1. n <= Len(content)
    BY <1>1, <1>3, <1>4, <1>7
  <2>2. \A i \in 1..n : i \in 1..Len(content)
    BY <1>1, <1>7, <2>1
  <2>3. QED
    BY <1>4, <1>9, <2>2
<1>11. ASSUME c.errorAfter # None PROVE Len(A) = n + 3 /\ A[n + 3] = Plain("error")
  <2>1. n + 1 \in 1..Len(content) /\ 2 + (n + 1) = n + 3 /\ Len(A) = n + 3
    BY <1>1, <1>4, <1>7, <1>11
  <2>2. QED
    BY <1>4, <1>9, <1>11, <2>1
<1>12. ASSUME c.errorAfter = None
       PROVE  Len(A) = n + 5 /\ A[n + 3] = stop /\ A[n + 4] = delta /\ A[n + 5] = done
  <2>1. Len(content) = n + 3 /\ \A i \in 1..3 : content[n + i] = completion[i]
    BY <1>3, <1>4, <1>12
  <2>2. Len(A) = n + 5
    BY <1>1, <1>7, <2>1
  <2>3. \A i \in 1..3 : n + i \in 1..Len(content) /\ 2 + (n + i) = (n + 2) + i
    BY <1>1, <2>1
  <2>4. \A i \in 1..3 : A[(n + 2) + i] = completion[i]
    BY <1>9, <2>1, <2>3
  <2>5. (n + 2) + 1 = n + 3 /\ (n + 2) + 2 = n + 4 /\ (n + 2) + 3 = n + 5
    BY <1>1
  <2>6. 1 \in 1..3 /\ 2 \in 1..3 /\ 3 \in 1..3
    OBVIOUS
  <2>7. QED
    BY <1>3, <2>2, <2>4, <2>5, <2>6
<1>13. QED
  BY <1>7, <1>8, <1>10, <1>11, <1>12
     DEF AnthropicAt, n, A, start, opened, stop, delta, done

(* However the answer is cut and wherever its error is due, an accepted    *)
(* control header makes a sequence of at most as many events as its        *)
(* duration was validated for.                                             *)
LEMMA StreamCounted ==
  ASSUME NEW r \in Routes, NEW c, ControlAccepted(r, c)
  PROVE  \E E : /\ StreamingEvents(r, c) \in Seq(E)
                /\ Len(StreamingEvents(r, c)) <= c.chunks + StreamEventOverhead[r]
<1>1. /\ c.chunks \in Nat /\ SentChunks(c) \in Nat /\ SentChunks(c) <= c.chunks
  BY SentTyped
<1>2. CASE r = "openai"
  <2>1. OpenAiAt(c, StreamingEvents(r, c))
    BY <1>2, OpenAiPlaces
  <2>2. Len(StreamingEvents(r, c)) <= c.chunks + 4
    BY <1>1, <2>1 DEF OpenAiAt
  <2>3. StreamEventOverhead[r] = 4
    BY <1>2 DEF StreamEventOverhead
  <2>4. \E E : StreamingEvents(r, c) \in Seq(E)
    BY <2>1 DEF OpenAiAt
  <2>5. QED
    BY <2>2, <2>3, <2>4
<1>3. CASE r = "anthropic"
  <2>1. AnthropicAt(c, StreamingEvents(r, c))
    BY <1>3, AnthropicPlaces
  <2>2. Len(StreamingEvents(r, c)) <= c.chunks + 5
    BY <1>1, <2>1 DEF AnthropicAt
  <2>3. StreamEventOverhead[r] = 5
    BY <1>3 DEF StreamEventOverhead
  <2>4. \E E : StreamingEvents(r, c) \in Seq(E)
    BY <2>1 DEF AnthropicAt
  <2>5. QED
    BY <2>2, <2>3, <2>4
<1>4. QED
  BY <1>2, <1>3 DEF Routes

(* An event on the wire, and the lines taken of it.                        *)
LinesOf(r, e) ==
  IF r = "openai" THEN <<DataLine(e)>> ELSE <<[event |-> e.type], LF, DataLine(e)>>
BytesOf(r, e) == IF r = "openai" THEN DataEvent(e) ELSE SseEvent(e)

Wire(r, c) ==
  [i \in DOMAIN StreamingEvents(r, c) |-> BytesOf(r, StreamingEvents(r, c)[i])]

(* What an accepted request puts on the wire: sequences of bytes, as many  *)
(* as there are events.                                                    *)
LEMMA WireTyped ==
  ASSUME NEW r \in Routes, NEW c, ControlAccepted(r, c)
  PROVE  /\ \E T : Wire(r, c) \in Seq(Seq(T))
         /\ Len(StreamingEvents(r, c)) \in Nat
         /\ Len(Wire(r, c)) = Len(StreamingEvents(r, c))
         /\ \A i \in 1..Len(Wire(r, c)) :
              Wire(r, c)[i] = BytesOf(r, StreamingEvents(r, c)[i])
<1> DEFINE taken == StreamingEvents(r, c)
           n == Len(taken)
           piece(i) == BytesOf(r, taken[i])
<1>1. PICK E : taken \in Seq(E)
  BY StreamCounted
<1> DEFINE T == {LF} \cup {DataLine(e) : e \in E} \cup {[event |-> e.type] : e \in E}
<1>2. \A e \in E : DataEvent(e) \in Seq(T) /\ SseEvent(e) \in Seq(T)
  <2> SUFFICES ASSUME NEW e \in E PROVE DataEvent(e) \in Seq(T) /\ SseEvent(e) \in Seq(T)
    OBVIOUS
  <2>1. LF \in T /\ DataLine(e) \in T /\ [event |-> e.type] \in T
    OBVIOUS
  <2> HIDE DEF T
  <2>2. QED
    BY <2>1 DEF DataEvent, SseEvent
<1> HIDE DEF taken, T
<1>3. n \in Nat /\ DOMAIN taken = 1..n /\ \A i \in 1..n : taken[i] \in E
  BY <1>1
<1>4. \A i \in 1..n : piece(i) \in Seq(T)
  BY <1>2, <1>3 DEF BytesOf
<1>5. Wire(r, c) = [i \in 1..n |-> piece(i)]
  BY <1>3 DEF Wire, taken
<1> HIDE DEF n, piece
<1>6. /\ [i \in 1..n |-> piece(i)] \in Seq(Seq(T))
      /\ Len([i \in 1..n |-> piece(i)]) = n
      /\ \A j \in 1..n : [i \in 1..n |-> piece(i)][j] = piece(j)
  BY <1>3, <1>4
<1>7. QED
  BY <1>3, <1>5, <1>6 DEF n, piece, taken

LEMMA AnswerOnTheWire ==
  ASSUME route \in Routes, ControlAccepted(route, control),
         NEW answer, answer.events = StreamingEvents(route, control)
  PROVE  /\ OnTheWire(answer) = Wire(route, control)
         /\ \E T : OnTheWire(answer) \in Seq(Seq(T))
         /\ Len(OnTheWire(answer)) <= control.chunks + StreamEventOverhead[route]
<1>1. OnTheWire(answer) = Wire(route, control)
  BY DEF OnTheWire, Wire, BytesOf
<1>2. QED
  BY <1>1, WireTyped, StreamCounted

-----------------------------------------------------------------------------
(* The events taken are those of the bytes received.                       *)

(* Bytes are moved from the mock to the wire, to the buffer and into       *)
(* events; what the reader would make of the buffer, after the events      *)
(* taken, is what it makes of all the bytes received.                      *)
Moved(T) ==
  /\ remaining \in Seq(Seq(T))
  /\ wire \in Seq(T) /\ buffer \in Seq(T) /\ fed \in Seq(T)

ReadAlike == Parse([events |-> events, rest |-> <<>>], buffer) = Parse(Unread, fed)

ReadInv == (\E T : Moved(T)) /\ ReadAlike

LEMMA InitRead == Init => ReadInv
<1> SUFFICES ASSUME Init PROVE ReadInv
  OBVIOUS
<1>1. wire = <<>> /\ buffer = <<>> /\ fed = <<>> /\ events = <<>>
  BY DEF Init, SseInit
<1>2. ReadAlike
  BY <1>1, ParseNone DEF ReadAlike, Unread
<1>3. \E T : remaining \in Seq(Seq(T))
  <2>1. CASE route = "other"
    <3>1. PICK bytes \in RawStreams : remaining = <<bytes>>
      BY <2>1 DEF Init, Routes
    <3>2. bytes \in Seq(Range(bytes))
      BY UsageAssumption
    <3> HIDE DEF Range
    <3>3. QED
      BY <3>1, <3>2
  <2>2. CASE route # "other" /\ "events" \in DOMAIN Respond(route, control)
    <3> DEFINE answer == Respond(route, control)
    <3>1. route \in Routes /\ remaining = OnTheWire(answer)
      BY <2>2 DEF Init
    <3>2. /\ ControlAccepted(route, control)
          /\ answer = [status |-> 200, events |-> StreamingEvents(route, control)]
      BY <2>2 DEF Respond, ErrorBody
    <3> HIDE DEF answer
    <3>3. answer.events = StreamingEvents(route, control)
      BY <3>2
    <3>4. QED
      BY <3>1, <3>2, <3>3, AnswerOnTheWire
  <2>3. CASE route # "other" /\ "events" \notin DOMAIN Respond(route, control)
    <3>1. remaining = <<>>
      BY <2>3 DEF Init
    <3>2. remaining \in Seq(Seq({}))
      BY <3>1
    <3>3. QED
      BY <3>2
  <2>4. QED
    BY <2>1, <2>2, <2>3
<1>4. PICK T : remaining \in Seq(Seq(T))
  BY <1>3
<1>5. Moved(T)
  BY <1>1, <1>4 DEF Moved
<1>6. QED
  BY <1>2, <1>5 DEF ReadInv

LEMMA ChunkRead ==
  ASSUME ReadInv, ObserveChunk, UNCHANGED remaining
  PROVE  ReadInv'
<1>1. PICK T : Moved(T)
  BY DEF ReadInv
<1>2. PICK n \in 1..MaxChunk :
        /\ n <= Len(wire)
        /\ fed' = fed \o SubSeq(wire, 1, n)
        /\ buffer' = buffer \o SubSeq(wire, 1, n)
        /\ wire' = SubSeq(wire, n + 1, Len(wire))
  BY DEF ObserveChunk
<1> DEFINE chunk == SubSeq(wire, 1, n)
           start == [events |-> events, rest |-> <<>>]
<1>3. n \in 0..Len(wire) /\ Len(wire) \in Nat
  BY <1>1, <1>2, SseAssumption DEF Moved
<1>4. chunk \in Seq(T) /\ wire' \in Seq(T)
  BY <1>1, <1>2, <1>3, CutJoins DEF Moved
<1>5. fed' = fed \o chunk /\ buffer' = buffer \o chunk
  BY <1>2
<1>6. buffer \in Seq(T) /\ fed \in Seq(T) /\ remaining' \in Seq(Seq(T))
  BY <1>1 DEF Moved
<1> HIDE DEF chunk, start
<1>7. fed' \in Seq(T) /\ buffer' \in Seq(T)
  BY <1>4, <1>5, <1>6
<1>8. Parse(start, buffer \o chunk) = Parse(Parse(start, buffer), chunk)
  BY <1>4, <1>6, ParseJoin
<1>9. Parse(Unread, fed \o chunk) = Parse(Parse(Unread, fed), chunk)
  BY <1>4, <1>6, ParseJoin
<1>10. Parse(start, buffer) = Parse(Unread, fed)
  BY DEF ReadInv, ReadAlike, start
<1>11. [events |-> events', rest |-> <<>>] = start
  BY DEF ObserveChunk, start
<1>12. ReadAlike'
  BY <1>5, <1>8, <1>9, <1>10, <1>11 DEF ReadAlike
<1>13. Moved(T)'
  BY <1>4, <1>6, <1>7 DEF Moved
<1>14. QED
  BY <1>12, <1>13 DEF ReadInv

(* What take_next_event does, in terms of places in the buffer.            *)
LEMMA EarliestTaken ==
  ASSUME NEW T, buffer \in Seq(T), TakeNextEvent
  PROVE  \E p, n :
           /\ EarliestAt(buffer, p, n)
           /\ events' = Append(events, SubSeq(buffer, 1, p))
           /\ buffer' = SubSeq(buffer, p + n + 1, Len(buffer))
           /\ buffer' \in Seq(T)
           /\ UNCHANGED <<wire, fed>>
<1>1. PICK found \in SeparatorsIn(buffer) :
        /\ \A other \in SeparatorsIn(buffer) : found[1] <= other[1]
        /\ events' = Append(events, SubSeq(buffer, 1, found[1]))
        /\ buffer' = SubSeq(buffer, found[1] + found[2] + 1, Len(buffer))
        /\ UNCHANGED <<wire, fed>>
  BY DEF TakeNextEvent
<1> DEFINE p == found[1]
           n == found[2]
<1>2. found = <<p, n>>
  BY DEF SeparatorsIn
<1>3. Len(buffer) \in Nat
  OBVIOUS
<1>4. \A q, m : <<q, m>> \in SeparatorsIn(buffer) <=>
        q \in Nat /\ m \in Nat /\ q + m <= Len(buffer) /\ SeparatorAt(buffer, q, m)
  BY <1>3, SeparatorsFound
<1>5. \A q, m : <<q, m>> \in SeparatorsIn(buffer) => p <= q
  BY <1>1
<1>6. /\ events' = Append(events, SubSeq(buffer, 1, p))
      /\ buffer' = SubSeq(buffer, p + n + 1, Len(buffer))
  BY <1>1
<1> HIDE DEF p, n
<1>7. p \in Nat /\ n \in Nat /\ p + n <= Len(buffer) /\ SeparatorAt(buffer, p, n)
  BY <1>2, <1>4
<1>8. EarliestAt(buffer, p, n)
  BY <1>4, <1>5, <1>7 DEF EarliestAt
<1>9. buffer' \in Seq(T)
  <2>1. p + n \in 0..Len(buffer)
    BY <1>3, <1>7
  <2>2. QED
    BY <1>6, <2>1, CutJoins
<1>10. QED
  BY <1>1, <1>6, <1>8, <1>9

LEMMA EventRead ==
  ASSUME ReadInv, TakeNextEvent, UNCHANGED remaining
  PROVE  ReadInv'
<1>1. PICK T : Moved(T)
  BY DEF ReadInv
<1>2. buffer \in Seq(T) /\ Len(buffer) \in Nat
  BY <1>1 DEF Moved
<1>3. PICK p, n :
        /\ EarliestAt(buffer, p, n)
        /\ events' = Append(events, SubSeq(buffer, 1, p))
        /\ buffer' = SubSeq(buffer, p + n + 1, Len(buffer))
        /\ buffer' \in Seq(T)
        /\ UNCHANGED <<wire, fed>>
  BY <1>2, EarliestTaken
<1>4. Parse([events |-> events, rest |-> <<>>], buffer) =
         Parse([events |-> Append(events, SubSeq(buffer, 1, p)), rest |-> <<>>],
               SubSeq(buffer, p + n + 1, Len(buffer)))
  BY <1>2, <1>3, EventTakenAlike
<1>5. ReadAlike'
  <2>1. fed' = fed
    BY <1>3
  <2>2. QED
    BY <1>3, <1>4, <2>1 DEF ReadInv, ReadAlike
<1>6. Moved(T)'
  BY <1>1, <1>3 DEF Moved
<1>7. QED
  BY <1>5, <1>6 DEF ReadInv

LEMMA NextRead == ReadInv /\ [Next]_vars => ReadInv'
<1> SUFFICES ASSUME ReadInv, [Next]_vars PROVE ReadInv'
  OBVIOUS
<1>1. CASE PollNext
  <2>1. PICK T : Moved(T)
    BY DEF ReadInv
  <2>2. Head(remaining) \in Seq(T) /\ Tail(remaining) \in Seq(Seq(T))
    BY <1>1, <2>1 DEF PollNext, Moved
  <2>3. wire \o Head(remaining) \in Seq(T)
    <3> DEFINE piece == Head(remaining)
    <3>1. piece \in Seq(T) /\ wire \in Seq(T)
      BY <2>1, <2>2 DEF Moved
    <3> HIDE DEF piece
    <3>2. wire \o piece \in Seq(T)
      BY <3>1
    <3>3. QED
      BY <3>2 DEF piece
  <2>4. Moved(T)'
    BY <1>1, <2>1, <2>2, <2>3 DEF PollNext, Moved
  <2>5. ReadAlike'
    BY <1>1 DEF PollNext, ReadInv, ReadAlike
  <2>6. QED
    BY <2>4, <2>5 DEF ReadInv
<1>2. CASE ChunkArrives
  BY <1>2, ChunkRead DEF ChunkArrives
<1>3. CASE EventTaken
  BY <1>3, EventRead DEF EventTaken
<1>4. CASE RecordObservedUsage
  BY <1>4 DEF RecordObservedUsage, ReadInv, ReadAlike, Moved
<1>5. CASE UNCHANGED vars
  BY <1>5 DEF vars, ReadInv, ReadAlike, Moved
<1>6. QED
  BY <1>1, <1>2, <1>3, <1>4, <1>5 DEF Next

LEMMA ReadAsReceived == ReadInv => EventsIndependentOfChunks
<1> SUFFICES ASSUME ReadInv, ~HasEvent
             PROVE  events = Parsed.events /\ buffer = Parsed.rest
  BY DEF EventsIndependentOfChunks
<1>1. PICK T : Moved(T)
  BY DEF ReadInv
<1>2. buffer \in Seq(T) /\ Len(buffer) \in Nat
  BY <1>1 DEF Moved
<1>3. \A q, m \in Nat : q + m <= Len(buffer) => ~SeparatorAt(buffer, q, m)
  BY <1>2, SeparatorsFound DEF HasEvent
<1>4. Parse([events |-> events, rest |-> <<>>], SubSeq(buffer, 1, Len(buffer))) =
        [events |-> events, rest |-> SubSeq(buffer, 1, Len(buffer))]
  <2>1. Len(buffer) \in 0..Len(buffer)
    BY <1>2
  <2>2. QED
    BY <1>2, <1>3, <2>1, NoEventYet
<1>5. SubSeq(buffer, 1, Len(buffer)) = buffer
  BY <1>2
<1>6. Parsed = [events |-> events, rest |-> buffer]
  BY <1>4, <1>5 DEF ReadInv, ReadAlike, Parsed
<1>7. QED
  BY <1>6

(* However the stream is cut into chunks, the events taken from it are the *)
(* ones that a reader of single bytes takes, and what is left in the       *)
(* buffer is what that reader has left (take_next_event of sse.rs).        *)
THEOREM EventsAlwaysIndependent == Spec => []EventsIndependentOfChunks
<1>1. Init => ReadInv
  BY InitRead
<1>2. ReadInv /\ [Next]_vars => ReadInv'
  BY NextRead
<1>3. ReadInv => EventsIndependentOfChunks
  BY ReadAsReceived
<1>4. QED
  BY <1>1, <1>2, <1>3, PTL DEF Spec

-----------------------------------------------------------------------------
(* How long the mock answers.                                              *)

(* What is still to be sent fits in what is left of the hour.              *)
TimeInv ==
  /\ \E S : remaining \in Seq(S)
  /\ elapsed \in Nat /\ elapsed <= MaxStreamDuration
  /\ control = None => elapsed = 0
  /\ control # None /\ remaining # <<>> =>
       /\ control.delay \in Nat
       /\ elapsed + Len(remaining) * control.delay <= MaxStreamDuration

LEMMA ProductGrows ==
  ASSUME NEW a \in Nat, NEW b \in Nat, NEW d \in Nat, a <= b
  PROVE  a * d <= b * d
<1> DEFINE A == {n \in Nat : a * n <= b * n}
<1>1. 0 \in A
  OBVIOUS
<1>2. ASSUME NEW n \in A PROVE n + 1 \in A
  <2>1. a * (n + 1) = a * n + a /\ b * (n + 1) = b * n + b
    OBVIOUS
  <2>2. a * n \in Nat /\ b * n \in Nat /\ a * n <= b * n
    OBVIOUS
  <2>3. QED
    BY <2>1, <2>2
<1>3. A = Nat
  <2> HIDE DEF A
  <2> QED BY <1>1, <1>2, NaturalsFromZero DEF A
<1>4. QED
  BY <1>3

LEMMA InitTime == Init => TimeInv
<1> SUFFICES ASSUME Init PROVE TimeInv
  OBVIOUS
<1>1. elapsed = 0 /\ elapsed \in Nat /\ elapsed <= MaxStreamDuration
  BY MockAssumption DEF Init
<1>2. CASE route = "other"
  <2>1. control = None /\ \E bytes \in RawStreams : remaining = <<bytes>>
    BY <1>2 DEF Init, Routes
  <2>2. PICK bytes \in RawStreams : remaining = <<bytes>>
    BY <2>1
  <2>3. remaining \in Seq({bytes})
    BY <2>2
  <2>4. QED
    BY <1>1, <2>1, <2>3 DEF TimeInv
<1>3. CASE route # "other" /\ "events" \in DOMAIN Respond(route, control)
  <2> DEFINE answer == Respond(route, control)
  <2>1. route \in Routes /\ remaining = OnTheWire(answer)
    BY <1>3 DEF Init
  <2>2. /\ ControlAccepted(route, control)
        /\ answer = [status |-> 200, events |-> StreamingEvents(route, control)]
    BY <1>3 DEF Respond, ErrorBody
  <2> HIDE DEF answer
  <2>3. answer.events = StreamingEvents(route, control)
    BY <2>2
  <2> DEFINE bound == control.chunks + StreamEventOverhead[route]
             n == Len(remaining)
             d == control.delay
  <2>4. PICK T : remaining \in Seq(Seq(T)) /\ n <= bound
    BY <2>1, <2>2, <2>3, AnswerOnTheWire
  <2>5. d \in Nat /\ bound \in Nat /\ bound * d <= MaxStreamDuration /\ n \in Nat
    <3>1. control.chunks \in Nat /\ d \in Nat
      BY <2>2, MockAssumption DEF ControlAccepted
    <3>2. StreamEventOverhead[route] \in Nat
      BY <2>1 DEF Routes, StreamEventOverhead
    <3>3. bound * d <= MaxStreamDuration
      BY <2>2 DEF ControlAccepted
    <3>4. QED
      BY <2>4, <3>1, <3>2, <3>3
  <2> HIDE DEF bound, n, d
  <2>6. n * d <= bound * d /\ n * d \in Nat /\ bound * d \in Nat
    BY <2>4, <2>5, ProductGrows
  <2>7. 0 + n * d <= MaxStreamDuration
    BY <2>5, <2>6, MockAssumption
  <2>8. elapsed + Len(remaining) * control.delay <= MaxStreamDuration
    BY <1>1, <2>7 DEF n, d
  <2>9. QED
    BY <1>1, <2>4, <2>5, <2>8 DEF TimeInv, d
<1>4. CASE route # "other" /\ "events" \notin DOMAIN Respond(route, control)
  <2>1. remaining = <<>>
    BY <1>4 DEF Init
  <2>2. remaining \in Seq({})
    BY <2>1
  <2>3. QED
    BY <1>1, <2>1, <2>2 DEF TimeInv
<1>5. QED
  BY <1>2, <1>3, <1>4

LEMMA PollTime == TimeInv /\ PollNext => TimeInv'
<1> SUFFICES ASSUME TimeInv, PollNext PROVE TimeInv'
  OBVIOUS
<1>1. PICK S : remaining \in Seq(S)
  BY DEF TimeInv
<1>2. remaining # <<>> /\ remaining' = Tail(remaining) /\ control' = control
      /\ elapsed' = elapsed + (IF control = None THEN 0 ELSE control.delay)
  BY DEF PollNext
<1> DEFINE n == Len(remaining)
           m == Len(Tail(remaining))
           d == control.delay
<1>3. Tail(remaining) \in Seq(S) /\ n \in Nat /\ m \in Nat /\ n = m + 1
  BY <1>1, <1>2
<1>4. CASE control = None
  <2>1. elapsed = 0
    BY <1>4 DEF TimeInv
  <2>2. elapsed' = 0
    BY <1>2, <1>4, <2>1
  <2>3. QED
    BY <1>2, <1>3, <1>4, <2>2, MockAssumption DEF TimeInv
<1>5. CASE control # None
  <2>1. d \in Nat /\ elapsed \in Nat /\ elapsed + n * d <= MaxStreamDuration
    BY <1>2, <1>5 DEF TimeInv
  <2>2. elapsed' = elapsed + d
    BY <1>2, <1>5
  <2> HIDE DEF n, m, d
  <2>3. n * d = m * d + d /\ m * d \in Nat
    BY <1>3, <2>1
  <2>4. elapsed' \in Nat /\ elapsed' + m * d <= MaxStreamDuration
    BY <2>1, <2>2, <2>3, MockAssumption
  <2>5. elapsed' <= MaxStreamDuration
    BY <2>3, <2>4, MockAssumption
  <2>6. Len(remaining') = m /\ control'.delay = d
    BY <1>2 DEF m, d
  <2>7. QED
    BY <1>2, <1>3, <1>5, <2>1, <2>4, <2>5, <2>6 DEF TimeInv
<1>6. QED
  BY <1>4, <1>5

(* No control headers that the mock accepts make it answer for longer than *)
(* an hour (validate_stream_duration of control.rs), for every number of   *)
(* chunks, delay and limit: every event sent is one that was counted.      *)
THEOREM MockAlwaysEndsWithinAnHour == Spec => []MockStreamsWithinAnHour
<1>1. Init => TimeInv
  BY InitTime
<1>2. TimeInv /\ [Next]_vars => TimeInv'
  <2> SUFFICES ASSUME TimeInv, [Next]_vars PROVE TimeInv'
    OBVIOUS
  <2>1. CASE PollNext
    BY <2>1, PollTime
  <2>2. CASE ChunkArrives
    BY <2>2 DEF ChunkArrives, TimeInv
  <2>3. CASE EventTaken
    BY <2>3 DEF EventTaken, TimeInv
  <2>4. CASE RecordObservedUsage
    BY <2>4 DEF RecordObservedUsage, TimeInv
  <2>5. CASE UNCHANGED vars
    BY <2>5 DEF vars, TimeInv
  <2>6. QED
    BY <2>1, <2>2, <2>3, <2>4, <2>5 DEF Next
<1>3. TimeInv => MockStreamsWithinAnHour
  BY DEF TimeInv, MockStreamsWithinAnHour
<1>4. QED
  BY <1>1, <1>2, <1>3, PTL DEF Spec

-----------------------------------------------------------------------------
(* Sequences joined to one.                                                *)

(* What FlattenSeq passes through, up to k sequences.                      *)
IsJoin(seqs, g, k) ==
  g = [i \in 1..k |-> IF i = 1 THEN seqs[1] ELSE g[i - 1] \o seqs[i]]

LEMMA JoinExists ==
  ASSUME NEW seqs, NEW k \in Nat
  PROVE  \E g : IsJoin(seqs, g, k)
<1> DEFINE A == {n \in Nat : \E g : IsJoin(seqs, g, n)}
<1>1. 0 \in A
  <2>1. IsJoin(seqs, [i \in 1..0 |-> seqs[1]], 0)
    BY DEF IsJoin
  <2>2. QED
    BY <2>1
<1>2. ASSUME NEW n \in A PROVE n + 1 \in A
  <2>1. PICK g : IsJoin(seqs, g, n)
    OBVIOUS
  <2>2. PICK h : h = [i \in 1..(n + 1) |-> IF i = 1 THEN seqs[1] ELSE g[i - 1] \o seqs[i]]
    OBVIOUS
  <2>3. \A i \in 1..n : h[i] = g[i]
    <3>1. \A i \in 1..n : i \in 1..(n + 1)
      OBVIOUS
    <3>2. \A i \in 1..n : g[i] = IF i = 1 THEN seqs[1] ELSE g[i - 1] \o seqs[i]
      BY <2>1 DEF IsJoin
    <3>3. QED
      BY <2>2, <3>1, <3>2
  <2>4. \A i \in 1..(n + 1) : i # 1 => i - 1 \in 1..n
    OBVIOUS
  <2>5. IsJoin(seqs, h, n + 1)
    BY <2>2, <2>3, <2>4 DEF IsJoin
  <2>6. QED
    BY <2>5
<1>3. A = Nat
  <2> HIDE DEF A
  <2> QED BY <1>1, <1>2, NaturalsFromZero DEF A
<1>4. QED
  BY <1>3

LEMMA JoinSteps ==
  ASSUME NEW seqs, NEW g, NEW k \in Nat, IsJoin(seqs, g, k)
  PROVE  /\ k >= 1 => g[1] = seqs[1]
         /\ \A i \in 1..k : i + 1 \in 1..k => g[i + 1] = g[i] \o seqs[i + 1]
<1>1. \A i \in 1..k : g[i] = IF i = 1 THEN seqs[1] ELSE g[i - 1] \o seqs[i]
  BY DEF IsJoin
<1>2. \A i \in 1..k : (i + 1) - 1 = i /\ i + 1 # 1
  OBVIOUS
<1>3. k >= 1 => 1 \in 1..k
  OBVIOUS
<1>4. QED
  BY <1>1, <1>2, <1>3

LEMMA JoinsAgree ==
  ASSUME NEW a, NEW b, NEW g, NEW h, NEW k \in Nat, NEW m \in Nat, k <= m,
         IsJoin(a, g, k), IsJoin(b, h, m), \A i \in 1..k : a[i] = b[i]
  PROVE  \A i \in 1..k : g[i] = h[i]
<1> DEFINE A == {n \in Nat : n + 1 <= k => g[n + 1] = h[n + 1]}
<1>1. 0 \in A
  <2> SUFFICES ASSUME 1 <= k PROVE g[1] = h[1]
    OBVIOUS
  <2>1. k >= 1 /\ m >= 1 /\ 1 \in 1..k
    OBVIOUS
  <2>2. g[1] = a[1] /\ h[1] = b[1]
    BY <2>1, JoinSteps
  <2>3. QED
    BY <2>1, <2>2
<1>2. ASSUME NEW n \in A PROVE n + 1 \in A
  <2> SUFFICES ASSUME (n + 1) + 1 <= k PROVE g[(n + 1) + 1] = h[(n + 1) + 1]
    OBVIOUS
  <2> DEFINE i == n + 1
  <2>1. i \in 1..k /\ i + 1 \in 1..k /\ i \in 1..m /\ i + 1 \in 1..m
    OBVIOUS
  <2>2. g[i] = h[i]
    BY <2>1
  <2> HIDE DEF i
  <2>3. g[i + 1] = g[i] \o a[i + 1]
    BY <2>1, JoinSteps
  <2>4. h[i + 1] = h[i] \o b[i + 1]
    BY <2>1, JoinSteps
  <2>5. g[i + 1] = h[i + 1]
    BY <2>1, <2>2, <2>3, <2>4
  <2>6. QED
    BY <2>5 DEF i
<1>3. A = Nat
  <2> HIDE DEF A
  <2> QED BY <1>1, <1>2, NaturalsFromZero DEF A
<1>4. ASSUME NEW i \in 1..k PROVE g[i] = h[i]
  <2>1. i - 1 \in Nat /\ (i - 1) + 1 = i /\ i <= k
    OBVIOUS
  <2>2. i - 1 \in A
    <3> HIDE DEF A
    <3> QED BY <1>3, <2>1
  <2>3. QED
    BY <2>1, <2>2
<1>5. QED
  BY <1>4

LEMMA FlattenJoins ==
  ASSUME NEW seqs, Len(seqs) \in Nat, Len(seqs) # 0
  PROVE  \E g : IsJoin(seqs, g, Len(seqs)) /\ FlattenSeq(seqs) = g[Len(seqs)]
<1> DEFINE flatten == CHOOSE g : g = [i \in 1..Len(seqs) |->
                                      IF i = 1 THEN seqs[i] ELSE g[i - 1] \o seqs[i]]
<1>1. PICK g : IsJoin(seqs, g, Len(seqs))
  BY JoinExists
<1>2. g = [i \in 1..Len(seqs) |-> IF i = 1 THEN seqs[i] ELSE g[i - 1] \o seqs[i]]
  BY <1>1 DEF IsJoin
<1>3. flatten = [i \in 1..Len(seqs) |->
                   IF i = 1 THEN seqs[i] ELSE flatten[i - 1] \o seqs[i]]
  BY <1>2
<1>4. FlattenSeq(seqs) = flatten[Len(seqs)]
  BY DEF FlattenSeq
<1> HIDE DEF flatten
<1>5. IsJoin(seqs, flatten, Len(seqs))
  BY <1>3 DEF IsJoin
<1>6. QED
  BY <1>4, <1>5

LEMMA FlattenNone == FlattenSeq(<<>>) = <<>>
BY DEF FlattenSeq

LEMMA FlattenAppend ==
  ASSUME NEW T, NEW seqs \in Seq(Seq(T)), NEW x \in Seq(T)
  PROVE  FlattenSeq(Append(seqs, x)) = FlattenSeq(seqs) \o x
<1> DEFINE n == Len(seqs)
           longer == Append(seqs, x)
<1>1. /\ n \in Nat /\ Len(longer) = n + 1 /\ longer[n + 1] = x
      /\ \A i \in 1..n : seqs[i] = longer[i]
  OBVIOUS
<1>2. n = 0 => seqs = <<>>
  OBVIOUS
<1> HIDE DEF n, longer
<1>3. PICK h : IsJoin(longer, h, n + 1) /\ FlattenSeq(longer) = h[n + 1]
  <2>1. Len(longer) \in Nat /\ Len(longer) # 0
    BY <1>1
  <2>2. QED
    BY <1>1, <2>1, FlattenJoins
<1>4. CASE n = 0
  <2>1. h[1] = longer[1]
    <3>1. n + 1 \in Nat /\ n + 1 >= 1
      BY <1>1
    <3>2. QED
      BY <1>3, <3>1, JoinSteps
  <2>2. FlattenSeq(longer) = x
    BY <1>1, <1>3, <1>4, <2>1
  <2>3. <<>> \o x = x
    OBVIOUS
  <2>4. QED
    BY <1>2, <1>4, <2>2, <2>3, FlattenNone DEF longer
<1>5. CASE n # 0
  <2>1. PICK g : IsJoin(seqs, g, n) /\ FlattenSeq(seqs) = g[n]
    BY <1>1, <1>5, FlattenJoins DEF n
  <2>2. n \in 1..n /\ n \in 1..(n + 1) /\ n + 1 \in 1..(n + 1) /\ n + 1 \in Nat /\ n <= n + 1
    BY <1>1, <1>5
  <2>3. g[n] = h[n]
    BY <1>1, <1>3, <2>1, <2>2, JoinsAgree
  <2>4. h[n + 1] = h[n] \o longer[n + 1]
    BY <1>3, <2>2, JoinSteps
  <2>5. QED
    BY <1>1, <1>3, <2>1, <2>3, <2>4 DEF longer
<1>6. QED
  BY <1>4, <1>5

(* A sequence that is not empty is one that something was appended to.     *)
LEMMA LastAppended ==
  ASSUME NEW S, NEW n \in Nat, NEW s \in Seq(S), Len(s) = n + 1
  PROVE  \E d \in Seq(S), x \in S : s = Append(d, x) /\ Len(d) = n
<1> DEFINE d == SubSeq(s, 1, n)
           x == s[n + 1]
<1>1. d \in Seq(S) /\ x \in S /\ Len(d) = n
  OBVIOUS
<1>2. s = Append(d, x)
  BY <1>1
<1>3. QED
  BY <1>1, <1>2

LEMMA FlattenTyped ==
  ASSUME NEW T, NEW seqs \in Seq(Seq(T))
  PROVE  FlattenSeq(seqs) \in Seq(T)
<1> DEFINE A == {n \in Nat : \A s \in Seq(Seq(T)) : Len(s) = n => FlattenSeq(s) \in Seq(T)}
<1>1. 0 \in A
  <2>1. \A s \in Seq(Seq(T)) : Len(s) = 0 => s = <<>>
    OBVIOUS
  <2>2. <<>> \in Seq(T)
    OBVIOUS
  <2>3. QED
    BY <2>1, <2>2, FlattenNone
<1>2. ASSUME NEW n \in A PROVE n + 1 \in A
  <2> SUFFICES ASSUME NEW s \in Seq(Seq(T)), Len(s) = n + 1
               PROVE  FlattenSeq(s) \in Seq(T)
    OBVIOUS
  <2>1. PICK d \in Seq(Seq(T)), x \in Seq(T) : s = Append(d, x) /\ Len(d) = n
    BY LastAppended
  <2>2. FlattenSeq(d) \in Seq(T)
    BY <2>1
  <2>3. FlattenSeq(s) = FlattenSeq(d) \o x
    BY <2>1, FlattenAppend
  <2>4. QED
    BY <2>2, <2>3
<1>3. A = Nat
  <2> HIDE DEF A
  <2> QED BY <1>1, <1>2, NaturalsFromZero DEF A
<1>4. QED
  BY <1>3

LEMMA JoinAssociative ==
  ASSUME NEW S, NEW a \in Seq(S), NEW b \in Seq(S), NEW c \in Seq(S)
  PROVE  (a \o b) \o c = a \o (b \o c)
BY ConcatAssociative

LEMMA FlattenFirst ==
  ASSUME NEW T, NEW x \in Seq(T), NEW seqs \in Seq(Seq(T))
  PROVE  FlattenSeq(<<x>> \o seqs) = x \o FlattenSeq(seqs)
<1> DEFINE P(s) == FlattenSeq(<<x>> \o s) = x \o FlattenSeq(s)
           A == {n \in Nat : \A s \in Seq(Seq(T)) : Len(s) = n => P(s)}
<1>1. 0 \in A
  <2>1. \A s \in Seq(Seq(T)) : Len(s) = 0 => s = <<>>
    OBVIOUS
  <2>2. <<x>> \o <<>> = Append(<<>>, x) /\ <<>> \in Seq(Seq(T))
    OBVIOUS
  <2>3. FlattenSeq(<<x>> \o <<>>) = <<>> \o x
    BY <2>2, FlattenNone, FlattenAppend
  <2>4. <<>> \o x = x \o <<>>
    OBVIOUS
  <2>5. QED
    BY <2>1, <2>3, <2>4, FlattenNone
<1>2. ASSUME NEW n \in A PROVE n + 1 \in A
  <2> HIDE DEF P
  <2> SUFFICES ASSUME NEW s \in Seq(Seq(T)), Len(s) = n + 1 PROVE P(s)
    OBVIOUS
  <2>1. PICK d \in Seq(Seq(T)), y \in Seq(T) : s = Append(d, y) /\ Len(d) = n
    BY LastAppended
  <2>2. FlattenSeq(<<x>> \o d) = x \o FlattenSeq(d)
    BY <2>1 DEF P
  <2>3. <<x>> \o s = Append(<<x>> \o d, y) /\ <<x>> \o d \in Seq(Seq(T))
    BY <2>1
  <2>4. FlattenSeq(<<x>> \o s) = FlattenSeq(<<x>> \o d) \o y
    BY <2>3, FlattenAppend
  <2>5. FlattenSeq(s) = FlattenSeq(d) \o y /\ FlattenSeq(d) \in Seq(T)
    BY <2>1, FlattenAppend, FlattenTyped
  <2>6. (x \o FlattenSeq(d)) \o y = x \o (FlattenSeq(d) \o y)
    <3> DEFINE w == FlattenSeq(d)
    <3>1. w \in Seq(T)
      BY <2>5
    <3> HIDE DEF w, A
    <3>2. (x \o w) \o y = x \o (w \o y)
      BY <3>1, JoinAssociative
    <3>3. QED
      BY <3>2 DEF w
  <2>7. QED
    BY <2>2, <2>4, <2>5, <2>6 DEF P
<1>3. A = Nat
  <2> HIDE DEF A
  <2> QED BY <1>1, <1>2, NaturalsFromZero DEF A
<1>4. Len(seqs) \in A
  <2> HIDE DEF A
  <2> QED BY <1>3
<1>5. P(seqs)
  <2> HIDE DEF P
  <2> QED BY <1>4
<1>6. QED
  BY <1>5

-----------------------------------------------------------------------------
(* An event of the mock on the wire, and what is taken of it.              *)

LEMMA LinesAreNoSeparators ==
  ASSUME NEW e
  PROVE  DataLine(e) \notin {CR, LF} /\ [event |-> e.type] \notin {CR, LF}
BY DEF DataLine, CR, LF

LEMMA SeparatorBytes ==
  ASSUME NEW b, NEW p, NEW n, SeparatorAt(b, p, n)
  PROVE  b[p + 1] \in {CR, LF} /\ b[p + 2] \in {CR, LF}
BY DEF SeparatorAt

StartsWith(b, x) == \A i \in 1..Len(x) : b[i] = x[i]

(* The first separator in what begins with an event is the one at its end. *)
FirstEndsAt(b, p) ==
  SeparatorAt(b, p, 2) /\ \A q, m \in Nat : SeparatorAt(b, q, m) => p <= q

LEMMA EventEnd ==
  ASSUME NEW r \in Routes, NEW e, NEW b, StartsWith(b, BytesOf(r, e))
  PROVE  /\ Len(LinesOf(r, e)) \in Nat
         /\ Len(BytesOf(r, e)) = Len(LinesOf(r, e)) + 2
         /\ StartsWith(b, LinesOf(r, e))
         /\ FirstEndsAt(b, Len(LinesOf(r, e)))
<1> USE DEF StartsWith, FirstEndsAt
<1>1. CASE r = "openai"
  <2>1. LinesOf(r, e) = <<DataLine(e)>> /\ BytesOf(r, e) = <<DataLine(e), LF, LF>>
    BY <1>1 DEF LinesOf, BytesOf, DataEvent
  <2> DEFINE d == DataLine(e)
  <2>2. d \notin {CR, LF}
    BY LinesAreNoSeparators
  <2> HIDE DEF d
  <2>3. /\ Len(<<d>>) = 1 /\ <<d>>[1] = d /\ Len(<<d, LF, LF>>) = 3
        /\ <<d, LF, LF>>[1] = d /\ <<d, LF, LF>>[2] = LF /\ <<d, LF, LF>>[3] = LF
    OBVIOUS
  <2>4. b[1] = d /\ b[2] = LF /\ b[3] = LF
    <3>1. 1 \in 1..3 /\ 2 \in 1..3 /\ 3 \in 1..3
      OBVIOUS
    <3>2. \A i \in 1..3 : b[i] = <<d, LF, LF>>[i]
      BY <2>1, <2>3 DEF d
    <3>3. QED
      BY <2>3, <3>1, <3>2
  <2>5. SeparatorAt(b, 1, 2)
    <3>1. 1 + 1 = 2 /\ 1 + 2 = 3
      OBVIOUS
    <3>2. QED
      BY <2>4, <3>1 DEF SeparatorAt
  <2>6. ASSUME NEW q \in Nat, NEW m \in Nat, SeparatorAt(b, q, m) PROVE 1 <= q
    <3>1. q # 0
      BY <2>2, <2>4, <2>6, SeparatorBytes
    <3>2. QED
      BY <3>1
  <2>7. \A i \in 1..1 : b[i] = <<d>>[i]
    BY <2>3, <2>4
  <2>8. 3 = 1 + 2 /\ 1 \in Nat
    OBVIOUS
  <2>9. QED
    BY <2>1, <2>3, <2>5, <2>6, <2>7, <2>8 DEF d
<1>2. CASE r = "anthropic"
  <2> DEFINE d == DataLine(e)
             h == [event |-> e.type]
  <2>1. LinesOf(r, e) = <<h, LF, d>> /\ BytesOf(r, e) = <<h, LF, d, LF, LF>>
    BY <1>2 DEF LinesOf, BytesOf, SseEvent
  <2>2. d \notin {CR, LF} /\ h \notin {CR, LF}
    BY LinesAreNoSeparators
  <2> HIDE DEF d, h
  <2>3. /\ Len(<<h, LF, d>>) = 3 /\ Len(<<h, LF, d, LF, LF>>) = 5
        /\ <<h, LF, d>>[1] = h /\ <<h, LF, d>>[2] = LF /\ <<h, LF, d>>[3] = d
        /\ <<h, LF, d, LF, LF>>[1] = h /\ <<h, LF, d, LF, LF>>[2] = LF
        /\ <<h, LF, d, LF, LF>>[3] = d /\ <<h, LF, d, LF, LF>>[4] = LF
        /\ <<h, LF, d, LF, LF>>[5] = LF
    OBVIOUS
  <2>4. b[1] = h /\ b[2] = LF /\ b[3] = d /\ b[4] = LF /\ b[5] = LF
    <3>1. 1 \in 1..5 /\ 2 \in 1..5 /\ 3 \in 1..5 /\ 4 \in 1..5 /\ 5 \in 1..5
      OBVIOUS
    <3>2. \A i \in 1..5 : b[i] = <<h, LF, d, LF, LF>>[i]
      BY <2>1, <2>3
    <3>3. QED
      BY <2>3, <3>1, <3>2
  <2>5. SeparatorAt(b, 3, 2)
    <3>1. 3 + 1 = 4 /\ 3 + 2 = 5
      OBVIOUS
    <3>2. QED
      BY <2>4, <3>1 DEF SeparatorAt
  <2>6. ASSUME NEW q \in Nat, NEW m \in Nat, SeparatorAt(b, q, m) PROVE 3 <= q
    <3>1. b[q + 1] \in {CR, LF} /\ b[q + 2] \in {CR, LF}
      BY <2>6, SeparatorBytes
    <3>2. q # 0
      BY <2>2, <2>4, <3>1
    <3>3. q # 1
      BY <2>2, <2>4, <3>1
    <3>4. q # 2
      BY <2>2, <2>4, <3>1
    <3>5. QED
      BY <3>2, <3>3, <3>4
  <2>7. \A i \in 1..3 : b[i] = <<h, LF, d>>[i]
    BY <2>3, <2>4
  <2>8. 5 = 3 + 2 /\ 3 \in Nat
    OBVIOUS
  <2>9. QED
    BY <2>1, <2>3, <2>5, <2>6, <2>7, <2>8
<1>3. QED
  BY <1>1, <1>2 DEF Routes

LEMMA LinesTyped ==
  ASSUME NEW r \in Routes, NEW e, NEW T, BytesOf(r, e) \in Seq(T)
  PROVE  LinesOf(r, e) \in Seq(T)
<1> DEFINE p == Len(LinesOf(r, e))
           b == BytesOf(r, e)
<1>1. p \in Nat /\ Len(b) = p + 2 /\ \A i \in 1..p : b[i] = LinesOf(r, e)[i]
  <2>1. StartsWith(b, b)
    BY DEF StartsWith
  <2>2. QED
    BY <2>1, EventEnd DEF StartsWith
<1>2. \E S : LinesOf(r, e) \in Seq(S)
  <2>1. \A x, y, z : <<x>> \in Seq({x, y, z}) /\ <<x, y, z>> \in Seq({x, y, z})
    OBVIOUS
  <2>2. QED
    BY <2>1 DEF LinesOf
<1> HIDE DEF b
<1>3. \A i \in 1..p : b[i] \in T
  <2>1. \A i \in 1..p : i \in 1..Len(b)
    BY <1>1
  <2>2. b \in Seq(T)
    BY DEF b
  <2>3. QED
    BY <2>1, <2>2
<1>4. QED
  BY <1>1, <1>2, <1>3

LEMMA LeftCancels ==
  ASSUME NEW S, NEW a \in Seq(S), NEW x \in Seq(S), NEW y \in Seq(S), a \o x = a \o y
  PROVE  x = y
<1>1. Len(x) \in Nat /\ Len(y) \in Nat /\ Len(x) = Len(y)
  <2>1. Len(a \o x) = Len(a) + Len(x) /\ Len(a) \in Nat /\ Len(x) \in Nat
    BY JoinCounted
  <2>2. Len(a \o y) = Len(a) + Len(y) /\ Len(y) \in Nat
    BY JoinCounted
  <2>3. QED
    BY <2>1, <2>2
<1>2. \A i \in 1..Len(x) : x[i] = y[i]
  <2>1. \A i \in 1..Len(x) : (a \o x)[Len(a) + i] = x[i]
    BY JoinElements
  <2>2. \A i \in 1..Len(y) : (a \o y)[Len(a) + i] = y[i]
    BY JoinElements
  <2>3. QED
    BY <1>1, <2>1, <2>2
<1>3. QED
  BY <1>1, <1>2, SeqEqual

(* What take_next_event takes of bytes that begin with an event.           *)
CutOut(b, t, p, n, lines, rest) ==
  SubSeq(b, 1, p) = lines /\ SubSeq(b, p + n + 1, Len(b)) \o t = rest

LEMMA EventCutOut ==
  ASSUME NEW T, NEW b \in Seq(T), NEW t \in Seq(T), NEW r \in Routes, NEW e,
         BytesOf(r, e) \in Seq(T), NEW rest \in Seq(T), b \o t = BytesOf(r, e) \o rest,
         NEW p, NEW n, EarliestAt(b, p, n)
  PROVE  CutOut(b, t, p, n, LinesOf(r, e), rest)
<1> DEFINE bytes == BytesOf(r, e)
           lines == LinesOf(r, e)
           whole == b \o t
           k == Len(lines)
<1>0. /\ p \in Nat /\ n \in Nat /\ p + n <= Len(b) /\ SeparatorAt(b, p, n)
      /\ \A q, m \in Nat : q + m <= Len(b) /\ SeparatorAt(b, q, m) => p <= q
  BY DEF EarliestAt
<1>1. \A i \in 1..Len(b) : whole[i] = b[i]
  BY JoinElements
<1>2. bytes \in Seq(T) /\ whole = bytes \o rest
  OBVIOUS
<1> HIDE DEF bytes, whole
<1>3. \A i \in 1..Len(bytes) : whole[i] = bytes[i]
  BY <1>2, JoinElements
<1>4. /\ k \in Nat /\ Len(bytes) = k + 2 /\ \A i \in 1..k : whole[i] = lines[i]
      /\ SeparatorAt(whole, k, 2)
      /\ \A q, m \in Nat : SeparatorAt(whole, q, m) => k <= q
  <2>1. StartsWith(whole, BytesOf(r, e))
    BY <1>3 DEF bytes, StartsWith
  <2>2. /\ k \in Nat /\ Len(bytes) = k + 2
        /\ StartsWith(whole, lines) /\ FirstEndsAt(whole, k)
    BY <2>1, EventEnd DEF bytes
  <2>3. QED
    BY <2>2 DEF StartsWith, FirstEndsAt
<1> HIDE DEF k
<1>5. Len(b) \in Nat
  OBVIOUS
<1>6. \A q, m \in Nat : q + m <= Len(b) =>
        (SeparatorAt(b, q, m) <=> SeparatorAt(whole, q, m))
  BY <1>1, <1>5, SeparatorsShared
<1>7. SeparatorAt(whole, p, n) /\ k <= p
  BY <1>0, <1>4, <1>6
<1>8. k + 2 <= p + n
  BY <1>0, <1>4, <1>7, SeparatorsNest, 2 \in Nat
<1>9. k + 2 <= Len(b)
  BY <1>0, <1>4, <1>5, <1>8
<1>10. p = k
  <2>1. SeparatorAt(b, k, 2)
    BY <1>4, <1>6, <1>9, 2 \in Nat
  <2>2. p <= k
    BY <1>0, <1>4, <1>9, <2>1, 2 \in Nat
  <2>3. QED
    BY <1>0, <1>4, <1>7, <2>2
<1>11. n = 2
  BY <1>0, <1>4, <1>7, <1>10, SeparatorsNest, 2 \in Nat
<1>12. SubSeq(b, 1, p) = lines
  <2>1. lines \in Seq(T)
    BY <1>2, LinesTyped DEF bytes
  <2>2. p <= Len(b) /\ Len(lines) = p
    BY <1>0, <1>5, <1>10 DEF k
  <2>3. /\ SubSeq(b, 1, p) \in Seq(T) /\ Len(SubSeq(b, 1, p)) = p
        /\ \A i \in 1..p : SubSeq(b, 1, p)[i] = b[i]
    BY <1>0, <1>5, <2>2
  <2>4. \A i \in 1..p : b[i] = lines[i]
    <3>1. \A i \in 1..p : i \in 1..Len(b)
      BY <1>0, <1>5, <2>2
    <3>2. QED
      BY <1>1, <1>4, <1>10, <3>1
  <2>5. QED
    BY <2>1, <2>2, <2>3, <2>4, SeqEqual
<1>13. SubSeq(b, p + n + 1, Len(b)) \o t = rest
  <2> DEFINE l == k + 2
             head == SubSeq(b, 1, l)
             tail == SubSeq(b, l + 1, Len(b))
  <2>1. l \in 0..Len(b) /\ l = p + n
    BY <1>0, <1>4, <1>5, <1>9, <1>10, <1>11
  <2>2. head \in Seq(T) /\ tail \in Seq(T) /\ b = head \o tail
    BY <2>1, CutJoins
  <2>3. head = bytes
    <3>1. Len(head) = l /\ \A i \in 1..l : head[i] = b[i]
      BY <1>5, <2>1
    <3>2. \A i \in 1..l : b[i] = bytes[i]
      <4>1. \A i \in 1..l : i \in 1..Len(b) /\ i \in 1..Len(bytes)
        BY <1>4, <1>5, <2>1
      <4>2. QED
        BY <1>1, <1>3, <4>1
    <3>3. Len(bytes) = l
      BY <1>4
    <3> HIDE DEF l, head
    <3>4. QED
      BY <1>2, <2>2, <3>1, <3>2, <3>3, SeqEqual
  <2> HIDE DEF l, head, tail
  <2>4. whole = bytes \o (tail \o t) /\ tail \o t \in Seq(T)
    <3>1. (head \o tail) \o t = head \o (tail \o t)
      <4>1. head \in Seq(T) /\ tail \in Seq(T) /\ t \in Seq(T)
        BY <2>2
      <4>2. QED
        BY ONLY <4>1, JoinAssociative
    <3>2. tail \o t \in Seq(T)
      BY <2>2
    <3>3. QED
      BY <2>2, <2>3, <3>1, <3>2 DEF whole
  <2>5. tail \o t = rest
    <3> DEFINE x == tail \o t
    <3>1. x \in Seq(T) /\ bytes \o x = bytes \o rest
      BY <1>2, <2>4
    <3> HIDE DEF x
    <3>2. x = rest
      BY <1>2, <3>1, LeftCancels
    <3>3. QED
      BY <3>2 DEF x
  <2>6. QED
    BY <2>1, <2>5 DEF tail
<1>14. QED
  BY <1>12, <1>13 DEF CutOut

-----------------------------------------------------------------------------
(* What the recorders make of the mock's events.                           *)

LEMMA LinesHaveValue ==
  ASSUME NEW r \in Routes, NEW e
  PROVE  /\ ValueOf(LinesOf(r, e)) = e
         /\ HasValue(LinesOf(r, e)) <=> e.type # "[DONE]"
<1> DEFINE lines == LinesOf(r, e)
           d == DataLine(e)
           h == [event |-> e.type]
<1>1. IsDataLine(d) /\ d.data = e /\ ~IsDataLine(h) /\ ~IsDataLine(LF)
  BY DEF IsDataLine, DataLine, LF
<1> HIDE DEF d, h
<1>2. \E i \in EventData(lines) : EventData(lines) = {i} /\ lines[i] = d
  <2>1. CASE r = "openai"
    <3>1. lines = <<d>>
      BY <2>1 DEF LinesOf, d
    <3> HIDE DEF lines
    <3>2. DOMAIN lines = 1..1 /\ lines[1] = d
      BY <3>1
    <3>3. EventData(lines) = {1}
      BY <1>1, <3>2 DEF EventData
    <3>4. QED
      BY <3>2, <3>3
  <2>2. CASE r # "openai"
    <3>1. lines = <<h, LF, d>>
      BY <2>2 DEF LinesOf, d, h
    <3> HIDE DEF lines
    <3>2. DOMAIN lines = 1..3 /\ lines[1] = h /\ lines[2] = LF /\ lines[3] = d
      BY <3>1
    <3>3. EventData(lines) = {3}
      <4>1. \A i \in 1..3 : i = 1 \/ i = 2 \/ i = 3
        OBVIOUS
      <4>2. 3 \in 1..3
        OBVIOUS
      <4>3. QED
        BY <1>1, <3>2, <4>1, <4>2 DEF EventData
    <3>4. QED
      BY <3>2, <3>3
  <2>3. QED
    BY <2>1, <2>2
<1> HIDE DEF lines
<1>3. PICK i \in EventData(lines) : EventData(lines) = {i} /\ lines[i] = d
  BY <1>2
<1>4. (CHOOSE j \in EventData(lines) : TRUE) = i
  BY <1>3
<1>5. ValueOf(lines) = e
  BY <1>1, <1>3, <1>4 DEF ValueOf
<1>6. QED
  BY <1>3, <1>5 DEF HasValue, lines

(* The usage of a recorder that has observed k events of an answer.        *)
OpenAiUsageAfter(c, k) ==
  IF c.errorAfter = None /\ c.includeUsage /\ k >= SentChunks(c) + 3
  THEN OpenAiUsage(c) ELSE NoUsage

AnthropicUsageAfter(c, k) ==
  IF k = 0 THEN NoUsage
  ELSE AnthropicUsage(c, IF c.errorAfter = None /\ k >= SentChunks(c) + 4
                         THEN OutputTokens ELSE 1)

UsageAfter(r, c, k) ==
  IF r = "openai" THEN OpenAiUsageAfter(c, k) ELSE AnthropicUsageAfter(c, k)

LEMMA ControlTyped ==
  ASSUME NEW c \in Controls
  PROVE  /\ c.prompt \in Nat /\ c.completion \in Nat
         /\ c.cacheCreation \in Nat /\ c.cacheRead \in Nat
BY UsageAssumption

LEMMA NoOpenAiTotal == OpenAiTotal(NoUsage) = None
BY DEF OpenAiTotal, NoUsage

LEMMA SomeOpenAiTotal ==
  ASSUME NEW c \in Controls
  PROVE  OpenAiTotal(OpenAiUsage(c)) = c.prompt + c.completion
                /\ c.prompt + c.completion # None
<1>1. OpenAiTotal(OpenAiUsage(c)) = c.prompt + c.completion
  BY DEF OpenAiTotal, OpenAiUsage
<1>2. c.prompt + c.completion # None
  BY ControlTyped, MockAssumption
<1>3. QED
  BY <1>1, <1>2

LEMMA EventFields ==
  ASSUME NEW type, NEW text, NEW u
  PROVE  LET e == EventOf(type, text, u)
         IN  e.type = type /\ e.text = text /\ e.usage = u
BY DEF EventOf

LEMMA OpenAiObserved ==
  ASSUME NEW c \in Controls, ControlAccepted("openai", c), NEW k \in Nat,
         NEW A, OpenAiAt(c, A), k + 1 <= Len(A),
         NEW event, event = LinesOf("openai", A[k + 1]),
         NEW before, before = OpenAiUsageAfter(c, k)
  PROVE  (IF HasValue(event) /\ OpenAiTotal(ValueOf(event).usage) # None
          THEN ValueOf(event).usage ELSE before) = OpenAiUsageAfter(c, k + 1)
<1> DEFINE e == A[k + 1]
           n == SentChunks(c)
<1>1. ValueOf(event) = e /\ (HasValue(event) <=> e.type # "[DONE]")
  BY LinesHaveValue DEF Routes
<1>2. n \in Nat
  BY SentTyped DEF Routes
<1>3. Len(A) \in Nat
  BY DEF OpenAiAt
<1>4. CASE c.errorAfter = None /\ c.includeUsage /\ k = n + 2
  <2>1. e = EventOf("usage", <<>>, OpenAiUsage(c))
    <3>1. k + 1 = n + 3
      BY <1>2, <1>4
    <3>2. QED
      BY <1>4, <3>1 DEF OpenAiAt
  <2>2. e.type = "usage" /\ e.usage = OpenAiUsage(c)
    BY <2>1, EventFields
  <2>3. OpenAiTotal(e.usage) # None
    BY <2>2, SomeOpenAiTotal
  <2>4. OpenAiUsageAfter(c, k + 1) = OpenAiUsage(c)
    BY <1>2, <1>4 DEF OpenAiUsageAfter
  <2>5. QED
    BY <1>1, <2>2, <2>3, <2>4
<1>5. CASE ~(c.errorAfter = None /\ c.includeUsage /\ k = n + 2)
  <2>1. e.usage = NoUsage
    <3> DEFINE i == k + 1
    <3>1. i \in 1..Len(A)
      BY <1>3
    <3>2. i = 1 \/ i - 1 \in 1..n \/ i = n + 2 \/ i = n + 3 \/ i = n + 4
      BY <1>2, <1>3, <3>1 DEF OpenAiAt
    <3>3. i # n + 3 \/ c.errorAfter # None \/ ~c.includeUsage
      BY <1>2, <1>5
    <3>4. i - 1 \in 1..n => 1 + (i - 1) = i
      OBVIOUS
    <3>5. \/ \E t : A[i] = EventOf("delta", t, NoUsage)
          \/ \E t : A[i] = Plain(t)
      <4> HIDE DEF i
      <4>1. CASE i = 1
        BY <4>1 DEF OpenAiAt
      <4>2. CASE i - 1 \in 1..n
        <5>1. A[i] = DeltaAt("openai", c, i - 1)
          BY <3>4, <4>2 DEF OpenAiAt
        <5>2. QED
          BY <5>1 DEF DeltaAt
      <4>3. CASE i = n + 2
        BY <4>3 DEF OpenAiAt
      <4>4. CASE i = n + 3
        <5>1. c.errorAfter = None /\ ~c.includeUsage
          BY <1>2, <3>1, <3>3, <4>4 DEF OpenAiAt
        <5>2. QED
          BY <4>4, <5>1 DEF OpenAiAt
      <4>5. CASE i = n + 4
        <5>1. c.errorAfter = None /\ c.includeUsage
          BY <1>2, <3>1, <4>5 DEF OpenAiAt
        <5>2. QED
          BY <4>5, <5>1 DEF OpenAiAt
      <4>6. QED
        BY <3>2, <4>1, <4>2, <4>3, <4>4, <4>5
    <3>6. QED
      BY <3>5, EventFields DEF Plain
  <2>2. (IF HasValue(event) /\ OpenAiTotal(ValueOf(event).usage) # None
         THEN ValueOf(event).usage ELSE before) = before
    BY <1>1, <2>1, NoOpenAiTotal
  <2>3. OpenAiUsageAfter(c, k + 1) = OpenAiUsageAfter(c, k)
    BY <1>2, <1>5 DEF OpenAiUsageAfter
  <2>4. QED
    BY <2>2, <2>3
<1>6. QED
  BY <1>4, <1>5

LEMMA MergeFirst ==
  ASSUME NEW c
  PROVE  Merge(AnthropicUsage(c, 1), NoUsage) = AnthropicUsage(c, 1)
<1> DEFINE u == AnthropicUsage(c, 1)
           D == {"cache_creation_input_tokens", "cache_read_input_tokens",
                 "input_tokens", "output_tokens"}
<1>1. DOMAIN NoUsage = {}
  BY DEF NoUsage
<1>2. DOMAIN u = D /\ u = [f \in D |-> u[f]]
  BY DEF AnthropicUsage
<1> HIDE DEF u, D
<1>3. Merge(u, NoUsage) = [f \in D |-> u[f]]
  BY <1>1, <1>2 DEF Merge
<1>4. QED
  BY <1>2, <1>3 DEF u

LEMMA MergeLast ==
  ASSUME NEW c, NEW o
  PROVE  Merge([output_tokens |-> OutputTokens], AnthropicUsage(c, o))
           = AnthropicUsage(c, OutputTokens)
<1> DEFINE u == AnthropicUsage(c, o)
           v == AnthropicUsage(c, OutputTokens)
           last == [output_tokens |-> OutputTokens]
           D == {"cache_creation_input_tokens", "cache_read_input_tokens",
                 "input_tokens", "output_tokens"}
<1>1. DOMAIN last = {"output_tokens"} /\ last["output_tokens"] = OutputTokens
  OBVIOUS
<1>2. DOMAIN u = D /\ DOMAIN v = D /\ v = [f \in D |-> v[f]]
  BY DEF AnthropicUsage
<1>3. \A f \in D : v[f] = IF f = "output_tokens" THEN OutputTokens ELSE u[f]
  BY DEF AnthropicUsage
<1>4. {"output_tokens"} \cup D = D
  OBVIOUS
<1> HIDE DEF u, v, last, D
<1>5. Merge(last, u) = [f \in D |-> IF f = "output_tokens" THEN OutputTokens ELSE u[f]]
  BY <1>1, <1>2, <1>4 DEF Merge
<1>6. Merge(last, u) = [f \in D |-> v[f]]
  BY <1>3, <1>5
<1>7. QED
  BY <1>2, <1>6 DEF u, v, last

LEMMA AnthropicObserved ==
  ASSUME NEW c \in Controls, ControlAccepted("anthropic", c), NEW k \in Nat,
         NEW A, AnthropicAt(c, A), k + 1 <= Len(A),
         NEW event, event = LinesOf("anthropic", A[k + 1]),
         NEW before, before = AnthropicUsageAfter(c, k)
  PROVE  (IF HasValue(event) /\ ValueOf(event).type \in {"message_start", "message_delta"}
          THEN Merge(ValueOf(event).usage, before) ELSE before)
           = AnthropicUsageAfter(c, k + 1)
<1> DEFINE e == A[k + 1]
           n == SentChunks(c)
<1>1. ValueOf(event) = e /\ (HasValue(event) <=> e.type # "[DONE]")
  BY LinesHaveValue DEF Routes
<1>2. n \in Nat
  BY SentTyped DEF Routes
<1>3. Len(A) \in Nat
  BY DEF AnthropicAt
<1>4. CASE k = 0
  <2>1. e = EventOf("message_start", <<>>, AnthropicUsage(c, 1))
    BY <1>4, 0 + 1 = 1 DEF AnthropicAt
  <2>2. e.type = "message_start" /\ e.usage = AnthropicUsage(c, 1)
    BY <2>1, EventFields
  <2>3. before = NoUsage
    BY <1>4 DEF AnthropicUsageAfter
  <2>4. AnthropicUsageAfter(c, k + 1) = AnthropicUsage(c, 1)
    <3>1. k + 1 # 0 /\ ~(k + 1 >= n + 4)
      BY <1>2, <1>4
    <3>2. QED
      BY <3>1 DEF AnthropicUsageAfter
  <2>5. QED
    BY <1>1, <2>2, <2>3, <2>4, MergeFirst
<1>5. CASE k # 0 /\ c.errorAfter = None /\ k = n + 3
  <2>1. e = EventOf("message_delta", <<>>, [output_tokens |-> OutputTokens])
    <3>1. k + 1 = n + 4
      BY <1>2, <1>5
    <3>2. QED
      BY <1>5, <3>1 DEF AnthropicAt
  <2>2. e.type = "message_delta" /\ e.usage = [output_tokens |-> OutputTokens]
    BY <2>1, EventFields
  <2>3. before = AnthropicUsage(c, 1)
    <3>1. ~(k >= n + 4)
      BY <1>2, <1>5
    <3>2. QED
      BY <1>5, <3>1 DEF AnthropicUsageAfter
  <2>4. AnthropicUsageAfter(c, k + 1) = AnthropicUsage(c, OutputTokens)
    <3>1. k + 1 # 0 /\ k + 1 >= n + 4
      BY <1>2, <1>5
    <3>2. QED
      BY <1>5, <3>1 DEF AnthropicUsageAfter
  <2>5. QED
    BY <1>1, <2>2, <2>3, <2>4, MergeLast
<1>6. CASE k # 0 /\ ~(c.errorAfter = None /\ k = n + 3)
  <2>1. e.type \notin {"message_start", "message_delta"}
    <3> DEFINE i == k + 1
    <3>1. i \in 1..Len(A) /\ i # 1
      BY <1>3, <1>6
    <3>2. i = 2 \/ i - 2 \in 1..n \/ i = n + 3 \/ i = n + 4 \/ i = n + 5
      BY <1>2, <1>3, <3>1 DEF AnthropicAt
    <3>3. c.errorAfter = None => i # n + 4
      BY <1>2, <1>6
    <3>4. i - 2 \in 1..n => 2 + (i - 2) = i
      OBVIOUS
    <3>5. \E t, x : A[i] = EventOf(t, x, NoUsage) /\ t \notin {"message_start", "message_delta"}
      <4> HIDE DEF i
      <4>1. CASE i = 2
        BY <4>1 DEF AnthropicAt, Plain
      <4>2. CASE i - 2 \in 1..n
        <5>1. A[i] = DeltaAt("anthropic", c, i - 2)
          BY <3>4, <4>2 DEF AnthropicAt
        <5>2. QED
          BY <5>1 DEF DeltaAt
      <4>3. CASE i = n + 3
        BY <4>3 DEF AnthropicAt, Plain
      <4>4. CASE i = n + 4 \/ i = n + 5
        <5>1. c.errorAfter = None
          BY <1>2, <3>1, <4>4 DEF AnthropicAt
        <5>2. i = n + 5
          BY <3>3, <4>4, <5>1
        <5>3. QED
          BY <5>1, <5>2 DEF AnthropicAt, Plain
      <4>5. QED
        BY <3>2, <4>1, <4>2, <4>3, <4>4
    <3>6. QED
      BY <3>5, EventFields
  <2>2. AnthropicUsageAfter(c, k + 1) = AnthropicUsageAfter(c, k)
    <3>1. /\ k + 1 # 0
          /\ c.errorAfter = None => (k + 1 >= n + 4 <=> k >= n + 4)
      BY <1>2, <1>6
    <3>2. QED
      BY <1>6, <3>1 DEF AnthropicUsageAfter
  <2>3. QED
    BY <1>1, <2>1, <2>2
<1>7. QED
  BY <1>4, <1>5, <1>6

-----------------------------------------------------------------------------
(* How far an answer has come: of its events, m have been sent and k have  *)
(* been taken, and the bytes of those in between are on the way.           *)
InTransit(T, W, left, bytes, k, m) ==
  /\ W \in Seq(Seq(T))
  /\ k \in Nat /\ m \in Nat /\ k <= m /\ m <= Len(W)
  /\ left = SubSeq(W, m + 1, Len(W))
  /\ bytes = FlattenSeq(SubSeq(W, k + 1, m))

LEMMA SliceTyped ==
  ASSUME NEW S, NEW s \in Seq(S), NEW k \in Nat, NEW m \in Nat, k <= m, m <= Len(s)
  PROVE  /\ SubSeq(s, k + 1, m) \in Seq(S)
         /\ Len(SubSeq(s, k + 1, m)) = m - k
         /\ \A i \in 1..(m - k) : SubSeq(s, k + 1, m)[i] = s[k + i]
OBVIOUS

LEMMA SliceNone ==
  ASSUME NEW S, NEW s \in Seq(S), NEW k \in Nat, k <= Len(s)
  PROVE  SubSeq(s, k + 1, k) = <<>>
OBVIOUS

LEMMA SliceGrows ==
  ASSUME NEW S, NEW s \in Seq(S), NEW k \in Nat, NEW m \in Nat, k <= m, m + 1 <= Len(s)
  PROVE  /\ s[m + 1] \in S
         /\ SubSeq(s, k + 1, m + 1) = Append(SubSeq(s, k + 1, m), s[m + 1])
<1> DEFINE a == SubSeq(s, k + 1, m)
           b == SubSeq(s, k + 1, m + 1)
           x == s[m + 1]
<1>0. Len(s) \in Nat /\ m + 1 \in Nat /\ k <= m + 1 /\ m <= Len(s)
  OBVIOUS
<1>1. a \in Seq(S) /\ Len(a) = m - k /\ \A i \in 1..(m - k) : a[i] = s[k + i]
  BY <1>0, SliceTyped
<1>2. b \in Seq(S) /\ Len(b) = (m + 1) - k /\ \A i \in 1..((m + 1) - k) : b[i] = s[k + i]
  BY <1>0, SliceTyped
<1>3. x \in S
  <2>1. m + 1 \in 1..Len(s)
    BY <1>0
  <2>2. QED
    BY <2>1
<1> HIDE DEF a, b, x
<1>4. /\ Append(a, x) \in Seq(S) /\ Len(Append(a, x)) = (m - k) + 1
      /\ \A i \in 1..(m - k) : Append(a, x)[i] = a[i]
      /\ Append(a, x)[(m - k) + 1] = x
  BY <1>1, <1>3
<1>5. \A i \in 1..((m + 1) - k) : b[i] = Append(a, x)[i]
  <2>1. \A i \in 1..((m + 1) - k) : i \in 1..(m - k) \/ i = (m - k) + 1
    OBVIOUS
  <2>2. b[(m - k) + 1] = x
    <3>1. (m - k) + 1 \in 1..((m + 1) - k) /\ k + ((m - k) + 1) = m + 1
      OBVIOUS
    <3>2. QED
      BY <1>2, <3>1 DEF x
  <2>3. QED
    BY <1>1, <1>2, <1>4, <2>1, <2>2
<1>6. Len(b) = Len(Append(a, x))
  BY <1>2, <1>4
<1>7. b = Append(a, x)
  <2>1. \A i \in 1..Len(b) : b[i] = Append(a, x)[i]
    BY <1>2, <1>5
  <2>2. QED
    BY <1>2, <1>4, <1>6, <2>1, SeqEqual
<1>8. QED
  BY <1>3, <1>7 DEF a, b, x

LEMMA SliceShrinks ==
  ASSUME NEW S, NEW s \in Seq(S), NEW k \in Nat, NEW m \in Nat, k + 1 <= m, m <= Len(s)
  PROVE  /\ s[k + 1] \in S
         /\ SubSeq(s, k + 1, m) = <<s[k + 1]>> \o SubSeq(s, (k + 1) + 1, m)
<1> DEFINE a == SubSeq(s, (k + 1) + 1, m)
           b == SubSeq(s, k + 1, m)
           x == s[k + 1]
           l == m - (k + 1)
<1>0. Len(s) \in Nat /\ k + 1 \in Nat /\ k <= m /\ l \in Nat /\ m - k = l + 1
  OBVIOUS
<1>1. a \in Seq(S) /\ Len(a) = l /\ \A i \in 1..l : a[i] = s[(k + 1) + i]
  BY <1>0, SliceTyped
<1>2. b \in Seq(S) /\ Len(b) = l + 1 /\ \A i \in 1..(l + 1) : b[i] = s[k + i]
  BY <1>0, SliceTyped
<1>3. x \in S
  <2>1. k + 1 \in 1..Len(s)
    BY <1>0
  <2>2. QED
    BY <2>1
<1>4. \A i \in 1..(l + 1) : i = 1 \/ (i - 1 \in 1..l /\ (k + 1) + (i - 1) = k + i)
  BY <1>0
<1> HIDE DEF a, b, x, l
<1> DEFINE y == <<x>>
           c == y \o a
<1>5. y \in Seq(S) /\ Len(y) = 1 /\ y[1] = x
  BY <1>3
<1> HIDE DEF y
<1>6. /\ c \in Seq(S) /\ Len(c) = 1 + Len(a)
      /\ c[1] = x /\ \A i \in 1..Len(a) : c[1 + i] = a[i]
  <2>1. c \in Seq(S) /\ Len(c) = Len(y) + Len(a)
    BY <1>1, <1>5, JoinCounted
  <2>2. y \in Seq(S) /\ a \in Seq(S)
    BY <1>1, <1>5
  <2>3. /\ \A i \in 1..Len(y) : (y \o a)[i] = y[i]
        /\ \A i \in 1..Len(a) : (y \o a)[Len(y) + i] = a[i]
    BY ONLY <2>2, JoinElements
  <2>4. QED
    BY <1>5, <2>1, <2>3, 1 \in 1..1
<1> HIDE DEF c
<1>7. \A i \in 1..(l + 1) : b[i] = c[i]
  <2> SUFFICES ASSUME NEW i \in 1..(l + 1) PROVE b[i] = c[i]
    OBVIOUS
  <2>1. CASE i = 1
    BY <1>2, <1>6, <2>1 DEF x
  <2>2. CASE i - 1 \in 1..l /\ (k + 1) + (i - 1) = k + i
    <3>1. c[1 + (i - 1)] = a[i - 1] /\ a[i - 1] = s[k + i]
      BY <1>1, <1>6, <2>2
    <3>2. 1 + (i - 1) = i
      BY <1>0
    <3>3. QED
      BY <1>2, <3>1, <3>2
  <2>3. QED
    BY <1>4, <2>1, <2>2
<1>8. b = c
  <2>1. Len(b) = Len(c) /\ \A i \in 1..Len(b) : b[i] = c[i]
    BY <1>0, <1>1, <1>2, <1>6, <1>7
  <2>2. QED
    BY <1>2, <1>6, <2>1, SeqEqual
<1>9. QED
  BY <1>3, <1>8 DEF a, b, c, x, y

LEMMA TransitStarts ==
  ASSUME NEW T, NEW W \in Seq(Seq(T))
  PROVE  InTransit(T, W, W, <<>>, 0, 0)
<1>1. Len(W) \in Nat /\ SubSeq(W, 0 + 1, Len(W)) = W
  OBVIOUS
<1>2. SubSeq(W, 0 + 1, 0) = <<>>
  BY <1>1, SliceNone
<1>3. FlattenSeq(SubSeq(W, 0 + 1, 0)) = <<>>
  BY <1>2, FlattenNone
<1>4. 0 \in Nat /\ 0 <= 0 /\ 0 <= Len(W)
  BY <1>1
<1>5. QED
  BY <1>1, <1>3, <1>4 DEF InTransit

LEMMA HeadOfJoin ==
  ASSUME NEW S, NEW x \in S, NEW s \in Seq(S)
  PROVE  Head(<<x>> \o s) = x /\ Tail(<<x>> \o s) = s
OBVIOUS

LEMMA TransitSends ==
  ASSUME NEW T, NEW W, NEW left, NEW bytes, NEW k, NEW m,
         InTransit(T, W, left, bytes, k, m), left # <<>>
  PROVE  /\ Head(left) \in Seq(T)
         /\ InTransit(T, W, Tail(left), bytes \o Head(left), k, m + 1)
<1> DEFINE x == W[m + 1]
<1>1. /\ W \in Seq(Seq(T)) /\ k \in Nat /\ m \in Nat /\ k <= m /\ m <= Len(W)
      /\ left = SubSeq(W, m + 1, Len(W)) /\ bytes = FlattenSeq(SubSeq(W, k + 1, m))
  BY DEF InTransit
<1>2. Len(W) \in Nat /\ m + 1 \in Nat /\ k <= m + 1
  BY <1>1
<1>3. m + 1 <= Len(W)
  <2>1. SUFFICES ASSUME m = Len(W) PROVE FALSE
    BY <1>1, <1>2
  <2>2. left = <<>>
    BY <1>1, <2>1, SliceNone
  <2>3. QED
    BY <2>2
<1>4. x \in Seq(T) /\ left = <<x>> \o SubSeq(W, (m + 1) + 1, Len(W))
  <2> DEFINE l == Len(W)
             U == Seq(T)
  <2>1. /\ W \in Seq(U) /\ m \in Nat /\ l \in Nat
        /\ m + 1 <= l /\ l <= Len(W)
    BY <1>1, <1>2, <1>3
  <2> HIDE DEF l, U
  <2>2. /\ W[m + 1] \in U
        /\ SubSeq(W, m + 1, l) = <<W[m + 1]>> \o SubSeq(W, (m + 1) + 1, l)
    BY ONLY <2>1, SliceShrinks
  <2>3. QED
    BY <1>1, <2>2 DEF l, U
<1>5. SubSeq(W, (m + 1) + 1, Len(W)) \in Seq(Seq(T))
  BY <1>1, <1>2, <1>3, SliceTyped
<1>6. x \in Seq(T) /\ SubSeq(W, k + 1, m + 1) = Append(SubSeq(W, k + 1, m), x)
  BY <1>1, <1>2, <1>3, SliceGrows
<1>7. SubSeq(W, k + 1, m) \in Seq(Seq(T))
  BY <1>1, SliceTyped
<1> HIDE DEF x
<1>8. Head(left) = x /\ Tail(left) = SubSeq(W, (m + 1) + 1, Len(W))
  <2> DEFINE rest == SubSeq(W, (m + 1) + 1, Len(W))
  <2>1. rest \in Seq(Seq(T)) /\ left = <<x>> \o rest
    BY <1>4, <1>5
  <2> HIDE DEF rest
  <2>2. Head(<<x>> \o rest) = x /\ Tail(<<x>> \o rest) = rest
    <3>1. x \in Seq(T) /\ rest \in Seq(Seq(T))
      BY <1>4, <2>1
    <3>2. QED
      BY ONLY <3>1, HeadOfJoin
  <2>3. QED
    BY <2>1, <2>2 DEF rest
<1>9. bytes \o x = FlattenSeq(SubSeq(W, k + 1, m + 1))
  BY <1>1, <1>6, <1>7, FlattenAppend
<1>10. QED
  BY <1>1, <1>2, <1>3, <1>4, <1>8, <1>9 DEF InTransit

LEMMA TransitTakes ==
  ASSUME NEW T, NEW W, NEW left, NEW bytes, NEW k, NEW m,
         InTransit(T, W, left, bytes, k, m), k # m
  PROVE  /\ k + 1 <= Len(W) /\ W[k + 1] \in Seq(T)
         /\ \E rest \in Seq(T) :
              bytes = W[k + 1] \o rest /\ InTransit(T, W, left, rest, k + 1, m)
<1> DEFINE x == W[k + 1]
           after == SubSeq(W, (k + 1) + 1, m)
           rest == FlattenSeq(after)
<1>1. /\ W \in Seq(Seq(T)) /\ k \in Nat /\ m \in Nat /\ k <= m /\ m <= Len(W)
      /\ left = SubSeq(W, m + 1, Len(W)) /\ bytes = FlattenSeq(SubSeq(W, k + 1, m))
  BY DEF InTransit
<1>2. Len(W) \in Nat /\ k + 1 \in Nat /\ k + 1 <= m /\ k + 1 <= Len(W)
  BY <1>1
<1>3. x \in Seq(T) /\ SubSeq(W, k + 1, m) = <<x>> \o after
  BY <1>1, <1>2, SliceShrinks
<1>4. after \in Seq(Seq(T))
  BY <1>1, <1>2, SliceTyped
<1>5. InTransit(T, W, left, rest, k + 1, m)
  BY <1>1, <1>2 DEF InTransit
<1> HIDE DEF x, after
<1>6. FlattenSeq(<<x>> \o after) = x \o rest /\ rest \in Seq(T)
  BY <1>3, <1>4, FlattenFirst, FlattenTyped
<1>7. bytes = x \o rest
  BY <1>1, <1>3, <1>6
<1>8. QED
  BY <1>2, <1>3, <1>5, <1>6, <1>7 DEF x

LEMMA TransitEmpty ==
  ASSUME NEW T, NEW W, NEW left, NEW bytes, NEW k,
         InTransit(T, W, left, bytes, k, k)
  PROVE  bytes = <<>>
<1>1. W \in Seq(Seq(T)) /\ k \in Nat /\ k <= Len(W)
  BY DEF InTransit
<1>2. SubSeq(W, k + 1, k) = <<>>
  BY <1>1, SliceNone
<1>3. QED
  BY <1>2, FlattenNone DEF InTransit

LEMMA TransitAllSent ==
  ASSUME NEW T, NEW W, NEW bytes, NEW k, NEW m, InTransit(T, W, <<>>, bytes, k, m)
  PROVE  m = Len(W)
<1>1. /\ W \in Seq(Seq(T)) /\ m \in Nat /\ m <= Len(W)
      /\ <<>> = SubSeq(W, m + 1, Len(W))
  BY DEF InTransit
<1>2. Len(W) \in Nat
  BY <1>1
<1>3. Len(SubSeq(W, m + 1, Len(W))) = Len(W) - m
  BY <1>1, <1>2, SliceTyped
<1> DEFINE n == Len(W)
<1>4. 0 = n - m
  <2>1. Len(<<>>) = 0
    OBVIOUS
  <2>2. QED
    BY <1>1, <1>3, <2>1
<1>5. n \in Nat /\ m \in Nat
  BY <1>1, <1>2
<1> HIDE DEF n
<1>6. m = n
  BY <1>4, <1>5
<1>7. QED
  BY <1>6 DEF n

-----------------------------------------------------------------------------
(* The recorder sees the answer's events, one after the other.             *)

Lines(r, c, k) == [i \in 1..k |-> LinesOf(r, StreamingEvents(r, c)[i])]

(* Of the answer's events, m have been sent and k taken and observed.      *)
Seen(T, k, m) ==
  /\ wire \in Seq(T) /\ buffer \in Seq(T)
  /\ InTransit(T, Wire(route, control), remaining, buffer \o wire, k, m)
  /\ events = Lines(route, control, k)
  /\ usage = UsageAfter(route, control, k)
  /\ outcome = "complete" => k = Len(Wire(route, control))

Streamed ==
  /\ control \in Controls /\ ControlAccepted(route, control)
  /\ outcome \in {"open", "complete", "failed"}
  /\ outcome # "open" => charge = TotalTokens(usage)
  /\ \E T, k, m : Seen(T, k, m)

AnswerInv ==
  route \in Routes => (outcome = "body" /\ events = <<>>) \/ Streamed

LEMMA AppendedAt ==
  ASSUME NEW S, NEW s \in Seq(S), NEW x \in S
  PROVE  /\ Append(s, x) \in Seq(S) /\ Len(Append(s, x)) = Len(s) + 1
         /\ Len(s) \in Nat /\ Append(s, x)[Len(s) + 1] = x
         /\ \A i \in 1..Len(s) : Append(s, x)[i] = s[i]
OBVIOUS

LEMMA LinesGrow ==
  ASSUME NEW r, NEW c, NEW k \in Nat
  PROVE  LET x == LinesOf(r, StreamingEvents(r, c)[k + 1])
         IN  /\ Lines(r, c, k + 1) = Append(Lines(r, c, k), x)
             /\ Last(Append(Lines(r, c, k), x)) = x
<1> DEFINE l(i) == LinesOf(r, StreamingEvents(r, c)[i])
           x == l(k + 1)
           a == Lines(r, c, k)
           b == Lines(r, c, k + 1)
           S == {l(i) : i \in 1..(k + 1)}
<1>1. a = [i \in 1..k |-> l(i)] /\ b = [i \in 1..(k + 1) |-> l(i)]
  BY DEF Lines
<1>2. \A i \in 1..(k + 1) : l(i) \in S
  OBVIOUS
<1> HIDE DEF l, a, b, S
<1>3. /\ a \in Seq(S) /\ Len(a) = k /\ \A i \in 1..k : a[i] = l(i)
  <2>1. \A i \in 1..k : i \in 1..(k + 1)
    OBVIOUS
  <2>2. QED
    BY <1>1, <1>2, <2>1
<1>4. b \in Seq(S) /\ Len(b) = k + 1 /\ \A i \in 1..(k + 1) : b[i] = l(i)
  <2>1. k + 1 \in Nat
    OBVIOUS
  <2>2. QED
    BY <1>1, <1>2, <2>1
<1>5. x \in S
  BY <1>2
<1> HIDE DEF x
<1>6. /\ Append(a, x) \in Seq(S) /\ Len(Append(a, x)) = k + 1
      /\ Append(a, x)[k + 1] = x /\ \A i \in 1..k : Append(a, x)[i] = a[i]
  BY <1>3, <1>5, AppendedAt
<1>7. b = Append(a, x)
  <2>1. \A i \in 1..(k + 1) : i \in 1..k \/ i = k + 1
    OBVIOUS
  <2>2. \A i \in 1..Len(b) : b[i] = Append(a, x)[i]
    BY <1>3, <1>4, <1>6, <2>1 DEF x
  <2>3. QED
    BY <1>4, <1>6, <2>2, SeqEqual
<1>8. Last(Append(a, x)) = x
  BY <1>6 DEF Last
<1>9. QED
  BY <1>7, <1>8 DEF a, b, x, l

LEMMA InitAnswer == Init => AnswerInv
<1> SUFFICES ASSUME Init, route \in Routes
             PROVE  (outcome = "body" /\ events = <<>>) \/ Streamed
  BY DEF AnswerInv
<1>1. /\ wire = <<>> /\ buffer = <<>> /\ events = <<>> /\ usage = NoUsage
      /\ control \in Controls
  BY DEF Init, SseInit, Routes
<1> DEFINE answer == Respond(route, control)
<1>2. CASE "events" \in DOMAIN answer
  <2>1. remaining = OnTheWire(answer) /\ outcome = "open"
    BY <1>2 DEF Init, Routes
  <2>2. /\ ControlAccepted(route, control)
        /\ answer = [status |-> 200, events |-> StreamingEvents(route, control)]
    BY <1>2 DEF Respond, ErrorBody
  <2>3. answer.events = StreamingEvents(route, control)
    BY <2>2
  <2> HIDE DEF answer
  <2> DEFINE W == Wire(route, control)
  <2>4. remaining = W
    BY <2>1, <2>2, <2>3, AnswerOnTheWire
  <2>5. PICK T : W \in Seq(Seq(T))
    BY <2>2, WireTyped
  <2> HIDE DEF W
  <2>6. InTransit(T, W, W, <<>>, 0, 0)
    BY <2>5, TransitStarts
  <2>7. wire \in Seq(T) /\ buffer \in Seq(T) /\ buffer \o wire = <<>>
    BY <1>1
  <2>8. events = Lines(route, control, 0)
    <3>1. Lines(route, control, 0) = <<>>
      BY DEF Lines
    <3>2. QED
      BY <1>1, <3>1
  <2>9. usage = UsageAfter(route, control, 0)
    <3>1. ~(0 >= SentChunks(control) + 3)
      BY <2>2, SentTyped
    <3>2. QED
      BY <1>1, <3>1 DEF UsageAfter, OpenAiUsageAfter, AnthropicUsageAfter
  <2>10. Seen(T, 0, 0)
    BY <2>1, <2>4, <2>6, <2>7, <2>8, <2>9 DEF Seen, W
  <2>11. QED
    BY <1>1, <2>1, <2>2, <2>10 DEF Streamed
<1>3. CASE "events" \notin DOMAIN answer
  BY <1>1, <1>3 DEF Init, Routes
<1>4. QED
  BY <1>2, <1>3

LEMMA PollAnswer == Streamed /\ PollNext => Streamed'
<1> SUFFICES ASSUME Streamed, PollNext PROVE Streamed'
  OBVIOUS
<1>1. PICK T, k, m : Seen(T, k, m)
  BY DEF Streamed
<1>2. /\ outcome = "open" /\ remaining # <<>> /\ wire' = wire \o Head(remaining)
      /\ remaining' = Tail(remaining)
      /\ UNCHANGED <<buffer, events, route, control, usage, outcome, charge>>
  BY DEF PollNext
<1> DEFINE W == Wire(route, control)
           left == remaining
           bytes == buffer \o wire
           x == Head(left)
<1>3. wire \in Seq(T) /\ buffer \in Seq(T) /\ InTransit(T, W, left, bytes, k, m)
  BY <1>1 DEF Seen
<1>4. x \in Seq(T) /\ InTransit(T, W, Tail(left), bytes \o x, k, m + 1)
  BY <1>2, <1>3, TransitSends
<1>5. bytes \o x = buffer \o (wire \o x)
  <2>1. wire \in Seq(T) /\ buffer \in Seq(T) /\ x \in Seq(T)
    BY <1>3, <1>4
  <2> HIDE DEF x
  <2>2. (buffer \o wire) \o x = buffer \o (wire \o x)
    BY ONLY <2>1, JoinAssociative
  <2>3. QED
    BY <2>2
<1>6. wire \o x \in Seq(T)
  BY <1>3, <1>4
<1> HIDE DEF W, bytes
<1>7. InTransit(T, W, remaining', buffer' \o wire', k, m + 1)
  BY <1>2, <1>4, <1>5
<1>8. W' = W
  BY <1>2 DEF W
<1>9. Seen(T, k, m + 1)'
  BY <1>1, <1>2, <1>3, <1>6, <1>7, <1>8 DEF Seen, W
<1>10. QED
  BY <1>2, <1>9 DEF Streamed

LEMMA ChunkAnswer == Streamed /\ ChunkArrives => Streamed'
<1> SUFFICES ASSUME Streamed, ChunkArrives PROVE Streamed'
  OBVIOUS
<1>1. PICK T, k, m : Seen(T, k, m)
  BY DEF Streamed
<1>2. PICK n \in 1..MaxChunk :
        /\ n <= Len(wire)
        /\ buffer' = buffer \o SubSeq(wire, 1, n)
        /\ wire' = SubSeq(wire, n + 1, Len(wire))
  BY DEF ChunkArrives, ObserveChunk
<1>3. /\ outcome = "open"
      /\ UNCHANGED <<events, route, control, remaining, usage, outcome, charge>>
  BY DEF ChunkArrives, ObserveChunk
<1> DEFINE head == SubSeq(wire, 1, n)
           tail == SubSeq(wire, n + 1, Len(wire))
<1>4. wire \in Seq(T) /\ buffer \in Seq(T)
  BY <1>1 DEF Seen
<1>5. head \in Seq(T) /\ tail \in Seq(T) /\ wire = head \o tail
  <2>1. n \in 0..Len(wire)
    BY <1>2, <1>4, SseAssumption
  <2>2. QED
    BY <1>4, <2>1, CutJoins
<1> HIDE DEF head, tail
<1>6. buffer' = buffer \o head /\ wire' = tail
  BY <1>2 DEF head, tail
<1>7. buffer' \in Seq(T) /\ wire' \in Seq(T)
  BY <1>4, <1>5, <1>6
<1>8. buffer' \o wire' = buffer \o wire
  <2>1. buffer \in Seq(T) /\ head \in Seq(T) /\ tail \in Seq(T)
    BY <1>4, <1>5
  <2>2. (buffer \o head) \o tail = buffer \o (head \o tail)
    BY ONLY <2>1, JoinAssociative
  <2>3. QED
    BY <1>5, <1>6, <2>2
<1>9. Seen(T, k, m)'
  <2>1. InTransit(T, Wire(route, control), remaining, buffer' \o wire', k, m)
    BY <1>1, <1>8 DEF Seen
  <2>2. QED
    BY <1>1, <1>3, <1>7, <2>1 DEF Seen
<1>10. QED
  BY <1>3, <1>9 DEF Streamed

(* What Observe does with the lines of the next event.                     *)
LEMMA EventObserved ==
  ASSUME NEW r \in Routes, NEW c \in Controls, ControlAccepted(r, c), NEW k \in Nat,
         k + 1 <= Len(StreamingEvents(r, c)),
         NEW event, event = LinesOf(r, StreamingEvents(r, c)[k + 1]),
         NEW before, before = UsageAfter(r, c, k)
  PROVE  UsageAfter(r, c, k + 1) =
           IF r = "openai"
           THEN IF HasValue(event) /\ OpenAiTotal(ValueOf(event).usage) # None
                THEN ValueOf(event).usage ELSE before
           ELSE IF HasValue(event)
                   /\ ValueOf(event).type \in {"message_start", "message_delta"}
                THEN Merge(ValueOf(event).usage, before) ELSE before
<1> DEFINE A == StreamingEvents(r, c)
<1>1. CASE r = "openai"
  <2>1. OpenAiAt(c, A)
    BY <1>1, OpenAiPlaces
  <2> HIDE DEF A
  <2>2. (IF HasValue(event) /\ OpenAiTotal(ValueOf(event).usage) # None
         THEN ValueOf(event).usage ELSE before) = OpenAiUsageAfter(c, k + 1)
    <3>1. /\ ControlAccepted("openai", c) /\ k + 1 <= Len(A)
          /\ event = LinesOf("openai", A[k + 1]) /\ before = OpenAiUsageAfter(c, k)
      BY <1>1 DEF A, UsageAfter
    <3>2. QED
      BY <2>1, <3>1, OpenAiObserved
  <2>3. QED
    BY <1>1, <2>2 DEF UsageAfter
<1>2. CASE r = "anthropic"
  <2>1. AnthropicAt(c, A)
    BY <1>2, AnthropicPlaces
  <2> HIDE DEF A
  <2>2. (IF HasValue(event)
            /\ ValueOf(event).type \in {"message_start", "message_delta"}
         THEN Merge(ValueOf(event).usage, before) ELSE before)
          = AnthropicUsageAfter(c, k + 1)
    <3>1. /\ ControlAccepted("anthropic", c) /\ k + 1 <= Len(A)
          /\ event = LinesOf("anthropic", A[k + 1])
          /\ before = AnthropicUsageAfter(c, k)
      BY <1>2 DEF A, UsageAfter
    <3>2. QED
      BY <2>1, <3>1, AnthropicObserved
  <2>3. QED
    BY <1>2, <2>2 DEF UsageAfter
<1>3. QED
  BY <1>1, <1>2 DEF Routes

LEMMA EventAnswer == route \in Routes /\ Streamed /\ EventTaken => Streamed'
<1> SUFFICES ASSUME route \in Routes, Streamed, EventTaken PROVE Streamed'
  OBVIOUS
<1>1. PICK T, k, m : Seen(T, k, m)
  BY DEF Streamed
<1>2. /\ outcome = "open" /\ TakeNextEvent /\ Observe(Last(events'))
      /\ UNCHANGED <<route, control, remaining, outcome, charge>>
  BY DEF EventTaken
<1>3. wire \in Seq(T) /\ buffer \in Seq(T) /\ Len(buffer) \in Nat
  BY <1>1 DEF Seen
<1>4. PICK p, n :
        /\ EarliestAt(buffer, p, n)
        /\ events' = Append(events, SubSeq(buffer, 1, p))
        /\ buffer' = SubSeq(buffer, p + n + 1, Len(buffer))
        /\ buffer' \in Seq(T)
        /\ UNCHANGED <<wire, fed>>
  BY <1>2, <1>3, EarliestTaken
<1> DEFINE W == Wire(route, control)
           A == StreamingEvents(route, control)
           left == remaining
           bytes == buffer \o wire
           x == LinesOf(route, A[k + 1])
<1>5. InTransit(T, W, left, bytes, k, m) /\ k \in Nat
  BY <1>1 DEF Seen, InTransit
<1>6. k # m
  <2>1. SUFFICES ASSUME k = m PROVE FALSE
    OBVIOUS
  <2> HIDE DEF bytes
  <2>2. bytes = <<>>
    BY <1>5, <2>1, TransitEmpty
  <2>3. Len(bytes) = Len(buffer) + Len(wire) /\ Len(wire) \in Nat
    BY <1>3, JoinCounted DEF bytes
  <2>4. Len(buffer) = 0
    <3>1. Len(<<>>) = 0
      OBVIOUS
    <3>2. QED
      BY <1>3, <2>2, <2>3, <3>1
  <2>5. /\ p \in Nat /\ n \in Nat /\ p + n <= Len(buffer)
        /\ SeparatorAt(buffer, p, n)
    BY <1>4 DEF EarliestAt
  <2>6. n \in 2..4
    BY <2>5, SeparatorsNest
  <2>7. QED
    BY <2>4, <2>5, <2>6
<1> HIDE DEF W, bytes
<1>7. PICK rest \in Seq(T) :
        bytes = W[k + 1] \o rest /\ InTransit(T, W, left, rest, k + 1, m)
  BY <1>5, <1>6, TransitTakes
<1>8. k + 1 <= Len(W) /\ W[k + 1] \in Seq(T)
  BY <1>5, <1>6, TransitTakes
<1>9. k + 1 <= Len(A) /\ W[k + 1] = BytesOf(route, A[k + 1])
  <2>1. /\ Len(A) \in Nat /\ Len(W) = Len(A)
        /\ \A i \in 1..Len(W) : W[i] = BytesOf(route, A[i])
    BY WireTyped DEF Streamed, W
  <2>2. k + 1 \in 1..Len(W)
    BY <1>5, <1>8, <2>1
  <2>3. QED
    BY <1>8, <2>1, <2>2
<1> HIDE DEF A
<1>10. /\ SubSeq(buffer, 1, p) = x
       /\ SubSeq(buffer, p + n + 1, Len(buffer)) \o wire = rest
  <2> DEFINE e == A[k + 1]
  <2>1. BytesOf(route, e) \in Seq(T)
    BY <1>8, <1>9
  <2>2. buffer \o wire = BytesOf(route, e) \o rest
    BY <1>7, <1>9 DEF bytes
  <2>3. EarliestAt(buffer, p, n)
    BY <1>4
  <2>4. buffer \in Seq(T) /\ wire \in Seq(T) /\ rest \in Seq(T) /\ route \in Routes
    BY <1>3
  <2> HIDE DEF e
  <2>5. CutOut(buffer, wire, p, n, LinesOf(route, e), rest)
    BY ONLY <2>1, <2>2, <2>3, <2>4, EventCutOut
  <2>6. QED
    BY <2>5 DEF e, CutOut
<1> HIDE DEF x
<1>11. events' = Lines(route, control, k + 1) /\ Last(events') = x
  <2>1. events' = Append(Lines(route, control, k), x)
    BY <1>1, <1>4, <1>10 DEF Seen
  <2>2. QED
    BY <1>5, <2>1, LinesGrow DEF x, A
<1>12. usage' = UsageAfter(route, control, k + 1)
  <2>1. UsageAfter(route, control, k + 1) =
          IF route = "openai"
          THEN IF HasValue(x) /\ OpenAiTotal(ValueOf(x).usage) # None
               THEN ValueOf(x).usage ELSE usage
          ELSE IF HasValue(x) /\ ValueOf(x).type \in {"message_start", "message_delta"}
               THEN Merge(ValueOf(x).usage, usage) ELSE usage
    <3>1. control \in Controls /\ ControlAccepted(route, control)
      BY DEF Streamed
    <3>2. /\ x = LinesOf(route, StreamingEvents(route, control)[k + 1])
          /\ usage = UsageAfter(route, control, k)
          /\ k + 1 <= Len(StreamingEvents(route, control)) /\ k \in Nat
      BY <1>1, <1>5, <1>9 DEF Seen, A, x
    <3>3. QED
      BY <3>1, <3>2, EventObserved
  <2>2. Observe(x)
    BY <1>2, <1>11
  <2>3. QED
    BY <2>1, <2>2 DEF Observe, ObserveOpenAi, ObserveAnthropic
<1>13. InTransit(T, W, remaining', buffer' \o wire', k + 1, m)
  BY <1>2, <1>4, <1>7, <1>10
<1>14. Seen(T, k + 1, m)'
  <2>1. wire' \in Seq(T) /\ buffer' \in Seq(T)
    BY <1>3, <1>4
  <2>2. QED
    BY <1>2, <1>11, <1>12, <1>13, <2>1 DEF Seen, W
<1>15. QED
  BY <1>2, <1>14 DEF Streamed

LEMMA RecordAnswer == route \in Routes /\ Streamed /\ RecordObservedUsage => Streamed'
<1> SUFFICES ASSUME route \in Routes, Streamed, RecordObservedUsage PROVE Streamed'
  OBVIOUS
<1>1. PICK T, k, m : Seen(T, k, m)
  BY DEF Streamed
<1>2. /\ ~HasEvent /\ outcome' \in {"failed", "complete"}
      /\ outcome' = "complete" => remaining = <<>> /\ wire = <<>>
      /\ charge' = TotalTokens(usage)
      /\ UNCHANGED <<wire, buffer, events, route, control, remaining, usage>>
  BY DEF RecordObservedUsage
<1> DEFINE W == Wire(route, control)
           A == StreamingEvents(route, control)
<1>3. buffer \in Seq(T) /\ wire \in Seq(T) /\ Len(buffer) \in Nat
  BY <1>1 DEF Seen
<1>4. ASSUME outcome' = "complete" PROVE k = Len(W)
  <2>1. InTransit(T, W, <<>>, buffer, k, m)
    <3>1. remaining = <<>> /\ buffer \o wire = buffer
      BY <1>2, <1>3, <1>4
    <3>2. QED
      BY <1>1, <3>1 DEF Seen
  <2> HIDE DEF W
  <2>2. m = Len(W)
    BY <2>1, TransitAllSent
  <2>3. SUFFICES ASSUME k # m PROVE FALSE
    BY <2>2
  <2>4. PICK rest \in Seq(T) :
          buffer = W[k + 1] \o rest /\ InTransit(T, W, <<>>, rest, k + 1, m)
    BY <2>1, <2>3, TransitTakes
  <2>5. k + 1 <= Len(W) /\ W[k + 1] \in Seq(T) /\ k \in Nat
    BY <2>1, <2>3, TransitTakes DEF InTransit
  <2>6. W[k + 1] = BytesOf(route, A[k + 1])
    <3>1. /\ Len(A) \in Nat /\ Len(W) = Len(A)
          /\ \A i \in 1..Len(W) : W[i] = BytesOf(route, A[i])
      BY WireTyped DEF Streamed, W
    <3>2. k + 1 \in 1..Len(W)
      BY <2>5, <3>1
    <3>3. QED
      BY <3>1, <3>2
  <2> DEFINE b == W[k + 1]
             p == Len(LinesOf(route, A[k + 1]))
  <2>7. b \in Seq(T) /\ b = BytesOf(route, A[k + 1]) /\ buffer = b \o rest
    BY <2>4, <2>5, <2>6
  <2> HIDE DEF b, A
  <2>8. StartsWith(buffer, BytesOf(route, A[k + 1]))
    <3>1. \A i \in 1..Len(b) : (b \o rest)[i] = b[i]
      BY <2>7, JoinElements
    <3>2. QED
      BY <2>7, <3>1 DEF StartsWith
  <2>9. p \in Nat /\ Len(b) = p + 2 /\ SeparatorAt(buffer, p, 2)
    BY <2>7, <2>8, EventEnd DEF FirstEndsAt
  <2> HIDE DEF p
  <2>10. p + 2 <= Len(buffer)
    <3>1. Len(b \o rest) = Len(b) + Len(rest) /\ Len(rest) \in Nat
      BY <2>7, JoinCounted
    <3>2. QED
      BY <2>7, <2>9, <3>1
  <2>11. <<p, 2>> \in SeparatorsIn(buffer)
    BY <1>3, <2>9, <2>10, SeparatorsFound, 2 \in Nat
  <2>12. QED
    BY <1>2, <2>11 DEF HasEvent
<1>5. Seen(T, k, m)'
  BY <1>1, <1>2, <1>4 DEF Seen
<1>6. charge' = TotalTokens(usage)'
  BY <1>2 DEF TotalTokens
<1>7. QED
  BY <1>2, <1>5, <1>6 DEF Streamed

LEMMA AnswerInductive == Spec => []AnswerInv
<1>1. Init => AnswerInv
  BY InitAnswer
<1>2. AnswerInv /\ [Next]_vars => AnswerInv'
  <2> SUFFICES ASSUME AnswerInv, [Next]_vars PROVE AnswerInv'
    OBVIOUS
  <2>1. ASSUME Next PROVE outcome = "open" /\ route' = route
    BY <2>1 DEF Next, PollNext, ChunkArrives, EventTaken, RecordObservedUsage
  <2>2. CASE Next /\ route \in Routes
    <3>1. Streamed
      BY <2>1, <2>2 DEF AnswerInv
    <3>2. Streamed'
      BY <2>2, <3>1, PollAnswer, ChunkAnswer, EventAnswer, RecordAnswer DEF Next
    <3>3. QED
      BY <3>2 DEF AnswerInv
  <2>3. CASE Next /\ route \notin Routes
    BY <2>1, <2>3 DEF AnswerInv
  <2>4. CASE UNCHANGED vars
    BY <2>4 DEF vars, AnswerInv, Streamed, Seen, TotalTokens
  <2>5. QED
    BY <2>2, <2>3, <2>4
<1>3. QED
  BY <1>1, <1>2, PTL DEF Spec

-----------------------------------------------------------------------------
(* What a stream is charged.                                               *)

AnthropicSum(c, o) == c.cacheCreation + c.cacheRead + InputTokens + o

LEMMA FourFinite ==
  ASSUME NEW w, NEW x, NEW y, NEW z
  PROVE  IsFiniteSet({w, x, y, z})
<1>1. IsFiniteSet({w})
  BY FS_Singleton
<1>2. IsFiniteSet({w} \cup {x})
  BY <1>1, FS_AddElement
<1>3. IsFiniteSet(({w} \cup {x}) \cup {y})
  BY <1>2, FS_AddElement
<1>4. IsFiniteSet((({w} \cup {x}) \cup {y}) \cup {z})
  BY <1>3, FS_AddElement
<1>5. {w, x, y, z} = (({w} \cup {x}) \cup {y}) \cup {z}
  OBVIOUS
<1>6. QED
  BY <1>4, <1>5

LEMMA AnthropicUsageSum ==
  ASSUME NEW c \in Controls, NEW o \in Nat
  PROVE  SumFunction(AnthropicUsage(c, o)) = AnthropicSum(c, o)
<1> DEFINE creation == "cache_creation_input_tokens"
           read == "cache_read_input_tokens"
           input == "input_tokens"
           output == "output_tokens"
           S == {creation, read, input, output}
           f0 == [x \in S |-> 0]
           f1 == [x \in S |-> IF x = creation THEN c.cacheCreation ELSE 0]
           f2 == [x \in S |-> IF x = creation THEN c.cacheCreation
                              ELSE IF x = read THEN c.cacheRead ELSE 0]
           f3 == [x \in S |-> IF x = creation THEN c.cacheCreation
                              ELSE IF x = read THEN c.cacheRead
                              ELSE IF x = input THEN InputTokens ELSE 0]
           f4 == [x \in S |-> IF x = creation THEN c.cacheCreation
                              ELSE IF x = read THEN c.cacheRead
                              ELSE IF x = input THEN InputTokens ELSE o]
<1>1. /\ c.cacheCreation \in Int /\ c.cacheRead \in Int /\ InputTokens \in Int
      /\ o \in Int /\ 0 \in Int
  BY ControlTyped, MockAssumption
<1>2. AnthropicUsage(c, o) = f4
  BY DEF AnthropicUsage
<1>3. IsFiniteSet(S)
  BY FourFinite
<1>4. /\ f0 \in [S -> Int] /\ f1 \in [S -> Int] /\ f2 \in [S -> Int]
      /\ f3 \in [S -> Int] /\ f4 \in [S -> Int]
  BY <1>1
<1>5. creation \in S /\ read \in S /\ input \in S /\ output \in S
  OBVIOUS
<1>6. /\ \A x \in S \ {creation} : f0[x] = f1[x]
      /\ \A x \in S \ {read} : f1[x] = f2[x]
      /\ \A x \in S \ {input} : f2[x] = f3[x]
      /\ \A x \in S \ {output} : f3[x] = f4[x]
  OBVIOUS
<1>7. /\ f0[creation] = 0 /\ f1[creation] = c.cacheCreation
      /\ f1[read] = 0 /\ f2[read] = c.cacheRead
      /\ f2[input] = 0 /\ f3[input] = InputTokens
      /\ f3[output] = 0 /\ f4[output] = o
  OBVIOUS
<1>8. SumFunction(f0) = 0
  BY <1>3, SumOfZeros
<1> HIDE DEF S, f0, f1, f2, f3, f4
<1>9. SumFunction(f1) = SumFunction(f0) - f0[creation] + f1[creation]
  BY <1>3, <1>4, <1>5, <1>6, SumChanges
<1>10. SumFunction(f2) = SumFunction(f1) - f1[read] + f2[read]
  BY <1>3, <1>4, <1>5, <1>6, SumChanges
<1>11. SumFunction(f3) = SumFunction(f2) - f2[input] + f3[input]
  BY <1>3, <1>4, <1>5, <1>6, SumChanges
<1>12. SumFunction(f4) = SumFunction(f3) - f3[output] + f4[output]
  BY <1>3, <1>4, <1>5, <1>6, SumChanges
<1>13. SumFunction(f1) = c.cacheCreation
  BY <1>1, <1>7, <1>8, <1>9
<1>14. SumFunction(f2) = c.cacheCreation + c.cacheRead
  BY <1>1, <1>7, <1>10, <1>13
<1>15. SumFunction(f3) = c.cacheCreation + c.cacheRead + InputTokens
  BY <1>1, <1>7, <1>11, <1>14
<1>16. SumFunction(f4) = c.cacheCreation + c.cacheRead + InputTokens + o
  BY <1>1, <1>7, <1>12, <1>15
<1>17. QED
  BY <1>2, <1>16 DEF AnthropicSum

LEMMA SomeAnthropicTotal ==
  ASSUME NEW c \in Controls, CountsAccepted("anthropic", c),
         NEW o \in Nat, o <= OutputTokens
  PROVE  /\ AnthropicTotal(AnthropicUsage(c, o)) = AnthropicSum(c, o)
         /\ AnthropicSum(c, o) \in Nat
         /\ AnthropicSum(c, o) <= AnthropicSum(c, OutputTokens)
<1> DEFINE u == AnthropicUsage(c, o)
           total == AnthropicSum(c, o)
<1>1. /\ c.cacheCreation \in Nat /\ c.cacheRead \in Nat /\ InputTokens \in Nat
      /\ OutputTokens \in Nat /\ CountModulus \in Nat \ {0}
      /\ c.cacheCreation + c.cacheRead + InputTokens + OutputTokens < CountModulus
  <2>1. "anthropic" # "openai"
    OBVIOUS
  <2>2. {c.cacheCreation, c.cacheRead} \subseteq 0..MaxTokenCount
    BY <2>1 DEF CountsAccepted
  <2>3. /\ MaxTokenCount \in Nat /\ InputTokens \in Nat /\ OutputTokens \in Nat
    BY MockAssumption
  <2>4. /\ c.cacheCreation \in Nat /\ c.cacheCreation <= MaxTokenCount
        /\ c.cacheRead \in Nat /\ c.cacheRead <= MaxTokenCount
    BY <2>2, <2>3
  <2>5. /\ CountModulus \in Nat \ {0}
        /\ 2 * MaxTokenCount + InputTokens + OutputTokens < CountModulus
    BY UsageAssumption
  <2>6. QED
    BY <2>3, <2>4, <2>5
<1>2. /\ total \in Nat /\ total < CountModulus
      /\ total <= AnthropicSum(c, OutputTokens)
  BY <1>1 DEF AnthropicSum
<1>3. DOMAIN u # {}
  BY DEF AnthropicUsage
<1>4. SumFunction(u) = total
  BY AnthropicUsageSum
<1> HIDE DEF u, total
<1>5. total % CountModulus = total
  BY <1>1, <1>2
<1>6. AnthropicTotal(u) = total
  BY <1>3, <1>4, <1>5 DEF AnthropicTotal
<1>7. QED
  BY <1>2, <1>6 DEF u, total

LEMMA NoAnthropicTotal == AnthropicTotal(NoUsage) = None
BY DEF AnthropicTotal, NoUsage

(* A stream is charged what a JSON body would be, or less, or nothing that *)
(* is known (openai.rs and anthropic.rs), wherever its chunks are cut.     *)
THEOREM ChargedLikeBody == Spec => []StreamChargedLikeBody
<1>1. AnswerInv => StreamChargedLikeBody
  <2> SUFFICES ASSUME AnswerInv, Answered
               PROVE  LET body == CompletedResponseTokens([status |-> 200,
                                          usage |-> BodyUsage(route, control)])
                          finished == outcome = "complete" /\ control.errorAfter = None
                      IN  IF finished /\ (route = "openai" => control.includeUsage)
                          THEN charge = body
                          ELSE charge # None =>
                                 charge <= body /\ (route = "openai" => control.includeUsage)
    BY DEF StreamChargedLikeBody
  <2> DEFINE response == [status |-> 200, usage |-> BodyUsage(route, control)]
             body == CompletedResponseTokens(response)
             A == StreamingEvents(route, control)
             n == SentChunks(control)
  <2>1. Streamed /\ route \in Routes /\ outcome \in {"complete", "failed"}
    BY DEF AnswerInv, Answered
  <2>2. PICK T, k, m : Seen(T, k, m)
    BY <2>1 DEF Streamed
  <2>3. /\ control \in Controls /\ ControlAccepted(route, control)
        /\ charge = TotalTokens(UsageAfter(route, control, k))
    BY <2>1, <2>2 DEF Streamed, Seen
  <2>4. k \in Nat /\ (outcome = "complete" => k = Len(A))
    <3>1. Len(Wire(route, control)) = Len(A)
      BY <2>1, <2>3, WireTyped
    <3>2. QED
      BY <2>2, <3>1 DEF Seen, InTransit
  <2>5. body = TotalTokens(BodyUsage(route, control))
    <3>1. response.status = 200 /\ response.usage = BodyUsage(route, control)
      OBVIOUS
    <3>2. 200 \notin 400..499
      OBVIOUS
    <3> HIDE DEF response
    <3>3. QED
      BY <3>1, <3>2 DEF CompletedResponseTokens
  <2>6. n \in Nat
    BY <2>1, <2>3, SentTyped
  <2> HIDE DEF body, A, n
  <2>7. CASE route = "openai"
    <3> DEFINE t == control.prompt + control.completion
    <3>1. t \in Nat /\ t # None /\ OpenAiTotal(OpenAiUsage(control)) = t
      BY <2>3, ControlTyped, SomeOpenAiTotal
    <3>2. body = t
      BY <2>5, <2>7, <3>1 DEF TotalTokens, BodyUsage
    <3>3. charge = OpenAiTotal(OpenAiUsageAfter(control, k))
      BY <2>3, <2>7 DEF TotalTokens, UsageAfter
    <3> HIDE DEF t
    <3>4. ASSUME outcome = "complete", control.errorAfter = None, control.includeUsage
          PROVE  charge = body
      <4>1. k = n + 4
        <5>1. OpenAiAt(control, A)
          BY <2>3, <2>7, OpenAiPlaces DEF A
        <5>2. QED
          BY <2>4, <3>4, <5>1 DEF OpenAiAt, n
      <4>2. k >= n + 3
        BY <2>6, <4>1
      <4>3. OpenAiUsageAfter(control, k) = OpenAiUsage(control)
        BY <3>4, <4>2 DEF OpenAiUsageAfter, n
      <4>4. QED
        BY <3>1, <3>2, <3>3, <4>3
    <3>5. ASSUME charge # None PROVE charge = body /\ control.includeUsage
      <4>1. OpenAiUsageAfter(control, k) = OpenAiUsage(control) /\ control.includeUsage
        BY <3>3, <3>5, NoOpenAiTotal DEF OpenAiUsageAfter
      <4>2. QED
        BY <3>1, <3>2, <3>3, <4>1
    <3>6. charge = body => charge <= body
      BY <3>1, <3>2
    <3>7. QED
      BY <2>7, <3>4, <3>5, <3>6 DEF body
  <2>8. CASE route = "anthropic"
    <3> DEFINE t(o) == AnthropicSum(control, o)
    <3>1. 1 \in Nat /\ OutputTokens \in Nat /\ 1 <= OutputTokens
          /\ OutputTokens <= OutputTokens
      BY MockAssumption
    <3>2. /\ AnthropicTotal(AnthropicUsage(control, OutputTokens)) = t(OutputTokens)
          /\ t(OutputTokens) \in Nat
      BY <2>3, <2>8, <3>1, SomeAnthropicTotal DEF ControlAccepted
    <3>3. /\ AnthropicTotal(AnthropicUsage(control, 1)) = t(1)
          /\ t(1) \in Nat /\ t(1) <= t(OutputTokens)
      BY <2>3, <2>8, <3>1, SomeAnthropicTotal DEF ControlAccepted
    <3>4. route # "openai"
      BY <2>8
    <3>5. body = t(OutputTokens)
      BY <2>5, <3>2, <3>4 DEF TotalTokens, BodyUsage
    <3>6. charge = AnthropicTotal(AnthropicUsageAfter(control, k))
      BY <2>3, <3>4 DEF TotalTokens, UsageAfter
    <3> HIDE DEF t
    <3>7. ASSUME outcome = "complete", control.errorAfter = None
          PROVE  charge = body
      <4>1. k = n + 5
        <5>1. AnthropicAt(control, A)
          BY <2>3, <2>8, AnthropicPlaces DEF A
        <5>2. QED
          BY <2>4, <3>7, <5>1 DEF AnthropicAt, n
      <4>2. k >= n + 4 /\ k # 0
        BY <2>6, <4>1
      <4>3. AnthropicUsageAfter(control, k) = AnthropicUsage(control, OutputTokens)
        BY <3>7, <4>2 DEF AnthropicUsageAfter, n
      <4>4. QED
        BY <3>2, <3>5, <3>6, <4>3
    <3>8. ASSUME charge # None PROVE charge <= body
      <4>1. \/ AnthropicUsageAfter(control, k) = AnthropicUsage(control, OutputTokens)
            \/ AnthropicUsageAfter(control, k) = AnthropicUsage(control, 1)
        BY <3>6, <3>8, NoAnthropicTotal DEF AnthropicUsageAfter
      <4>2. charge = t(OutputTokens) \/ charge = t(1)
        BY <3>2, <3>3, <3>6, <4>1
      <4>3. QED
        BY <3>2, <3>3, <3>5, <4>2
    <3>9. QED
      BY <3>4, <3>7, <3>8 DEF body
  <2>9. QED
    BY <2>1, <2>7, <2>8 DEF Routes, body
<1>2. QED
  BY <1>1, AnswerInductive, PTL

-----------------------------------------------------------------------------
(* The answer's text and its pieces.                                       *)

LEMMA TextTyped ==
  AnswerText \in Seq(Nat) /\ Len(AnswerText) = TextLength /\ TextLength \in Nat
<1>1. TextLength \in Nat
  BY MockAssumption
<1>2. QED
  BY <1>1 DEF AnswerText

(* Where a sequence is cut into n pieces, from its start to its end.       *)
IsCut(P, n) ==
  /\ P \in [0..n -> 0..TextLength]
  /\ P[0] = 0 /\ P[n] = TextLength
  /\ \A i \in 1..n : P[i - 1] <= P[i]

PieceAt(P, i) == SubSeq(AnswerText, P[i - 1] + 1, P[i])

LEMMA SmallerTyped ==
  ASSUME NEW a \in Nat, NEW b \in Nat
  PROVE  /\ Smaller(a, b) \in Nat /\ Smaller(a, b) <= a /\ Smaller(a, b) <= b
         /\ a <= b => Smaller(a, b) = a
         /\ b <= a => Smaller(a, b) = b
BY DEF Smaller

LEMMA TextCut ==
  ASSUME NEW count \in Nat \ {0}
  PROVE  \E P : IsCut(P, count) /\ \A i \in 1..count : SplitText(count)[i] = PieceAt(P, i)
<1> DEFINE base == TextLength \div count
           larger == TextLength % count
           Offset(i) == i * base + Smaller(i, larger)
           P == [i \in 0..count |-> Offset(i)]
<1>1. /\ base \in Nat /\ larger \in Nat /\ larger < count
      /\ TextLength = count * base + larger
  BY TextTyped
<1>2. \A i \in 1..count : SplitText(count)[i] = SubSeq(AnswerText, Offset(i - 1) + 1, Offset(i))
  BY DEF SplitText
<1> HIDE DEF base, larger
<1>3. \A i \in Nat : i * base \in Nat /\ (i + 1) * base = i * base + base
  BY <1>1
<1>4. \A i \in Nat : Offset(i) \in Nat
  BY <1>1, <1>3, SmallerTyped
<1>5. \A i \in Nat : Offset(i) <= Offset(i + 1)
  <2> TAKE i \in Nat
  <2>1. Smaller(i, larger) \in Nat /\ Smaller(i + 1, larger) \in Nat
        /\ Smaller(i, larger) <= Smaller(i + 1, larger)
    BY <1>1 DEF Smaller
  <2>2. i * base <= (i + 1) * base /\ i * base \in Nat /\ (i + 1) * base \in Nat
    BY <1>1, <1>3
  <2> DEFINE x == i * base
             y == (i + 1) * base
  <2>3. x \in Nat /\ y \in Nat /\ x <= y
    BY <2>2
  <2> HIDE DEF x, y
  <2>4. x + Smaller(i, larger) <= y + Smaller(i + 1, larger)
    BY <2>1, <2>3
  <2>5. QED
    BY <2>4 DEF x, y
<1>6. Offset(0) = 0 /\ Offset(count) = TextLength
  <2>1. 0 * base = 0 /\ Smaller(0, larger) = 0
    BY <1>1, SmallerTyped
  <2>2. Smaller(count, larger) = larger
    BY <1>1, SmallerTyped
  <2>3. QED
    BY <1>1, <2>1, <2>2
<1> HIDE DEF Offset
<1>7. \A i \in 0..count : Offset(i) <= TextLength
  <2> DEFINE B == {j \in Nat : j <= count => Offset(count - j) <= TextLength}
  <2>1. 0 \in B
    BY <1>6, TextTyped
  <2>2. ASSUME NEW j \in B PROVE j + 1 \in B
    <3> SUFFICES ASSUME j + 1 <= count PROVE Offset(count - (j + 1)) <= TextLength
      OBVIOUS
    <3> DEFINE i == count - (j + 1)
    <3>1. i \in Nat /\ i + 1 = count - j /\ count - j \in Nat
      OBVIOUS
    <3>2. Offset(i + 1) <= TextLength
      BY <3>1
    <3> HIDE DEF i
    <3>3. Offset(i) <= TextLength
      BY <1>4, <1>5, <3>1, <3>2, TextTyped
    <3>4. QED
      BY <3>3 DEF i
  <2>3. B = Nat
    <3> HIDE DEF B
    <3> QED BY <2>1, <2>2, NaturalsFromZero DEF B
  <2>4. \A i \in 0..count : count - i \in Nat /\ count - i <= count /\ count - (count - i) = i
    OBVIOUS
  <2>5. QED
    BY <2>3, <2>4
<1>8. P \in [0..count -> 0..TextLength]
  BY <1>4, <1>7, TextTyped
<1>9. \A i \in 1..count : i \in 0..count /\ i - 1 \in 0..count /\ (i - 1) + 1 = i
  OBVIOUS
<1>10. \A i \in 1..count : P[i] = Offset(i) /\ P[i - 1] = Offset(i - 1)
  BY <1>9
<1>11. \A i \in 1..count : P[i - 1] <= P[i]
  <2>1. \A i \in 1..count : i - 1 \in Nat
    OBVIOUS
  <2>2. QED
    BY <1>5, <1>9, <1>10, <2>1
<1>12. P[0] = 0 /\ P[count] = TextLength
  BY <1>6
<1> HIDE DEF P
<1>13. \A i \in 1..count : SplitText(count)[i] = PieceAt(P, i)
  BY <1>2, <1>10 DEF PieceAt, Offset
<1>14. QED
  BY <1>8, <1>11, <1>12, <1>13 DEF IsCut

LEMMA InputCut ==
  ASSUME NEW count \in Nat \ {0}
  PROVE  \E P : IsCut(P, count) /\ \A i \in 1..count : SplitToolInput(count)[i] = PieceAt(P, i)
<1> DEFINE size == (TextLength + count - 1) \div count
           Offset(i) == Smaller(i * size, TextLength)
           P == [i \in 0..count |-> Offset(i)]
<1>1. size \in Nat /\ TextLength <= count * size
  <2> DEFINE a == TextLength + count - 1
  <2>1. a \in Nat
    BY TextTyped
  <2> HIDE DEF a
  <2>2. /\ a \div count \in Nat /\ a % count \in 0..(count - 1)
        /\ a = count * (a \div count) + (a % count)
    BY <2>1
  <2> DEFINE q == a \div count
             w == count * q
  <2>3. w \in Nat /\ a = w + (a % count)
    BY <2>2
  <2> HIDE DEF w
  <2>4. TextLength <= w
    BY <2>2, <2>3, TextTyped DEF a
  <2>5. QED
    BY <2>2, <2>4 DEF w, a
<1>2. \A i \in 1..count : SplitToolInput(count)[i] =
        SubSeq(AnswerText, (i - 1) * size + 1, Smaller(i * size, TextLength))
  BY DEF SplitToolInput
<1> HIDE DEF size
<1>3. \A i \in Nat : i * size \in Nat /\ (i + 1) * size = i * size + size
  BY <1>1
<1>4. \A i \in Nat : Offset(i) \in 0..TextLength
  <2> TAKE i \in Nat
  <2> DEFINE x == i * size
  <2>1. x \in Nat
    BY <1>3
  <2> HIDE DEF x
  <2>2. Smaller(x, TextLength) \in 0..TextLength
    BY <2>1, SmallerTyped, TextTyped
  <2>3. QED
    BY <2>2 DEF x
<1>5. \A i \in Nat : Offset(i) <= Offset(i + 1)
  <2> TAKE i \in Nat
  <2> DEFINE x == i * size
             y == (i + 1) * size
  <2>1. x \in Nat /\ y \in Nat /\ x <= y
    BY <1>1, <1>3
  <2> HIDE DEF x, y
  <2>2. Smaller(x, TextLength) <= Smaller(y, TextLength)
    BY <2>1, TextTyped DEF Smaller
  <2>3. QED
    BY <2>2 DEF x, y
<1>6. Offset(0) = 0 /\ Offset(count) = TextLength
  <2>1. 0 * size = 0 /\ Smaller(0, TextLength) = 0
    BY <1>1, SmallerTyped, TextTyped
  <2>2. count * size \in Nat
    BY <1>3
  <2>3. QED
    BY <1>1, <2>1, <2>2, SmallerTyped, TextTyped
<1>7. \A i \in 1..count : SplitToolInput(count)[i] =
        SubSeq(AnswerText, Offset(i - 1) + 1, Offset(i))
  <2> TAKE i \in 1..count
  <2> DEFINE x == (i - 1) * size
             y == i * size
  <2>1. x \in Nat /\ y \in Nat /\ x <= y
    <3>1. i - 1 \in Nat /\ (i - 1) + 1 = i /\ i \in Nat
      OBVIOUS
    <3>2. QED
      BY <1>1, <1>3, <3>1
  <2>2. SplitToolInput(count)[i] = SubSeq(AnswerText, x + 1, Smaller(y, TextLength))
    BY <1>2
  <2> HIDE DEF x, y
  <2>3. CASE x <= TextLength
    <3>1. Smaller(x, TextLength) = x
      BY <2>1, <2>3, SmallerTyped, TextTyped
    <3>2. QED
      BY <2>2, <3>1 DEF x, y
  <2>4. CASE TextLength <= x
    <3>1. Smaller(x, TextLength) = TextLength /\ Smaller(y, TextLength) = TextLength
      BY <2>1, <2>4, SmallerTyped, TextTyped
    <3>2. SubSeq(AnswerText, x + 1, TextLength) = <<>>
      <4>1. \A s \in Seq(Nat) : SubSeq(s, x + 1, TextLength) = <<>>
        BY <2>1, <2>4, TextTyped
      <4>2. QED
        BY <4>1, TextTyped
    <3>3. SubSeq(AnswerText, TextLength + 1, TextLength) = <<>>
      BY TextTyped, SliceNone
    <3>4. QED
      BY <2>2, <3>1, <3>2, <3>3 DEF x, y
  <2>5. QED
    BY <2>1, <2>3, <2>4, TextTyped
<1> HIDE DEF Offset
<1>8. P \in [0..count -> 0..TextLength]
  BY <1>4, TextTyped
<1>9. \A i \in 1..count : i \in 0..count /\ i - 1 \in 0..count /\ (i - 1) + 1 = i
  OBVIOUS
<1>10. \A i \in 1..count : P[i] = Offset(i) /\ P[i - 1] = Offset(i - 1)
  BY <1>9
<1>11. \A i \in 1..count : P[i - 1] <= P[i]
  <2>1. \A i \in 1..count : i - 1 \in Nat
    OBVIOUS
  <2>2. QED
    BY <1>5, <1>9, <1>10, <2>1
<1>12. P[0] = 0 /\ P[count] = TextLength
  BY <1>6
<1> HIDE DEF P
<1>13. \A i \in 1..count : SplitToolInput(count)[i] = PieceAt(P, i)
  BY <1>7, <1>10 DEF PieceAt
<1>14. QED
  BY <1>8, <1>11, <1>12, <1>13 DEF IsCut

LEMMA PiecesCut ==
  ASSUME NEW r \in Routes, NEW c, ControlAccepted(r, c)
  PROVE  \E P : IsCut(P, c.chunks) /\ \A i \in 1..c.chunks : Pieces(r, c)[i] = PieceAt(P, i)
<1>1. c.chunks \in Nat \ {0}
  BY SentTyped
<1>2. QED
  BY <1>1, TextCut, InputCut DEF Pieces

(* Where the content is among the events: after the first f of them.       *)
Opening == [openai |-> 1, anthropic |-> 2]

ContentPlaced(r, c, A) ==
  LET f == Opening[r]
      n == SentChunks(c)
  IN  /\ Len(A) \in Nat /\ f + n <= Len(A)
      /\ \A i \in 1..Len(A) :
           IF i - f \in 1..n THEN A[i] = DeltaAt(r, c, i - f)
           ELSE \E t, u : A[i] = EventOf(t, <<>>, u) /\ t # "delta"
      /\ c.errorAfter # None => A[Len(A)] = Plain("error")

LEMMA OpenAiContent ==
  ASSUME NEW c, ControlAccepted("openai", c), NEW A, OpenAiAt(c, A)
  PROVE  ContentPlaced("openai", c, A)
<1> DEFINE n == SentChunks(c)
<1>1. n \in Nat
  BY SentTyped DEF Routes
<1>2. Opening["openai"] = 1
  BY DEF Opening
<1>3. Len(A) \in Nat
  BY DEF OpenAiAt
<1>4. 1 + n <= Len(A)
  BY <1>1, <1>3 DEF OpenAiAt
<1>5. ASSUME NEW i \in 1..Len(A)
      PROVE  IF i - 1 \in 1..n THEN A[i] = DeltaAt("openai", c, i - 1)
             ELSE \E t, u : A[i] = EventOf(t, <<>>, u) /\ t # "delta"
  <2>1. i = 1 \/ i - 1 \in 1..n \/ i = n + 2 \/ i = n + 3 \/ i = n + 4
    BY <1>1, <1>3 DEF OpenAiAt
  <2>2. CASE i - 1 \in 1..n
    <3>1. 1 + (i - 1) = i
      OBVIOUS
    <3>2. QED
      BY <2>2, <3>1 DEF OpenAiAt
  <2>3. CASE i = 1
    BY <1>1, <2>3 DEF OpenAiAt, Plain
  <2>4. ASSUME i = n + 2 \/ i = n + 3 \/ i = n + 4
        PROVE  \E t, u : A[i] = EventOf(t, <<>>, u) /\ t # "delta"
    <3>1. CASE i = n + 2
      BY <1>1, <3>1 DEF OpenAiAt, Plain
    <3>2. CASE i = n + 3
      <4>1. c.errorAfter = None
        BY <1>1, <1>3, <3>2 DEF OpenAiAt
      <4>2. QED
        BY <3>2, <4>1 DEF OpenAiAt, Plain
    <3>3. CASE i = n + 4
      <4>1. c.errorAfter = None /\ c.includeUsage
        BY <1>1, <1>3, <3>3 DEF OpenAiAt
      <4>2. QED
        BY <3>3, <4>1 DEF OpenAiAt, Plain
    <3>4. QED
      BY <2>4, <3>1, <3>2, <3>3
  <2>5. i = n + 2 \/ i = n + 3 \/ i = n + 4 => i - 1 \notin 1..n
    BY <1>1
  <2>6. QED
    BY <2>1, <2>2, <2>3, <2>4, <2>5
<1>6. c.errorAfter # None => A[Len(A)] = Plain("error")
  BY DEF OpenAiAt
<1>7. QED
  BY <1>2, <1>3, <1>4, <1>5, <1>6 DEF ContentPlaced

LEMMA AnthropicContent ==
  ASSUME NEW c, ControlAccepted("anthropic", c), NEW A, AnthropicAt(c, A)
  PROVE  ContentPlaced("anthropic", c, A)
<1> DEFINE n == SentChunks(c)
<1>1. n \in Nat
  BY SentTyped DEF Routes
<1>2. Opening["anthropic"] = 2
  BY DEF Opening
<1>3. Len(A) \in Nat
  BY DEF AnthropicAt
<1>4. 2 + n <= Len(A)
  BY <1>1, <1>3 DEF AnthropicAt
<1>5. ASSUME NEW i \in 1..Len(A)
      PROVE  IF i - 2 \in 1..n THEN A[i] = DeltaAt("anthropic", c, i - 2)
             ELSE \E t, u : A[i] = EventOf(t, <<>>, u) /\ t # "delta"
  <2>1. \/ i = 1 \/ i = 2 \/ i - 2 \in 1..n
        \/ i = n + 3 \/ i = n + 4 \/ i = n + 5
    BY <1>1, <1>3 DEF AnthropicAt
  <2>2. CASE i - 2 \in 1..n
    <3>1. 2 + (i - 2) = i
      OBVIOUS
    <3>2. QED
      BY <2>2, <3>1 DEF AnthropicAt
  <2>3. ASSUME i = 1 \/ i = 2
        PROVE  \E t, u : A[i] = EventOf(t, <<>>, u) /\ t # "delta"
    BY <2>3 DEF AnthropicAt, Plain
  <2>4. ASSUME i = n + 3 \/ i = n + 4 \/ i = n + 5
        PROVE  \E t, u : A[i] = EventOf(t, <<>>, u) /\ t # "delta"
    <3>1. CASE i = n + 3
      BY <3>1 DEF AnthropicAt, Plain
    <3>2. CASE i = n + 4 \/ i = n + 5
      <4>1. c.errorAfter = None
        BY <1>1, <1>3, <3>2 DEF AnthropicAt
      <4>2. QED
        BY <3>2, <4>1 DEF AnthropicAt, Plain
    <3>3. QED
      BY <2>4, <3>1, <3>2
  <2>5. i \in {1, 2, n + 3, n + 4, n + 5} => i - 2 \notin 1..n
    BY <1>1
  <2>6. QED
    BY <2>1, <2>2, <2>3, <2>4, <2>5
<1>6. c.errorAfter # None => A[Len(A)] = Plain("error")
  BY DEF AnthropicAt
<1>7. QED
  BY <1>2, <1>3, <1>4, <1>5, <1>6 DEF ContentPlaced

LEMMA AnswerContent ==
  ASSUME NEW r \in Routes, NEW c, ControlAccepted(r, c)
  PROVE  /\ ContentPlaced(r, c, StreamingEvents(r, c))
         /\ Opening[r] \in 1..2
BY OpenAiPlaces, AnthropicPlaces, OpenAiContent, AnthropicContent DEF Routes, Opening

LEMMA SliceOfSlice ==
  ASSUME NEW S, NEW s \in Seq(S), NEW a \in Nat, NEW m \in Nat, NEW b \in Nat,
         a <= m, m <= b, b <= Len(s)
  PROVE  /\ SubSeq(s, 1, b) \in Seq(S) /\ Len(SubSeq(s, 1, b)) = b
         /\ SubSeq(SubSeq(s, 1, b), a + 1, m) = SubSeq(s, a + 1, m)
<1> DEFINE t == SubSeq(s, 1, b)
           x == SubSeq(t, a + 1, m)
           y == SubSeq(s, a + 1, m)
<1>0. Len(s) \in Nat /\ m <= Len(s)
  OBVIOUS
<1>1. t \in Seq(S) /\ Len(t) = b /\ \A i \in 1..b : t[i] = s[i]
  OBVIOUS
<1> HIDE DEF t
<1>2. x \in Seq(S) /\ Len(x) = m - a /\ \A i \in 1..(m - a) : x[i] = t[a + i]
  BY <1>1, SliceTyped
<1>3. y \in Seq(S) /\ Len(y) = m - a /\ \A i \in 1..(m - a) : y[i] = s[a + i]
  BY <1>0, SliceTyped
<1> HIDE DEF x, y
<1>4. \A i \in 1..(m - a) : a + i \in 1..b
  OBVIOUS
<1>5. \A i \in 1..Len(x) : x[i] = y[i]
  BY <1>1, <1>2, <1>3, <1>4
<1>6. x = y
  BY <1>2, <1>3, <1>5, SeqEqual
<1>7. QED
  BY <1>1, <1>6 DEF t, x, y

LEMMA SliceJoins ==
  ASSUME NEW S, NEW s \in Seq(S), NEW a \in Nat, NEW b \in Nat, a <= b, b <= Len(s)
  PROVE  SubSeq(s, 1, a) \o SubSeq(s, a + 1, b) = SubSeq(s, 1, b)
<1> DEFINE t == SubSeq(s, 1, b)
<1>1. t \in Seq(S) /\ Len(t) = b /\ SubSeq(t, a + 1, b) = SubSeq(s, a + 1, b)
  BY SliceOfSlice
<1>2. SubSeq(t, 0 + 1, a) = SubSeq(s, 0 + 1, a)
  <2>1. 0 \in Nat /\ 0 <= a
    OBVIOUS
  <2>2. QED
    BY <2>1, SliceOfSlice
<1>3. SubSeq(t, 1, a) = SubSeq(s, 1, a)
  BY <1>2, 0 + 1 = 1
<1> HIDE DEF t
<1>4. t = SubSeq(t, 1, a) \o SubSeq(t, a + 1, Len(t))
  <2>1. a \in 0..Len(t)
    BY <1>1
  <2>2. QED
    BY <1>1, <2>1, CutJoins
<1>5. QED
  BY <1>1, <1>3, <1>4 DEF t

(* The text of the answer's events, and how much of it k of them have.     *)
Texts(r, c) ==
  [i \in 1..Len(StreamingEvents(r, c)) |->
     TextOf(LinesOf(r, StreamingEvents(r, c)[i]))]

PiecesIn(r, c, k) == IF k <= Opening[r] THEN 0 ELSE Smaller(k - Opening[r], SentChunks(c))

LEMMA TextsPlaced ==
  ASSUME NEW r \in Routes, NEW c, ControlAccepted(r, c), NEW P, IsCut(P, c.chunks),
         \A i \in 1..c.chunks : Pieces(r, c)[i] = PieceAt(P, i)
  PROVE  /\ Len(StreamingEvents(r, c)) \in Nat
         /\ Texts(r, c) \in Seq(Seq(Nat))
         /\ Len(Texts(r, c)) = Len(StreamingEvents(r, c))
         /\ \A i \in 1..Len(StreamingEvents(r, c)) :
              Texts(r, c)[i] = IF i - Opening[r] \in 1..SentChunks(c)
                               THEN PieceAt(P, i - Opening[r]) ELSE <<>>
<1> DEFINE A == StreamingEvents(r, c)
           f == Opening[r]
           n == SentChunks(c)
           l == Len(A)
           text(i) == TextOf(LinesOf(r, A[i]))
<1>1. ContentPlaced(r, c, A) /\ f \in 1..2 /\ n \in Nat /\ n <= c.chunks
  BY AnswerContent, SentTyped
<1>2. l \in Nat
  BY <1>1 DEF ContentPlaced
<1>3. ASSUME NEW i \in 1..l
      PROVE  text(i) = IF i - f \in 1..n THEN PieceAt(P, i - f) ELSE <<>>
  <2> DEFINE e == A[i]
             lines == LinesOf(r, e)
  <2>1. ValueOf(lines) = e /\ (HasValue(lines) <=> e.type # "[DONE]")
    BY LinesHaveValue
  <2>2. TextOf(lines) = IF e.type # "[DONE]" THEN e.text ELSE <<>>
    BY <2>1 DEF TextOf
  <2> HIDE DEF lines
  <2>3. CASE i - f \in 1..n
    <3>1. e = EventOf("delta", Pieces(r, c)[i - f], NoUsage)
      BY <1>1, <2>3 DEF ContentPlaced, DeltaAt
    <3>2. e.type = "delta" /\ e.text = Pieces(r, c)[i - f]
      BY <3>1, EventFields
    <3>3. i - f \in 1..c.chunks
      BY <1>1, <2>3, SentTyped
    <3>4. QED
      BY <2>2, <2>3, <3>2, <3>3 DEF lines
  <2>4. CASE i - f \notin 1..n
    <3>1. PICK t, u : e = EventOf(t, <<>>, u)
      BY <1>1, <2>4 DEF ContentPlaced
    <3>2. e.text = <<>>
      BY <3>1, EventFields
    <3>3. QED
      BY <2>2, <2>4, <3>2 DEF lines
  <2>5. QED
    BY <2>3, <2>4
<1>4. ASSUME NEW i \in 1..l PROVE text(i) \in Seq(Nat)
  <2>1. ASSUME i - f \in 1..n PROVE PieceAt(P, i - f) \in Seq(Nat)
    <3> DEFINE j == i - f
    <3>1. j \in 1..c.chunks /\ j \in 0..c.chunks /\ j - 1 \in 0..c.chunks
      BY <1>1, <2>1, SentTyped
    <3>2. /\ P[j - 1] \in 0..TextLength /\ P[j] \in 0..TextLength
          /\ P[j - 1] <= P[j]
      BY <3>1 DEF IsCut
    <3>3. QED
      BY <3>2, TextTyped, SliceTyped DEF PieceAt
  <2>2. <<>> \in Seq(Nat)
    OBVIOUS
  <2>3. QED
    BY <1>3, <2>1, <2>2
<1>5. Texts(r, c) = [i \in 1..l |-> text(i)]
  BY DEF Texts
<1> HIDE DEF l, text
<1>6. /\ [i \in 1..l |-> text(i)] \in Seq(Seq(Nat))
      /\ Len([i \in 1..l |-> text(i)]) = l
      /\ \A j \in 1..l : [i \in 1..l |-> text(i)][j] = text(j)
  BY <1>2, <1>4
<1>7. QED
  BY <1>2, <1>3, <1>5, <1>6 DEF l

LEMMA TextJoins ==
  ASSUME NEW r \in Routes, NEW c, ControlAccepted(r, c), NEW P, IsCut(P, c.chunks),
         \A i \in 1..c.chunks : Pieces(r, c)[i] = PieceAt(P, i),
         NEW k \in Nat, k <= Len(StreamingEvents(r, c))
  PROVE  /\ PiecesIn(r, c, k) \in 0..c.chunks
         /\ FlattenSeq(SubSeq(Texts(r, c), 1, k)) = SubSeq(AnswerText, 1, P[PiecesIn(r, c, k)])
<1> DEFINE X == Texts(r, c)
           f == Opening[r]
           n == SentChunks(c)
           l == Len(StreamingEvents(r, c))
           in(j) == PiecesIn(r, c, j)
           seen(j) == FlattenSeq(SubSeq(X, 1, j)) = SubSeq(AnswerText, 1, P[in(j)])
           B == {j \in Nat : j <= l => seen(j)}
<1>1. /\ X \in Seq(Seq(Nat)) /\ Len(X) = l /\ l \in Nat
      /\ \A i \in 1..l : X[i] = IF i - f \in 1..n THEN PieceAt(P, i - f) ELSE <<>>
  BY TextsPlaced
<1>2. f \in 1..2 /\ n \in Nat /\ n <= c.chunks /\ c.chunks \in Nat
  BY AnswerContent, SentTyped
<1>3. /\ P \in [0..c.chunks -> 0..TextLength] /\ P[0] = 0
      /\ \A i \in 1..c.chunks : P[i - 1] <= P[i]
  BY DEF IsCut
<1> HIDE DEF X, f, n, l
<1>4. \A j \in Nat : in(j) = IF j <= f THEN 0 ELSE Smaller(j - f, n)
  BY DEF PiecesIn, f, n
<1>5. \A j \in Nat : in(j) \in 0..c.chunks
  <2> TAKE j \in Nat
  <2>1. CASE j <= f
    BY <1>2, <1>4, <2>1
  <2>2. CASE ~(j <= f)
    <3>1. j - f \in Nat
      BY <1>2, <2>2
    <3>2. Smaller(j - f, n) \in 0..c.chunks
      BY <1>2, <3>1 DEF Smaller
    <3>3. QED
      BY <1>4, <2>2, <3>2
  <2>3. QED
    BY <2>1, <2>2
<1> HIDE DEF in
<1>6. 0 \in B
  <2>1. in(0) = 0
    <3>1. 0 \in Nat /\ 0 <= f
      BY <1>2
    <3>2. QED
      BY <1>4, <3>1
  <2>2. SubSeq(X, 1, 0) = <<>>
    BY <1>1
  <2>3. SubSeq(AnswerText, 1, 0) = <<>>
    BY TextTyped
  <2>4. seen(0)
    BY <1>3, <2>1, <2>2, <2>3, FlattenNone
  <2>5. QED
    BY <2>4
<1>7. ASSUME NEW j \in B PROVE j + 1 \in B
  <2> SUFFICES ASSUME j + 1 <= l PROVE seen(j + 1)
    OBVIOUS
  <2>1. j \in Nat /\ seen(j)
    BY <1>1
  <2> HIDE DEF B
  <2> DEFINE x == X[j + 1]
             i == (j + 1) - f
  <2>2. x \in Seq(Nat) /\ SubSeq(X, 0 + 1, j + 1) = Append(SubSeq(X, 0 + 1, j), x)
    <3>1. 0 \in Nat /\ 0 <= j /\ j + 1 <= Len(X)
      BY <1>1, <2>1
    <3>2. QED
      BY <1>1, <2>1, <3>1, SliceGrows
  <2>3. SubSeq(X, 0 + 1, j) \in Seq(Seq(Nat))
    <3>1. 0 \in Nat /\ 0 <= j /\ j <= Len(X)
      BY <1>1, <2>1
    <3>2. QED
      BY <1>1, <2>1, <3>1, SliceTyped
  <2>4. x = IF i \in 1..n THEN PieceAt(P, i) ELSE <<>>
    <3>1. j + 1 \in 1..l
      BY <1>1, <2>1
    <3>2. QED
      BY <1>1, <3>1
  <2> HIDE DEF x
  <2>5. FlattenSeq(SubSeq(X, 1, j + 1)) = SubSeq(AnswerText, 1, P[in(j)]) \o x
    <3>1. FlattenSeq(Append(SubSeq(X, 0 + 1, j), x)) = FlattenSeq(SubSeq(X, 0 + 1, j)) \o x
      BY <2>2, <2>3, FlattenAppend
    <3>2. 0 + 1 = 1
      OBVIOUS
    <3>3. QED
      BY <2>1, <2>2, <3>1, <3>2
  <2>6. P[in(j)] \in 0..TextLength
    BY <1>3, <1>5, <2>1
  <2>7. CASE i \in 1..n
    <3>1. in(j) = i - 1 /\ in(j + 1) = i
      <4>1. j + 1 \in Nat /\ ~(j + 1 <= f) /\ (j + 1) - f <= n /\ n \in Nat
        BY <1>2, <2>1, <2>7
      <4>2. in(j + 1) = i
        BY <1>2, <1>4, <2>7, <4>1 DEF Smaller
      <4>3. CASE j <= f
        <5>1. i = 1
          BY <1>2, <2>1, <2>7, <4>3
        <5>2. QED
          BY <1>4, <2>1, <4>2, <4>3, <5>1
      <4>4. CASE ~(j <= f)
        <5>1. j - f < n /\ j - f = i - 1 /\ j - f \in Nat
          BY <1>2, <2>1, <2>7, <4>4
        <5>2. QED
          BY <1>2, <1>4, <2>1, <4>2, <4>4, <5>1 DEF Smaller
      <4>5. QED
        BY <4>3, <4>4
    <3>2. i \in 1..c.chunks /\ i \in 0..c.chunks /\ i - 1 \in 0..c.chunks
      BY <1>2, <2>7
    <3>3. P[i - 1] \in Nat /\ P[i] \in Nat /\ P[i - 1] <= P[i] /\ P[i] <= TextLength
      BY <1>3, <3>2, TextTyped
    <3>4. SubSeq(AnswerText, 1, P[i - 1]) \o SubSeq(AnswerText, P[i - 1] + 1, P[i])
            = SubSeq(AnswerText, 1, P[i])
      BY <3>3, TextTyped, SliceJoins
    <3>5. QED
      BY <2>4, <2>5, <2>7, <3>1, <3>4 DEF PieceAt
  <2>8. CASE i \notin 1..n
    <3>1. in(j + 1) = in(j)
      <4>1. j + 1 \in Nat
        BY <2>1
      <4>2. CASE j + 1 <= f
        <5>1. j <= f
          BY <1>2, <2>1, <4>2
        <5>2. QED
          BY <1>4, <2>1, <4>1, <4>2, <5>1
      <4>3. CASE ~(j + 1 <= f)
        <5>1. i \in Nat /\ i > n
          BY <1>2, <2>1, <2>8, <4>3
        <5>2. in(j + 1) = n
          BY <1>2, <1>4, <4>1, <4>3, <5>1 DEF Smaller
        <5>3. in(j) = n
          <6>1. CASE j <= f
            <7>1. n = 0
              BY <1>2, <2>1, <4>3, <5>1, <6>1
            <7>2. QED
              BY <1>4, <2>1, <6>1, <7>1
          <6>2. CASE ~(j <= f)
            <7>1. j - f \in Nat /\ j - f >= n
              BY <1>2, <2>1, <5>1, <6>2
            <7>2. QED
              BY <1>2, <1>4, <2>1, <6>2, <7>1 DEF Smaller
          <6>3. QED
            BY <6>1, <6>2
        <5>4. QED
          BY <5>2, <5>3
      <4>4. QED
        BY <4>2, <4>3
    <3>2. SubSeq(AnswerText, 1, P[in(j)]) \in Seq(Nat)
      <4>1. 0 \in Nat /\ 0 <= P[in(j)] /\ P[in(j)] <= TextLength /\ P[in(j)] \in Nat
        BY <2>6, TextTyped
      <4>2. SubSeq(AnswerText, 0 + 1, P[in(j)]) \in Seq(Nat)
        BY <4>1, TextTyped, SliceTyped
      <4>3. QED
        BY <4>2, 0 + 1 = 1
    <3>3. \A s \in Seq(Nat) : s \o <<>> = s
      OBVIOUS
    <3>4. QED
      BY <2>4, <2>5, <2>8, <3>1, <3>2, <3>3
  <2>9. QED
    BY <2>7, <2>8
<1>8. B = Nat
  <2> HIDE DEF B
  <2> QED BY <1>6, <1>7, NaturalsFromZero DEF B
<1>9. seen(k)
  <2>1. k <= l
    BY DEF l
  <2> HIDE DEF seen
  <2>2. QED
    BY <1>8, <2>1
<1>10. QED
  BY <1>5, <1>9 DEF X, in

(* The recorder has seen the answer's text from its start, in whole        *)
(* pieces; all of it, in as many chunks as asked for, at the end of a      *)
(* stream without an error, and up to the error in a stream with one.      *)
THEOREM AnswerSeenWhole == Spec => []AnswerIsWhole
<1>1. AnswerInv => AnswerIsWhole
  <2> SUFFICES ASSUME AnswerInv, route \in Routes
               PROVE  /\ IsPrefix(TextSeen, AnswerText)
                      /\ outcome = "complete" =>
                           IF control.errorAfter = None
                           THEN /\ TextSeen = AnswerText
                                /\ Cardinality(OfType("delta")) = control.chunks
                           ELSE /\ Cardinality(OfType("delta")) = control.errorAfter
                                /\ Len(events) \in OfType("error")
    BY DEF AnswerIsWhole
  <2>1. CASE outcome = "body" /\ events = <<>>
    <3>1. TextSeen = <<>>
      <4>1. [i \in DOMAIN events |-> TextOf(events[i])] = <<>>
        BY <2>1
      <4>2. QED
        BY <4>1, FlattenNone DEF TextSeen
    <3>2. IsPrefix(<<>>, AnswerText)
      <4>1. Len(<<>>) = 0 /\ 0 <= Len(AnswerText)
        BY TextTyped
      <4>2. SubSeq(<<>>, 1, 0) = <<>> /\ SubSeq(AnswerText, 1, 0) = <<>>
        BY TextTyped
      <4>3. QED
        BY <4>1, <4>2 DEF IsPrefix
    <3>3. QED
      BY <2>1, <3>1, <3>2
  <2>2. CASE Streamed
    <3> DEFINE A == StreamingEvents(route, control)
               f == Opening[route]
               n == SentChunks(control)
               l == Len(A)
    <3>1. PICK T, k, m : Seen(T, k, m)
      BY <2>2 DEF Streamed
    <3>2. control \in Controls /\ ControlAccepted(route, control)
      BY <2>2 DEF Streamed
    <3>3. /\ k \in Nat /\ k <= l /\ l \in Nat
          /\ outcome = "complete" => k = l
          /\ events = [i \in 1..k |-> LinesOf(route, A[i])]
      <4>1. Len(Wire(route, control)) = l /\ l \in Nat
        BY <3>2, WireTyped
      <4>2. /\ k \in Nat /\ m \in Nat /\ k <= m /\ m <= Len(Wire(route, control))
        BY <3>1 DEF Seen, InTransit
      <4> HIDE DEF l
      <4>3. k <= l
        BY <4>1, <4>2
      <4>4. QED
        BY <3>1, <4>1, <4>2, <4>3 DEF Seen, Lines
    <3>4. ContentPlaced(route, control, A) /\ f \in 1..2
      BY <3>2, AnswerContent
    <3>5. /\ n \in Nat /\ n <= control.chunks /\ control.chunks \in Nat
          /\ control.errorAfter = None => n = control.chunks
          /\ control.errorAfter # None => n = control.errorAfter
      BY <3>2, SentTyped DEF SentChunks
    <3>6. f + n <= l
      BY <3>4 DEF ContentPlaced
    <3>7. /\ DOMAIN events = 1..k /\ Len(events) = k
          /\ \A i \in 1..k : events[i] = LinesOf(route, A[i])
      BY <3>3
    <3>8. PICK P : /\ IsCut(P, control.chunks)
                   /\ \A i \in 1..control.chunks :
                        Pieces(route, control)[i] = PieceAt(P, i)
      BY <3>2, PiecesCut
    <3> DEFINE X == Texts(route, control)
               q == P[PiecesIn(route, control, k)]
    <3>9. X \in Seq(Seq(Nat)) /\ Len(X) = l
      BY <3>2, <3>8, TextsPlaced
    <3>10. /\ PiecesIn(route, control, k) \in 0..control.chunks
           /\ FlattenSeq(SubSeq(X, 1, k)) = SubSeq(AnswerText, 1, q)
      BY <3>2, <3>3, <3>8, TextJoins
    <3>11. TextSeen = SubSeq(AnswerText, 1, q)
      <4> DEFINE Y == [i \in 1..k |-> TextOf(events[i])]
      <4>1. \A i \in 1..k : i \in 1..l
        BY <3>3
      <4>2. \A i \in 1..l : X[i] = TextOf(LinesOf(route, A[i]))
        BY DEF Texts
      <4> HIDE DEF X, l
      <4>3. Y = [i \in 1..k |-> X[i]]
        BY <3>7, <4>1, <4>2
      <4>4. [i \in 1..k |-> X[i]] = SubSeq(X, 1, k)
        BY <3>3, <3>9
      <4>5. TextSeen = FlattenSeq(Y)
        BY <3>7 DEF TextSeen
      <4>6. QED
        BY <3>10, <4>3, <4>4, <4>5
    <3>12. q \in 0..TextLength
      BY <3>8, <3>10 DEF IsCut
    <3>13. IsPrefix(TextSeen, AnswerText)
      <4> HIDE DEF q
      <4>1. 0 \in Nat /\ q \in Nat /\ 0 <= q /\ q <= q /\ q <= TextLength
        BY <3>12, TextTyped
      <4>2. /\ Len(SubSeq(AnswerText, 1, q)) = q
            /\ SubSeq(SubSeq(AnswerText, 1, q), 0 + 1, q) = SubSeq(AnswerText, 0 + 1, q)
        BY <4>1, TextTyped, SliceOfSlice
      <4>3. 0 + 1 = 1
        OBVIOUS
      <4>4. QED
        BY <3>11, <4>1, <4>2, <4>3, TextTyped DEF IsPrefix
    <3>14. ASSUME outcome = "complete", control.errorAfter = None
           PROVE  TextSeen = AnswerText
      <4>1. k = l /\ n = control.chunks
        BY <3>3, <3>5, <3>14
      <4>2. PiecesIn(route, control, k) = control.chunks
        <5>1. k - f >= n /\ (k <= f => n = 0)
          BY <3>3, <3>4, <3>5, <3>6, <4>1
        <5>2. Smaller(k - f, n) = n
          <6>1. k - f \in Nat
            BY <3>3, <3>4, <3>5, <3>6, <4>1
          <6>2. QED
            BY <3>5, <5>1, <6>1, SmallerTyped
        <5>3. QED
          BY <4>1, <5>1, <5>2 DEF PiecesIn
      <4>3. q = TextLength
        BY <3>8, <4>2 DEF IsCut
      <4>4. SubSeq(AnswerText, 1, TextLength) = AnswerText
        BY TextTyped
      <4>5. QED
        BY <3>11, <4>3, <4>4
    <3> HIDE DEF q, X
    <3>15. ASSUME NEW type, NEW i \in 1..k
           PROVE  i \in OfType(type) <=> A[i].type = type /\ A[i].type # "[DONE]"
      <4>1. events[i] = LinesOf(route, A[i]) /\ i \in DOMAIN events
        BY <3>7
      <4>2. /\ ValueOf(LinesOf(route, A[i])) = A[i]
            /\ HasValue(LinesOf(route, A[i])) <=> A[i].type # "[DONE]"
        BY LinesHaveValue
      <4>3. QED
        BY <4>1, <4>2 DEF OfType
    <3>16. \A type : OfType(type) \subseteq 1..k
      BY <3>7 DEF OfType
    <3>17. ASSUME outcome = "complete" PROVE Cardinality(OfType("delta")) = n
      <4>1. k = l
        BY <3>3, <3>17
      <4>2. ASSUME NEW i \in 1..k
            PROVE  i \in OfType("delta") <=> i - f \in 1..n
        <5>1. IF i - f \in 1..n THEN A[i] = DeltaAt(route, control, i - f)
              ELSE \E t, u : A[i] = EventOf(t, <<>>, u) /\ t # "delta"
          BY <3>4, <4>1 DEF ContentPlaced
        <5>2. A[i].type = "delta" <=> i - f \in 1..n
          <6>1. CASE i - f \in 1..n
            BY <5>1, <6>1, EventFields DEF DeltaAt
          <6>2. CASE i - f \notin 1..n
            BY <5>1, <6>2, EventFields
          <6>3. QED
            BY <6>1, <6>2
        <5>3. "delta" # "[DONE]"
          OBVIOUS
        <5>4. QED
          BY <3>15, <5>2, <5>3
      <4>3. \A i : i \in (f + 1)..(f + n) <=> i \in 1..k /\ i - f \in 1..n
        BY <3>3, <3>4, <3>5, <3>6, <4>1
      <4>4. OfType("delta") = (f + 1)..(f + n)
        BY <3>16, <4>2, <4>3
      <4>5. Cardinality((f + 1)..(f + n)) = n
        <5> HIDE DEF f, n
        <5>1. f + 1 \in Int /\ f + n \in Int
          BY <3>4, <3>5
        <5>2. Cardinality((f + 1)..(f + n)) =
                IF f + 1 > f + n THEN 0 ELSE (f + n) - (f + 1) + 1
          BY <5>1, FS_Interval
        <5>3. QED
          BY <3>4, <3>5, <5>2
      <4>6. QED
        BY <4>4, <4>5
    <3>18. ASSUME outcome = "complete", control.errorAfter # None
           PROVE  Len(events) \in OfType("error")
      <4>1. k = l /\ A[l] = Plain("error")
        BY <3>3, <3>4, <3>18 DEF ContentPlaced
      <4>2. A[k].type = "error"
        BY <4>1, EventFields DEF Plain
      <4>3. k \in 1..k
        BY <3>3, <3>4, <3>5, <3>6, <4>1
      <4>4. "error" # "[DONE]"
        OBVIOUS
      <4>5. QED
        BY <3>7, <3>15, <4>2, <4>3, <4>4
    <3>19. QED
      BY <3>5, <3>13, <3>14, <3>17, <3>18
  <2>3. QED
    BY <2>1, <2>2 DEF AnswerInv
<1>2. QED
  BY <1>1, AnswerInductive, PTL
=============================================================================
