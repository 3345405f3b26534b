--------------------------- MODULE RoundTripProofs ---------------------------
(****************************************************************************)
(* A capture that was written is read back, up to half a microsecond; and a *)
(* comparison that passed compared everything.                              *)
(****************************************************************************)
EXTENDS CaptureLog, Comparison, FiniteSetTheorems, TLAPS

\* Twice a number is even, and its half is the number.
LEMMA Doubling ==
    ASSUME NEW k \in Nat
    PROVE  (2 * k) \div 2 = k /\ (2 * k) % 2 = 0
OBVIOUS

\* The hexadecimal digits of a payload are two for each byte, and give it back.
LEMMA DigitsOfBytes ==
    ASSUME NEW data \in Seq(Byte)
    PROVE  /\ Digits(data) \in Seq(Digit)
           /\ Len(Digits(data)) = 2 * Len(data)
           /\ Bytes(Digits(data)) = data
<1> DEFINE n == Len(data)
           d == Digits(data)
<1>1. n \in Nat /\ DOMAIN data = 1 .. n
  OBVIOUS
<1>2. \A i \in 1 .. n : data[i] \in 0 .. 255
  <2>1. \A i \in 1 .. Len(data) : data[i] \in Byte
    OBVIOUS
  <2> QED
    BY <2>1 DEF Byte
<1>3. \A i \in 1 .. 2 * n :
         /\ (i % 2 = 1) => (i + 1) \div 2 \in 1 .. n
         /\ (i % 2 # 1) => i \div 2 \in 1 .. n
  BY <1>1
<1>4. \A b \in 0 .. 255 : b \div 16 \in 0 .. 15 /\ b % 16 \in 0 .. 15
                          /\ 16 * (b \div 16) + (b % 16) = b
  OBVIOUS
<1>5. \A i \in 1 .. 2 * n : d[i] \in Digit
  <2> SUFFICES ASSUME NEW i \in 1 .. 2 * n
               PROVE  d[i] \in Digit
    OBVIOUS
  <2>1. CASE i % 2 = 1
    BY <1>2, <1>3, <1>4, <2>1 DEF Digits, Digit
  <2>2. CASE i % 2 # 1
    BY <1>2, <1>3, <1>4, <2>2 DEF Digits, Digit
  <2> QED
    BY <2>1, <2>2
<1>6. d \in Seq(Digit) /\ Len(d) = 2 * n
  <2>1. DOMAIN d = 1 .. 2 * n /\ d = [i \in 1 .. 2 * n |-> d[i]]
    BY DEF Digits
  <2> QED
    BY <1>1, <1>5, <2>1
<1>7. \A i \in 1 .. n : 16 * d[2 * i - 1] + d[2 * i] = data[i]
  <2> SUFFICES ASSUME NEW i \in 1 .. n
               PROVE  16 * d[2 * i - 1] + d[2 * i] = data[i]
    OBVIOUS
  <2>1. /\ 2 * i - 1 \in 1 .. 2 * n /\ 2 * i \in 1 .. 2 * n
        /\ (2 * i - 1) % 2 = 1 /\ (2 * i) % 2 # 1
        /\ ((2 * i - 1) + 1) \div 2 = i /\ (2 * i) \div 2 = i
    BY <1>1
  <2>2. d[2 * i - 1] = data[i] \div 16 /\ d[2 * i] = data[i] % 16
    BY <2>1 DEF Digits
  <2> QED
    BY <1>2, <1>4, <2>2
<1>8. (2 * n) \div 2 = n
  BY <1>1, Doubling
<1>9. Bytes(d) = [i \in 1 .. n |-> 16 * d[2 * i - 1] + d[2 * i]]
  BY <1>6, <1>8 DEF Bytes
<1>10. Bytes(d) = [i \in 1 .. n |-> data[i]]
  BY <1>7, <1>9
<1>11. data = [i \in 1 .. n |-> data[i]]
  BY <1>1
<1> QED
  BY <1>6, <1>10, <1>11

\* What has six decimals is not rounded.
LEMMA WholeMicroseconds ==
    ASSUME NEW k \in Nat
    PROVE  Rounded(1000 * k) = 1000 * k
<1>1. (1000 * k) \div 1000 = k /\ (1000 * k) % 1000 = 0
  OBVIOUS
<1> QED
  BY <1>1 DEF Rounded, Microsecond

\* A timestamp moves by at most half a microsecond, and not at all if it has no
\* more than six decimals.
THEOREM RoundingIsSmall ==
    ASSUME NEW t \in Nat
    PROVE  /\ Rounded(t) \in Nat
           /\ 2 * (Rounded(t) - t) <= Microsecond
           /\ 2 * (t - Rounded(t)) <= Microsecond
           /\ Rounded(Rounded(t)) = Rounded(t)
<1> DEFINE q == t \div 1000
           r == t % 1000
<1>1. q \in Nat /\ r \in 0 .. 999 /\ t = 1000 * q + r
  OBVIOUS
<1>2. Rounded(t) \in {1000 * q, 1000 * (q + 1)}
      /\ (2 * r < 1000 => Rounded(t) = 1000 * q)
      /\ (2 * r > 1000 => Rounded(t) = 1000 * (q + 1))
  BY <1>1 DEF Rounded, Microsecond
<1> HIDE DEF q, r
<1>3. Rounded(Rounded(t)) = Rounded(t)
  <2>1. q + 1 \in Nat
    BY <1>1
  <2>2. Rounded(1000 * q) = 1000 * q
    BY <1>1, WholeMicroseconds
  <2>3. Rounded(1000 * (q + 1)) = 1000 * (q + 1)
    BY <2>1, WholeMicroseconds
  <2> QED
    BY <1>2, <2>2, <2>3
<1> QED
  BY <1>1, <1>2, <1>3 DEF Microsecond

\* Frames keep their order in time.
THEOREM RoundingKeepsOrder ==
    ASSUME NEW s \in Nat, NEW t \in Nat, s <= t
    PROVE  Rounded(s) <= Rounded(t)
<1> DEFINE p == s \div 1000
           q == t \div 1000
           a == s % 1000
           b == t % 1000
<1>1. /\ p \in Nat /\ a \in 0 .. 999 /\ s = 1000 * p + a
      /\ q \in Nat /\ b \in 0 .. 999 /\ t = 1000 * q + b
  OBVIOUS
<1>2. Rounded(s) = 1000 * (IF 2 * a > 1000 \/ (2 * a = 1000 /\ p % 2 = 1)
                           THEN p + 1 ELSE p)
  BY DEF Rounded, Microsecond
<1>3. Rounded(t) = 1000 * (IF 2 * b > 1000 \/ (2 * b = 1000 /\ q % 2 = 1)
                           THEN q + 1 ELSE q)
  BY DEF Rounded, Microsecond
<1> HIDE DEF p, q, a, b
<1>4. CASE p = q
  <2>1. a <= b
    BY <1>1, <1>4
  <2> QED
    BY <1>1, <1>2, <1>3, <1>4, <2>1
<1>5. CASE p # q
  <2>1. p + 1 <= q
    BY <1>1, <1>5
  <2> QED
    BY <1>1, <1>2, <1>3, <2>1
<1> QED
  BY <1>4, <1>5

\* Every frame that a bus can carry is written as a line that is read back as
\* the same frame: with its identifier, standard or extended, and its payload;
\* its time is rounded to microseconds, and a channel without a name gets one.
THEOREM WrittenIsReadBack ==
    ASSUME NEW frame \in CanFrame
    PROVE  /\ WellFormed(Formatted(frame))
           /\ Parsed(Formatted(frame)) =
                [at       |-> Rounded(frame.at),
                 channel  |-> IF frame.channel = NoChannel THEN Can0
                              ELSE frame.channel,
                 id       |-> frame.id,
                 extended |-> frame.extended,
                 data     |-> frame.data]
<1>1. /\ frame.data \in Seq(Byte) /\ Len(frame.data) <= MaxPayloadBytes
      /\ frame.extended \in BOOLEAN
      /\ ~frame.extended => frame.id <= MaxStandardId
  BY DEF CanFrame
<1>2. /\ Len(Digits(frame.data)) = 2 * Len(frame.data)
      /\ Bytes(Digits(frame.data)) = frame.data
  BY <1>1, DigitsOfBytes
<1>3. (2 * Len(frame.data)) % 2 = 0
      /\ 2 * Len(frame.data) <= 2 * MaxPayloadBytes
  <2>1. Len(frame.data) \in Nat
    BY <1>1
  <2>2. (2 * Len(frame.data)) % 2 = 0
    BY <2>1, Doubling
  <2>3. 2 * Len(frame.data) <= 2 * MaxPayloadBytes
    BY <1>1, <2>1 DEF MaxPayloadBytes
  <2> QED
    BY <2>2, <2>3
<1>4. WellFormed(Formatted(frame))
  BY <1>1, <1>2, <1>3 DEF WellFormed, Formatted
<1>5. (Formatted(frame).digits > 3) = frame.extended
  BY <1>1 DEF Formatted
<1> QED
  BY <1>2, <1>4, <1>5 DEF Parsed, Formatted

-----------------------------------------------------------------------------
(* Induction, in a form that the provers can use: on sets instead of        *)
(* predicates, and proved by counting.                                      *)

\* A set of natural numbers that has one has a least one: it is the last of its
\* lower bounds, and that is one less than there are lower bounds.
LEMMA LeastNumber ==
    ASSUME NEW T \in SUBSET Nat, T # {}
    PROVE  \E x \in T : \A y \in T : x <= y
<1> DEFINE C == {k \in Nat : \A y \in T : k <= y}
           c == Cardinality(C)
<1>1. IsFiniteSet(C) /\ c \in Nat
  <2>1. PICK t \in T : TRUE
    OBVIOUS
  <2>2. C \in SUBSET Nat /\ t \in Nat /\ \A k \in C : k <= t
    BY <2>1
  <2>3. IsFiniteSet(C)
    BY <2>2, FS_BoundedSetOfNaturals
  <2> QED
    BY <2>3, FS_CardinalityType
<1>2. \A k \in C : \A j \in 0 .. k : j \in C
  OBVIOUS
<1>3. 0 \in C
  OBVIOUS
<1>4. c \notin C
  <2>1. SUFFICES ASSUME c \in C PROVE FALSE
    OBVIOUS
  <2>2. 0 .. c \in SUBSET C
    BY <1>2, <2>1
  <2>3. Cardinality(0 .. c) <= c
    BY <1>1, <2>2, FS_Subset
  <2>4. Cardinality(0 .. c) = c + 1
    <3>1. Cardinality(0 .. c) = IF 0 > c THEN 0 ELSE c - 0 + 1
      BY <1>1, FS_Interval
    <3> QED
      BY <1>1, <3>1
  <2> QED
    BY <1>1, <2>3, <2>4
<1>5. \E k \in C : k >= c - 1
  <2>1. SUFFICES ASSUME \A k \in C : k < c - 1 PROVE FALSE
    BY <1>1
  <2>2. c - 2 \in Nat
    BY <1>1, <1>3, <2>1
  <2>3. \A k \in C : k <= c - 2
    BY <1>1, <2>1
  <2>4. C \in SUBSET Nat
    OBVIOUS
  <2>5. Cardinality(C) <= (c - 2) + 1
    BY <2>2, <2>3, <2>4, FS_BoundedSetOfNaturals
  <2> QED
    BY <1>1, <2>5
<1>6. c - 1 \in C
  <2>1. PICK k \in C : k >= c - 1
    BY <1>5
  <2>2. c # 0
    <3>1. ASSUME c = 0 PROVE FALSE
      BY <1>3, <1>4, <3>1
    <3> QED
      BY <3>1
  <2>3. c - 1 \in 0 .. k
    BY <1>1, <2>1, <2>2
  <2> QED
    BY <1>2, <2>3
<1> HIDE DEF c
<1>7. PICK y \in T : y < c
  BY <1>1, <1>4
<1>8. y = c - 1
  BY <1>1, <1>6, <1>7
<1> QED
  BY <1>6, <1>8

LEMMA Induction ==
    ASSUME NEW S, 0 \in S, \A n \in Nat : n \in S => n + 1 \in S
    PROVE  Nat \subseteq S
<1> DEFINE T == Nat \ S
<1>1. SUFFICES ASSUME T # {} PROVE FALSE
  OBVIOUS
<1>2. PICK x \in T : \A y \in T : x <= y
  BY <1>1, LeastNumber
<1>3. x # 0 /\ x - 1 \in Nat
  BY <1>2
<1>4. x - 1 \in S
  BY <1>2, <1>3
<1> QED
  BY <1>2, <1>3, <1>4

\* What read_log gives for a frame that was written.
Reread(frame) ==
    [at       |-> Rounded(frame.at),
     channel  |-> IF frame.channel = NoChannel THEN Can0 ELSE frame.channel,
     id       |-> frame.id,
     extended |-> frame.extended,
     data     |-> frame.data]

\* A capture that was written is read back frame by frame: no line is taken for
\* malformed, and none is lost or reordered.
THEOREM CaptureIsReadBack ==
    ASSUME NEW frames \in Seq(CanFrame)
    PROVE  ReadLog(WriteLog(frames)) =
               [i \in 1 .. Len(frames) |-> Reread(frames[i])]
<1> DEFINE lines == WriteLog(frames)
           N == Len(frames)
           step(f, n) == IF n = 0 THEN <<>>
                         ELSE IF WellFormed(lines[n])
                              THEN Append(f[n - 1], Parsed(lines[n]))
                              ELSE f[n - 1]
           back(n) == [i \in 1 .. n |-> Reread(frames[i])]
           g == [n \in 0 .. N |-> back(n)]
           f == CHOOSE h : h = [n \in 0 .. N |-> step(h, n)]
<1>1. N \in Nat /\ DOMAIN lines = 1 .. N /\ Len(lines) = N
  BY DEF WriteLog
<1>2. \A n \in 1 .. N : WellFormed(lines[n]) /\ Parsed(lines[n]) = Reread(frames[n])
  <2> SUFFICES ASSUME NEW n \in 1 .. N
               PROVE  WellFormed(lines[n]) /\ Parsed(lines[n]) = Reread(frames[n])
    OBVIOUS
  <2>1. frames[n] \in CanFrame /\ lines[n] = Formatted(frames[n])
    BY <1>1 DEF WriteLog
  <2> QED
    BY <2>1, WrittenIsReadBack DEF Reread
<1>3. \A n \in 1 .. N : back(n) = Append(back(n - 1), Reread(frames[n]))
  <2> SUFFICES ASSUME NEW n \in 1 .. N
               PROVE  back(n) = Append(back(n - 1), Reread(frames[n]))
    OBVIOUS
  <2> DEFINE R(i) == Reread(frames[i])
  <2>1. n \in Nat /\ n - 1 \in Nat
    BY <1>1
  <2> HIDE DEF R
  <2>2. [i \in 1 .. n |-> R(i)] = Append([i \in 1 .. n - 1 |-> R(i)], R(n))
    BY <2>1
  <2> QED
    BY <2>2 DEF R
<1> HIDE DEF lines, N, back
<1>4. g = [n \in 0 .. N |-> step(g, n)]
  <2> SUFFICES ASSUME NEW n \in 0 .. N
               PROVE  back(n) = step(g, n)
    OBVIOUS
  <2>1. CASE n = 0
    BY <2>1 DEF back
  <2>2. CASE n # 0
    <3>1. n \in 1 .. N /\ n - 1 \in 0 .. N
      BY <1>1, <2>2
    <3> QED
      BY <1>2, <1>3, <2>2, <3>1
  <2> QED
    BY <2>1, <2>2
<1>5. f = [n \in 0 .. N |-> step(f, n)]
  BY <1>4
<1> HIDE DEF f
<1>6. \A n \in Nat : n \in 0 .. N => f[n] = back(n)
  <2> DEFINE S == {n \in Nat : n \in 0 .. N => f[n] = back(n)}
  <2>1. 0 \in S
    <3>1. back(0) = <<>>
      BY DEF back
    <3>2. 0 \in 0 .. N
      BY <1>1
    <3>3. f[0] = <<>>
      BY <1>5, <3>2
    <3> QED
      BY <3>1, <3>3
  <2>2. ASSUME NEW n \in Nat, n \in S PROVE n + 1 \in S
    <3> SUFFICES ASSUME n + 1 \in 0 .. N PROVE f[n + 1] = back(n + 1)
      OBVIOUS
    <3>1. n \in 0 .. N /\ n + 1 \in 1 .. N /\ n + 1 # 0 /\ (n + 1) - 1 = n
      BY <1>1
    <3>2. f[n + 1] = step(f, n + 1)
      BY <1>5
    <3>3. f[n + 1] = Append(f[n], Parsed(lines[n + 1]))
      BY <1>2, <3>1, <3>2
    <3>4. f[n] = back(n)
      BY <2>2, <3>1
    <3>5. back(n + 1) = Append(back(n), Reread(frames[n + 1]))
      BY <1>3, <3>1
    <3> QED
      BY <1>2, <3>1, <3>3, <3>4, <3>5
  <2> HIDE DEF S
  <2>3. Nat \subseteq S
    BY <2>1, <2>2, Induction
  <2> QED
    BY <2>3 DEF S
<1>7. ReadLog(lines) = f[N]
  BY <1>1 DEF ReadLog, f
<1> QED
  BY <1>1, <1>6, <1>7 DEF back, lines, N

-----------------------------------------------------------------------------
SameContents(o, r) ==
    /\ Len(o) = Len(r)
    /\ \A i \in 1 .. Len(o) : o[i].id = r[i].id /\ o[i].data = r[i].data

\* The positional comparison of the common part and of the lengths is one of
\* the whole captures: it holds exactly if they have the same identifiers and
\* payloads, that is if exact_match_percent is 100.
THEOREM ComparisonIsComplete ==
    ASSUME NEW S, NEW o \in Seq(S), NEW r \in Seq(S)
    PROVE  /\ SameContents(o, r) <=>
                  /\ Len(o) = Len(r)
                  /\ IdentifierOrderMatches(o, r)
                  /\ PayloadsMatch(o, r)
           /\ SameContents(o, r) <=> ExactMatches(o, r) = 1 .. Total(o, r)
<1> DEFINE m == Len(o)
           n == Len(r)
<1>1. m \in Nat /\ n \in Nat
  OBVIOUS
<1>2. Compared(o, r) = 1 .. (IF m < n THEN m ELSE n)
  BY DEF Compared, Lesser
<1>3. Total(o, r) = IF m < n THEN n ELSE m
  BY DEF Total, Greater
<1>4. SameContents(o, r) <=>
          /\ m = n
          /\ IdentifierOrderMatches(o, r)
          /\ PayloadsMatch(o, r)
  BY <1>1, <1>2 DEF SameContents, IdentifierOrderMatches, PayloadsMatch
<1>5. ASSUME SameContents(o, r)
      PROVE  ExactMatches(o, r) = 1 .. Total(o, r)
  <2>1. m = n /\ Compared(o, r) = 1 .. m /\ Total(o, r) = m
    BY <1>1, <1>2, <1>3, <1>5 DEF SameContents
  <2>2. \A i \in 1 .. m : o[i].id = r[i].id /\ o[i].data = r[i].data
    BY <1>5 DEF SameContents
  <2> QED
    BY <2>1, <2>2 DEF ExactMatches
<1>6. ASSUME ExactMatches(o, r) = 1 .. Total(o, r)
      PROVE  SameContents(o, r)
  <2>1. 1 .. Total(o, r) \subseteq Compared(o, r)
    BY <1>6 DEF ExactMatches
  <2>2. m = n
    <3>1. CASE m < n
      <4>1. n \in 1 .. Total(o, r) /\ n \notin Compared(o, r)
        BY <1>1, <1>2, <1>3, <3>1
      <4> QED
        BY <2>1, <4>1
    <3>2. CASE n < m
      <4>1. m \in 1 .. Total(o, r) /\ m \notin Compared(o, r)
        BY <1>1, <1>2, <1>3, <3>2
      <4> QED
        BY <2>1, <4>1
    <3> QED
      BY <1>1, <3>1, <3>2
  <2>3. Total(o, r) = m
    BY <1>3, <2>2
  <2>4. \A i \in ExactMatches(o, r) :
            o[i].id = r[i].id /\ o[i].data = r[i].data
    BY DEF ExactMatches
  <2> QED
    BY <1>6, <2>2, <2>3, <2>4 DEF SameContents
<1> QED
  BY <1>4, <1>5, <1>6

\* A comparison that passed has no first mismatch to report, all frames match,
\* and nothing is left over on either side.
THEOREM PassedIsComplete ==
    ASSUME NEW S, NEW o \in Seq(S), NEW r \in Seq(S), Passed(o, r)
    PROVE  /\ SameContents(o, r)
           /\ ExactMatches(o, r) = 1 .. Total(o, r)
           /\ FirstMismatch(o, r) = 0
<1>1. SameContents(o, r)
  BY ComparisonIsComplete DEF Passed
<1>2. ExactMatches(o, r) = 1 .. Total(o, r)
  BY <1>1, ComparisonIsComplete
<1>3. Compared(o, r) \ ExactMatches(o, r) = {}
  BY DEF Passed, IdentifierOrderMatches, PayloadsMatch, ExactMatches
<1> QED
  BY <1>1, <1>2, <1>3 DEF FirstMismatch

-----------------------------------------------------------------------------
(* A comparison passes if the contents are the same, the times are in order *)
(* and no age is on another side of the threshold: nothing else of the      *)
(* times is looked at.                                                      *)

\* Two captures of which sequence_series takes the same.
LEMMA SameSeries ==
    ASSUME NEW S, NEW o \in Seq(S), NEW r \in Seq(S), SameContents(o, r)
    PROVE  SequenceSeries(o) = SequenceSeries(r)
<1> DEFINE N == Len(o)
           stepO(h, n) ==
               IF n = 0 THEN <<>>
               ELSE IF HasCounter(o[n])
                    THEN Append(h[n - 1], <<o[n].id, Counter(o[n])>>)
                    ELSE h[n - 1]
           stepR(h, n) ==
               IF n = 0 THEN <<>>
               ELSE IF HasCounter(r[n])
                    THEN Append(h[n - 1], <<r[n].id, Counter(r[n])>>)
                    ELSE h[n - 1]
           f == CHOOSE h : h = [n \in 0 .. N |-> stepO(h, n)]
           g == CHOOSE h : h = [n \in 0 .. N |-> stepR(h, n)]
<1>1. Len(r) = N /\ N \in Nat
  BY DEF SameContents
<1>2. \A n \in 1 .. N : /\ o[n].id = r[n].id
                        /\ HasCounter(o[n]) <=> HasCounter(r[n])
                        /\ Counter(o[n]) = Counter(r[n])
  BY DEF SameContents, HasCounter, Counter
<1> HIDE DEF N
<1>3. \A h : \A n \in 0 .. N : stepO(h, n) = stepR(h, n)
  <2> SUFFICES ASSUME NEW h, NEW n \in 0 .. N
               PROVE  stepO(h, n) = stepR(h, n)
    OBVIOUS
  <2>1. CASE n = 0
    BY <2>1
  <2>2. CASE n # 0
    <3>1. n \in 1 .. N
      BY <1>1, <2>2
    <3> QED
      BY <1>2, <2>2, <3>1
  <2> QED
    BY <2>1, <2>2
<1> HIDE DEF stepO, stepR
<1>4. \A h : [n \in 0 .. N |-> stepO(h, n)] = [n \in 0 .. N |-> stepR(h, n)]
  BY <1>3
<1>5. f = g
  BY <1>4, Zenon
<1>6. SequenceSeries(o) = f[N]
  BY DEF SequenceSeries, f, stepO, N
<1>7. SequenceSeries(r) = g[N]
  BY <1>1 DEF SequenceSeries, g, stepR
<1> QED
  BY <1>5, <1>6, <1>7

\* The last of some positions.
LEMMA LastIsOne ==
    ASSUME NEW n \in Nat, NEW B \in SUBSET (1 .. n), B # {}
    PROVE  LastOf(B) \in B /\ \A k \in B : k <= LastOf(B)
<1> DEFINE T == {n - j : j \in B}
<1>1. T \in SUBSET Nat /\ T # {}
  <2>1. PICK j \in B : TRUE
    OBVIOUS
  <2>2. n - j \in T
    OBVIOUS
  <2>3. \A x \in T : x \in Nat
    OBVIOUS
  <2> QED
    BY <2>2, <2>3
<1>2. PICK x \in T : \A y \in T : x <= y
  BY <1>1, LeastNumber
<1>3. PICK j \in B : x = n - j
  BY <1>2
<1>4. \A k \in B : k <= j
  <2> SUFFICES ASSUME NEW k \in B PROVE k <= j
    OBVIOUS
  <2>1. n - j <= n - k
    BY <1>2, <1>3
  <2>2. j \in Nat /\ k \in Nat
    OBVIOUS
  <2> HIDE DEF T
  <2> QED
    BY <2>1, <2>2
<1>5. \E k \in B : \A l \in B : l <= k
  BY <1>4
<1> QED
  BY <1>5 DEF LastOf

\* An age is a time between two frames.
LEMMA AgesAreTimes ==
    ASSUME NEW S, NEW frames \in Seq(S), \A f \in S : f.at \in Int,
           NEW i \in 1 .. Len(frames)
    PROVE  /\ DataBefore(frames, i) = {} => Age(frames, i) = 0
           /\ DataBefore(frames, i) # {} =>
                  /\ LastOf(DataBefore(frames, i)) \in 1 .. Len(frames)
                  /\ Age(frames, i) =
                         frames[i].at - frames[LastOf(DataBefore(frames, i))].at
           /\ \A j \in 1 .. Len(frames) : frames[j].at \in Int
           /\ Age(frames, i) \in Int
<1>1. i \in Nat /\ i - 1 \in Nat /\ Len(frames) \in Nat
      /\ 1 .. i - 1 \subseteq 1 .. Len(frames)
  OBVIOUS
<1>2. DataBefore(frames, i) \in SUBSET (1 .. i - 1)
  BY DEF DataBefore
<1>3. \A j \in 1 .. Len(frames) : frames[j].at \in Int
  OBVIOUS
<1>4. DataBefore(frames, i) # {} =>
          LastOf(DataBefore(frames, i)) \in 1 .. Len(frames)
  BY <1>1, <1>2, LastIsOne
<1> QED
  BY <1>3, <1>4 DEF Age

\* What is put together frame by frame is there: a recursion over the positions
\* of a sequence of sequences has a solution.
LEMMA JoinsExist ==
    ASSUME NEW N \in Nat, NEW E
    PROVE  \E f : f = [n \in 0 .. N |->
                          IF n = 0 THEN <<>> ELSE f[n - 1] \o E[n]]
<1> DEFINE step(h, n) == IF n = 0 THEN <<>> ELSE h[n - 1] \o E[n]
           S == {n \in Nat : \E h : h = [m \in 0 .. n |-> step(h, m)]}
<1>1. 0 \in S
  <2> DEFINE h == [m \in 0 .. 0 |-> <<>>]
  <2>1. h = [m \in 0 .. 0 |-> step(h, m)]
    OBVIOUS
  <2> QED BY <2>1
<1>2. ASSUME NEW n \in Nat, n \in S PROVE n + 1 \in S
  <2>1. PICK h : h = [m \in 0 .. n |-> step(h, m)]
    BY <1>2
  <2> DEFINE g == [m \in 0 .. n + 1 |-> IF m = n + 1 THEN h[n] \o E[n + 1] ELSE h[m]]
  <2>2. ASSUME NEW m \in 0 .. n + 1 PROVE g[m] = step(g, m)
    <3>1. CASE m = n + 1
      <4>1. m # 0 /\ m - 1 = n /\ n \in 0 .. n + 1 /\ n # n + 1
        BY <3>1
      <4>2. g[m] = h[n] \o E[n + 1] /\ g[n] = h[n]
        BY <3>1, <4>1
      <4> QED BY <3>1, <4>1, <4>2
    <3>2. CASE m # n + 1
      <4>1. m \in 0 .. n
        BY <3>2
      <4>2. g[m] = h[m] /\ h[m] = step(h, m)
        BY <2>1, <3>2, <4>1
      <4>3. m # 0 => m - 1 \in 0 .. n /\ m - 1 \in 0 .. n + 1 /\ m - 1 # n + 1
        BY <4>1
      <4>4. m # 0 => g[m - 1] = h[m - 1]
        BY <4>3
      <4> QED BY <4>2, <4>4
    <3> QED BY <3>1, <3>2
  <2>3. g = [m \in 0 .. n + 1 |-> g[m]]
    OBVIOUS
  <2> HIDE DEF g
  <2>4. g = [m \in 0 .. n + 1 |-> step(g, m)]
    BY <2>2, <2>3, Zenon
  <2>5. n + 1 \in Nat
    OBVIOUS
  <2> HIDE DEF step
  <2> QED BY <2>4, <2>5
<1> HIDE DEF S
<1>3. N \in S
  BY <1>1, <1>2, Induction
<1> QED BY <1>3 DEF S

\* The findings of a capture are those of its first frames and of the next.
LEMMA ProducedIs ==
    ASSUME NEW frames, Len(frames) \in Nat
    PROVE  \E f : /\ f[0] = <<>>
                  /\ \A n \in 1 .. Len(frames) :
                        f[n] = f[n - 1] \o EventsAt(frames, n)
                  /\ Produced(frames) = f[Len(frames)]
<1> DEFINE N == Len(frames)
           E == [n \in 1 .. N |-> EventsAt(frames, n)]
           step(h, n) == IF n = 0 THEN <<>> ELSE h[n - 1] \o EventsAt(frames, n)
           with(h, n) == IF n = 0 THEN <<>> ELSE h[n - 1] \o E[n]
           f == CHOOSE h : h = [n \in 0 .. N |-> step(h, n)]
<1>1. N \in Nat /\ \A n \in 0 .. N : n = 0 \/ n \in 1 .. N
  OBVIOUS
<1>2. \A h : \A n \in 0 .. N : step(h, n) = with(h, n)
  BY <1>1
<1>3. \E h : h = [n \in 0 .. N |-> with(h, n)]
  <2> HIDE DEF E, N
  <2> QED BY <1>1, JoinsExist
<1>4. Produced(frames) = f[N]
  BY DEF Produced
<1>5. \A h : with(h, 0) = <<>>
  OBVIOUS
<1>6. \A h : \A n \in 1 .. N : step(h, n) = h[n - 1] \o EventsAt(frames, n)
  OBVIOUS
<1>7. \A h : step(h, 0) = <<>>
  OBVIOUS
<1>8. 0 \in 0 .. N /\ \A n \in 1 .. N : n \in 0 .. N
  BY <1>1
<1> HIDE DEF step, with, N
<1>9. \A h : [n \in 0 .. N |-> step(h, n)] = [n \in 0 .. N |-> with(h, n)]
  BY <1>2
<1>10. \E h : h = [n \in 0 .. N |-> step(h, n)]
  BY <1>3, <1>9
<1>11. f = [n \in 0 .. N |-> step(f, n)]
  BY <1>10
<1> HIDE DEF f
<1>12. \A n \in 0 .. N : f[n] = step(f, n)
  BY <1>11
<1>13. f[0] = <<>> /\ \A n \in 1 .. N : f[n] = f[n - 1] \o EventsAt(frames, n)
  BY <1>6, <1>7, <1>8, <1>12
<1> QED BY <1>4, <1>13 DEF N

Kinds == {"data_message_stale", "node_silent", "unknown_message_id",
          "message_recovered", "node_recovered", "sequence_gap"}

DatedEvent == [kind : Kinds, at : Int]

\* Findings in the order of their dates, none before lo or after hi.
OrderedIn(s, lo, hi) ==
    /\ s \in Seq(DatedEvent)
    /\ \A i \in 1 .. Len(s) : lo <= s[i].at /\ s[i].at <= hi
    /\ \A i, j \in 1 .. Len(s) : i <= j => s[i].at <= s[j].at

LEMMA JoinIsOrdered ==
    ASSUME NEW s, NEW t, NEW lo \in Int, NEW mid \in Int, NEW hi \in Int,
           OrderedIn(s, lo, mid), OrderedIn(t, mid, hi), lo <= mid, mid <= hi
    PROVE  OrderedIn(s \o t, lo, hi)
<1> DEFINE u == s \o t
<1>1. /\ s \in Seq(DatedEvent) /\ t \in Seq(DatedEvent)
      /\ Len(s) \in Nat /\ Len(t) \in Nat
  BY DEF OrderedIn
<1>2. /\ u \in Seq(DatedEvent) /\ Len(u) = Len(s) + Len(t)
      /\ \A i \in 1 .. Len(s) : u[i] = s[i]
      /\ \A i \in Len(s) + 1 .. Len(u) :
            u[i] = t[i - Len(s)] /\ i - Len(s) \in 1 .. Len(t)
  BY <1>1
<1>3. /\ \A i \in 1 .. Len(s) : s[i].at \in Int
      /\ \A i \in 1 .. Len(t) : t[i].at \in Int
  <2>1. /\ \A i \in 1 .. Len(s) : s[i] \in DatedEvent
        /\ \A i \in 1 .. Len(t) : t[i] \in DatedEvent
    BY <1>1
  <2> QED BY <2>1 DEF DatedEvent
<1> HIDE DEF u
<1>4. \A i \in 1 .. Len(u) : i \in 1 .. Len(s) \/ i \in Len(s) + 1 .. Len(u)
  BY <1>1, <1>2
<1>5. /\ \A i \in 1 .. Len(s) : lo <= u[i].at /\ u[i].at <= mid /\ u[i].at \in Int
      /\ \A i \in Len(s) + 1 .. Len(u) :
            mid <= u[i].at /\ u[i].at <= hi /\ u[i].at \in Int
  BY <1>2, <1>3 DEF OrderedIn
<1>6. \A i \in 1 .. Len(u) : lo <= u[i].at /\ u[i].at <= hi
  <2>1. ASSUME NEW i \in 1 .. Len(s) PROVE lo <= u[i].at /\ u[i].at <= hi
    BY <1>5
  <2>2. ASSUME NEW i \in Len(s) + 1 .. Len(u) PROVE lo <= u[i].at /\ u[i].at <= hi
    BY <1>5
  <2> QED BY <1>4, <2>1, <2>2
<1>7. ASSUME NEW i \in 1 .. Len(u), NEW j \in 1 .. Len(u), i <= j
      PROVE  u[i].at <= u[j].at
  <2>1. CASE i \in 1 .. Len(s) /\ j \in 1 .. Len(s)
    BY <1>2, <1>7, <2>1 DEF OrderedIn
  <2>2. CASE i \in 1 .. Len(s) /\ j \in Len(s) + 1 .. Len(u)
    BY <1>5, <2>2
  <2>3. CASE i \in Len(s) + 1 .. Len(u) /\ j \in Len(s) + 1 .. Len(u)
    <3>1. i - Len(s) <= j - Len(s)
      BY <1>1, <1>7
    <3>2. t[i - Len(s)].at <= t[j - Len(s)].at
      BY <1>2, <2>3, <3>1 DEF OrderedIn
    <3> QED BY <1>2, <2>3, <3>2
  <2> QED BY <1>1, <1>4, <1>7, <2>1, <2>2, <2>3
<1> QED BY <1>2, <1>6, <1>7 DEF OrderedIn, u

LEMMA NothingIsOrdered ==
    ASSUME NEW lo, NEW hi
    PROVE  OrderedIn(<<>>, lo, hi)
BY DEF OrderedIn

\* One or two findings of the same date.
LEMMA EventsAreOrdered ==
    ASSUME NEW lo \in Int, NEW hi \in Int, NEW at \in Int, lo <= at, at <= hi,
           NEW k \in Kinds, NEW l \in Kinds
    PROVE  /\ OrderedIn(<<Event(k, at)>>, lo, hi)
           /\ OrderedIn(<<Event(k, at), Event(l, at)>>, lo, hi)
<1> DEFINE a == Event(k, at)
           b == Event(l, at)
<1>1. a \in DatedEvent /\ b \in DatedEvent /\ a.at = at /\ b.at = at
  BY DEF Event, DatedEvent
<1> HIDE DEF a, b
<1>2. OrderedIn(<<a>>, lo, hi)
  BY <1>1 DEF OrderedIn
<1>3. /\ <<a, b>> \in Seq(DatedEvent) /\ Len(<<a, b>>) = 2
      /\ \A i \in 1 .. 2 : <<a, b>>[i].at = at
  BY <1>1
<1>4. OrderedIn(<<a, b>>, lo, hi)
  BY <1>3 DEF OrderedIn
<1> QED BY <1>2, <1>4 DEF a, b

\* The frames of a capture are in the order of their times.
InOrder(frames) ==
    \A i, j \in 1 .. Len(frames) : i <= j => frames[i].at <= frames[j].at

\* What a frame raises is dated between the frame before and itself.
LEMMA EventsAtAreOrdered ==
    ASSUME NEW S, NEW frames \in Seq(S), \A f \in S : f.at \in Int,
           InOrder(frames), NEW i \in 1 .. Len(frames), NEW p \in 1 .. Len(frames),
           p = i - 1 \/ (p = 1 /\ i = 1)
    PROVE  OrderedIn(EventsAt(frames, i), frames[p].at, frames[i].at)
<1> DEFINE before == DataBefore(frames, i)
           last   == LastOf(before)
           since  == frames[last].at + StaleAfter
           now    == frames[i].at
           lo     == frames[p].at
<1>1. Len(frames) \in Nat /\ i \in Nat /\ i - 1 \in Nat /\ p <= i
  OBVIOUS
<1>2. now \in Int /\ lo \in Int /\ lo <= now
  BY <1>1, AgesAreTimes DEF InOrder
<1>3. ASSUME GoesStaleAt(frames, i)
      PROVE  since \in Int /\ lo <= since /\ since <= now
  <2>1. Age(frames, i) > StaleAfter
    BY <1>3 DEF GoesStaleAt
  <2>2. before # {}
    <3>1. before = {} => Age(frames, i) = 0
      BY DEF Age
    <3> QED BY <2>1, <3>1, ComparisonAssumption
  <2>3. before \in SUBSET (1 .. i - 1)
    BY DEF DataBefore
  <2>4. last \in before /\ \A k \in before : k <= last
    BY <1>1, <2>2, <2>3, LastIsOne
  <2>5. last \in 1 .. i - 1 /\ last \in 1 .. Len(frames)
    BY <1>1, <2>3, <2>4
  <2>6. Age(frames, i) = now - frames[last].at /\ frames[last].at \in Int
    BY <2>2, <2>5, AgesAreTimes
  <2>7. since \in Int /\ since <= now
    BY <1>2, <2>1, <2>6, ComparisonAssumption
  <2>8. p = i - 1
    BY <1>1, <2>5
  <2>9. CASE last = p
    BY <2>6, <2>7, <2>9, ComparisonAssumption
  <2>10. CASE last # p
    <3>1. p > last /\ p \in 1 .. i - 1
      BY <1>1, <2>5, <2>8, <2>10
    <3>2. Age(frames, p) <= StaleAfter
      BY <1>3, <3>1 DEF GoesStaleAt
    <3>3. DataBefore(frames, p) = before
      <4>1. frames[p].id # DataId
        BY <1>1, <2>4, <2>5, <3>1 DEF DataBefore
      <4>2. \A j \in 1 .. i - 1 : j = p \/ j \in 1 .. p - 1
        BY <1>1, <2>8
      <4>3. \A j \in 1 .. p - 1 : j \in 1 .. i - 1
        BY <1>1, <2>8
      <4> QED BY <4>1, <4>2, <4>3 DEF DataBefore
    <3>4. Age(frames, p) = lo - frames[last].at
      BY <2>2, <3>3 DEF Age
    <3> QED BY <1>2, <2>6, <2>7, <3>2, <3>4, ComparisonAssumption
  <2> QED BY <2>7, <2>9, <2>10
<1> DEFINE stale     == If(GoesStaleAt(frames, i),
                           <<Event("data_message_stale", since),
                             Event("node_silent", since)>>)
           unknown   == If(FirstUnknownAt(frames, i),
                           <<Event("unknown_message_id", now)>>)
           recovered == If(RecoversAt(frames, i),
                           <<Event("message_recovered", now),
                             Event("node_recovered", now)>>)
           gap       == If(GapAt(frames, i), <<Event("sequence_gap", now)>>)
<1>4. EventsAt(frames, i) = stale \o unknown \o recovered \o gap
  BY DEF EventsAt
<1>5. OrderedIn(stale, lo, now)
  <2>1. CASE GoesStaleAt(frames, i)
    <3>1. since \in Int /\ lo <= since /\ since <= now
      BY <1>3, <2>1
    <3> HIDE DEF since, now, lo
    <3>2. OrderedIn(<<Event("data_message_stale", since),
                      Event("node_silent", since)>>, lo, now)
      BY <1>2, <3>1, EventsAreOrdered DEF Kinds
    <3> QED BY <2>1, <3>2 DEF If
  <2>2. CASE ~GoesStaleAt(frames, i)
    BY <2>2, NothingIsOrdered DEF If
  <2> QED BY <2>1, <2>2
<1> HIDE DEF since, lo, now
<1>6. /\ OrderedIn(unknown, now, now)
      /\ OrderedIn(recovered, now, now)
      /\ OrderedIn(gap, now, now)
  <2>1. now <= now
    BY <1>2
  <2>2. /\ OrderedIn(<<Event("unknown_message_id", now)>>, now, now)
        /\ OrderedIn(<<Event("sequence_gap", now)>>, now, now)
        /\ OrderedIn(<<Event("message_recovered", now),
                       Event("node_recovered", now)>>, now, now)
    BY <1>2, <2>1, EventsAreOrdered DEF Kinds
  <2> QED BY <2>2, NothingIsOrdered DEF If
<1> HIDE DEF stale, unknown, recovered, gap
<1>7. OrderedIn(stale \o unknown, lo, now)
  BY <1>2, <1>5, <1>6, JoinIsOrdered
<1>8. OrderedIn(stale \o unknown \o recovered, lo, now)
  BY <1>2, <1>6, <1>7, JoinIsOrdered
<1>9. OrderedIn(stale \o unknown \o recovered \o gap, lo, now)
  BY <1>2, <1>6, <1>8, JoinIsOrdered
<1> QED BY <1>4, <1>9 DEF lo, now

\* So the findings of an ordered capture are produced in the order of their
\* dates.
LEMMA ProducedIsOrdered ==
    ASSUME NEW S, NEW frames \in Seq(S), \A f \in S : f.at \in Int,
           InOrder(frames)
    PROVE  /\ Produced(frames) \in Seq(DatedEvent)
           /\ \A i, j \in 1 .. Len(Produced(frames)) :
                 i <= j => Produced(frames)[i].at <= Produced(frames)[j].at
<1> DEFINE N == Len(frames)
<1>1. N \in Nat
  OBVIOUS
<1>2. PICK f : /\ f[0] = <<>>
               /\ \A n \in 1 .. N : f[n] = f[n - 1] \o EventsAt(frames, n)
               /\ Produced(frames) = f[N]
  BY <1>1, ProducedIs
<1> DEFINE T == {n \in Nat : n \in 1 .. N =>
                                OrderedIn(f[n], frames[1].at, frames[n].at)}
<1>3. \A n \in 1 .. N : frames[n].at \in Int
  BY AgesAreTimes
<1>4. 0 \in T
  OBVIOUS
<1>5. ASSUME NEW n \in Nat, n \in T PROVE n + 1 \in T
  <2> SUFFICES ASSUME n + 1 \in 1 .. N
               PROVE  OrderedIn(f[n + 1], frames[1].at, frames[n + 1].at)
    OBVIOUS
  <2>1. f[n + 1] = f[n] \o EventsAt(frames, n + 1)
    <3>1. (n + 1) - 1 = n
      OBVIOUS
    <3> QED BY <1>2, <3>1
  <2>2. 1 \in 1 .. N
    BY <1>1
  <2>3. CASE n = 0
    <3>1. OrderedIn(EventsAt(frames, 1), frames[1].at, frames[1].at)
      BY <2>2, EventsAtAreOrdered
    <3>2. OrderedIn(<<>>, frames[1].at, frames[1].at)
      BY NothingIsOrdered
    <3>3. OrderedIn(<<>> \o EventsAt(frames, 1), frames[1].at, frames[1].at)
      BY <1>3, <2>2, <3>1, <3>2, JoinIsOrdered
    <3>4. n + 1 = 1
      BY <2>3
    <3>5. f[n] = <<>>
      BY <1>2, <2>3
    <3> HIDE DEF T, N
    <3>6. f[n + 1] = <<>> \o EventsAt(frames, 1)
      BY <2>1, <3>4, <3>5, Zenon
    <3> QED BY <3>3, <3>4, <3>6
  <2>4. CASE n # 0
    <3>1. n \in 1 .. N /\ n = (n + 1) - 1 /\ 1 <= n /\ n <= n + 1
      BY <1>1, <2>4
    <3>2. OrderedIn(f[n], frames[1].at, frames[n].at)
      BY <1>5, <3>1
    <3>3. OrderedIn(EventsAt(frames, n + 1), frames[n].at, frames[n + 1].at)
      <4>1. n \in 1 .. Len(frames) /\ n + 1 \in 1 .. Len(frames)
        BY <3>1
      <4> HIDE DEF T, N
      <4> QED BY <3>1, <4>1, EventsAtAreOrdered
    <3>4. frames[1].at <= frames[n].at /\ frames[n].at <= frames[n + 1].at
      BY <2>2, <3>1 DEF InOrder
    <3> HIDE DEF T, N
    <3>5. OrderedIn(f[n] \o EventsAt(frames, n + 1), frames[1].at,
                    frames[n + 1].at)
      BY <1>3, <2>2, <3>1, <3>2, <3>3, <3>4, JoinIsOrdered
    <3> QED BY <2>1, <3>5
  <2> QED BY <2>3, <2>4
<1> HIDE DEF T
<1>6. Nat \subseteq T
  BY <1>4, <1>5, Induction
<1>7. CASE N = 0
  <2>1. Produced(frames) = <<>>
    BY <1>2, <1>7
  <2> QED BY <2>1
<1>8. CASE N # 0
  <2>1. N \in 1 .. N
    BY <1>1, <1>8
  <2>2. OrderedIn(f[N], frames[1].at, frames[N].at)
    BY <1>1, <1>6, <2>1 DEF T
  <2> QED BY <1>2, <2>2 DEF OrderedIn
<1> QED BY <1>7, <1>8

\* Sorting leaves alone what is in order.
LEMMA SortKeepsOrder ==
    ASSUME NEW s \in Seq(DatedEvent),
           \A i, j \in 1 .. Len(s) : i <= j => s[i].at <= s[j].at
    PROVE  InDateOrder(s) = s
<1> DEFINE N == Len(s)
           NoLater(j, k) == \/ s[j].at < s[k].at
                            \/ s[j].at = s[k].at /\ j <= k
           Place(k) == Cardinality({j \in DOMAIN s : NoLater(j, k)})
<1>1. N \in Nat /\ DOMAIN s = 1 .. N /\ \A k \in 1 .. N : s[k].at \in Int
  <2>1. \A k \in 1 .. N : s[k] \in DatedEvent
    OBVIOUS
  <2> QED BY <2>1 DEF DatedEvent
<1>2. ASSUME NEW k \in 1 .. N PROVE Place(k) = k
  <2>1. ASSUME NEW j \in 1 .. N PROVE NoLater(j, k) <=> j <= k
    <3>1. CASE j <= k
      <4>1. s[j].at <= s[k].at /\ s[j].at \in Int /\ s[k].at \in Int
        BY <1>1, <3>1
      <4> QED BY <3>1, <4>1
    <3>2. CASE ~(j <= k)
      <4>1. s[k].at <= s[j].at /\ s[j].at \in Int /\ s[k].at \in Int
        BY <1>1, <3>2
      <4> QED BY <3>2, <4>1
    <3> QED BY <3>1, <3>2
  <2> HIDE DEF NoLater
  <2>2. {j \in DOMAIN s : NoLater(j, k)} = 1 .. k
    BY <1>1, <2>1
  <2>3. Cardinality(1 .. k) = k
    <3>1. Cardinality(1 .. k) = IF 1 > k THEN 0 ELSE k - 1 + 1
      BY FS_Interval
    <3> QED BY <3>1
  <2> QED BY <2>2, <2>3
<1>3. InDateOrder(s) =
          [p \in 1 .. N |-> s[CHOOSE k \in 1 .. N : Place(k) = p]]
  BY <1>1 DEF InDateOrder
<1> HIDE DEF Place, N
<1>4. \A p \in 1 .. N : (CHOOSE k \in 1 .. N : Place(k) = p) = p
  BY <1>2
<1>5. s = [p \in 1 .. N |-> s[p]]
  BY <1>1
<1> QED BY <1>3, <1>4, <1>5

\* Findings of the same kinds, whatever their dates.
SameKinds(s, t) ==
    /\ s \in Seq(DatedEvent) /\ t \in Seq(DatedEvent)
    /\ Len(s) = Len(t)
    /\ \A i \in 1 .. Len(s) : s[i].kind = t[i].kind

LEMMA JoinKeepsKinds ==
    ASSUME NEW s, NEW t, NEW u, NEW v, SameKinds(s, t), SameKinds(u, v)
    PROVE  SameKinds(s \o u, t \o v)
<1>1. /\ s \in Seq(DatedEvent) /\ t \in Seq(DatedEvent)
      /\ u \in Seq(DatedEvent) /\ v \in Seq(DatedEvent)
      /\ Len(s) = Len(t) /\ Len(u) = Len(v) /\ Len(s) \in Nat /\ Len(u) \in Nat
  BY DEF SameKinds
<1>2. /\ s \o u \in Seq(DatedEvent) /\ t \o v \in Seq(DatedEvent)
      /\ Len(s \o u) = Len(s) + Len(u) /\ Len(t \o v) = Len(s) + Len(u)
  BY <1>1
<1>3. ASSUME NEW i \in 1 .. Len(s) + Len(u)
      PROVE  (s \o u)[i].kind = (t \o v)[i].kind
  <2>1. CASE i \in 1 .. Len(s)
    <3>1. (s \o u)[i] = s[i] /\ (t \o v)[i] = t[i]
      BY <1>1, <2>1
    <3> QED BY <2>1, <3>1 DEF SameKinds
  <2>2. CASE i \notin 1 .. Len(s)
    <3>1. /\ (s \o u)[i] = u[i - Len(s)] /\ (t \o v)[i] = v[i - Len(s)]
          /\ i - Len(s) \in 1 .. Len(u)
      BY <1>1, <2>2
    <3> QED BY <3>1 DEF SameKinds
  <2> QED BY <2>1, <2>2
<1> QED BY <1>2, <1>3 DEF SameKinds

LEMMA NothingIsTheSame == SameKinds(<<>>, <<>>)
BY DEF SameKinds

LEMMA EventsKeepKinds ==
    ASSUME NEW at \in Int, NEW bt \in Int, NEW k \in Kinds, NEW l \in Kinds
    PROVE  /\ SameKinds(<<Event(k, at)>>, <<Event(k, bt)>>)
           /\ SameKinds(<<Event(k, at), Event(l, at)>>,
                        <<Event(k, bt), Event(l, bt)>>)
<1> DEFINE a == Event(k, at)
           b == Event(l, at)
           x == Event(k, bt)
           y == Event(l, bt)
<1>1. /\ {a, b, x, y} \subseteq DatedEvent
      /\ a.kind = x.kind /\ b.kind = y.kind
  BY DEF Event, DatedEvent
<1> HIDE DEF a, b, x, y
<1>2. SameKinds(<<a>>, <<x>>)
  BY <1>1 DEF SameKinds
<1>3. SameKinds(<<a, b>>, <<x, y>>)
  BY <1>1 DEF SameKinds
<1> QED BY <1>2, <1>3 DEF a, b, x, y

\* Two captures whose ages are on the same sides of the threshold.
SameSides(o, r) ==
    \A i \in 1 .. Len(o) : Age(o, i) > StaleAfter <=> Age(r, i) > StaleAfter

LEMMA SameSidesSameKinds ==
    ASSUME NEW S, NEW o \in Seq(S), NEW r \in Seq(S),
           \A f \in S : f.at \in Int, SameContents(o, r), SameSides(o, r),
           NEW i \in 1 .. Len(o)
    PROVE  SameKinds(EventsAt(o, i), EventsAt(r, i))
<1> DEFINE N == Len(o)
<1>1. Len(r) = N /\ N \in Nat /\ i \in Nat /\ \A k \in 1 .. i : k \in 1 .. N
  BY DEF SameContents
<1>2. \A k \in 1 .. N : o[k].id = r[k].id /\ o[k].data = r[k].data
  BY DEF SameContents
<1>3. \A k \in 1 .. N : /\ Age(o, k) > StaleAfter <=> Age(r, k) > StaleAfter
                        /\ Age(o, k) <= StaleAfter <=> Age(r, k) <= StaleAfter
  <2> SUFFICES ASSUME NEW k \in 1 .. N
               PROVE  /\ Age(o, k) > StaleAfter <=> Age(r, k) > StaleAfter
                      /\ Age(o, k) <= StaleAfter <=> Age(r, k) <= StaleAfter
    OBVIOUS
  <2>1. Age(o, k) \in Int /\ Age(r, k) \in Int
    BY <1>1, AgesAreTimes
  <2> QED
    BY <2>1, ComparisonAssumption DEF SameSides
<1> HIDE DEF N
<1>4. /\ \A k \in 1 .. i - 1 : k \in 1 .. N
      /\ \A j \in 1 .. i - 1 : \A k \in j + 1 .. i : k \in 1 .. N
  BY <1>1
<1>5. \A m \in 1 .. N : DataBefore(o, m) = DataBefore(r, m)
  <2> SUFFICES ASSUME NEW m \in 1 .. N
               PROVE  DataBefore(o, m) = DataBefore(r, m)
    OBVIOUS
  <2>1. \A j \in 1 .. m - 1 : j \in 1 .. N
    BY <1>1
  <2> QED BY <1>2, <2>1 DEF DataBefore
<1>6. GoesStaleAt(o, i) <=> GoesStaleAt(r, i)
  BY <1>3, <1>4, <1>5 DEF GoesStaleAt, N
<1>7. \A m \in 1 .. N : RecoversAt(o, m) <=> RecoversAt(r, m)
  <2> SUFFICES ASSUME NEW m \in 1 .. N
               PROVE  RecoversAt(o, m) <=> RecoversAt(r, m)
    OBVIOUS
  <2>1. \A k \in 1 .. m : k \in 1 .. N
    BY <1>1
  <2> QED BY <1>2, <1>3, <1>5, <2>1 DEF RecoversAt
<1>8. FirstUnknownAt(o, i) <=> FirstUnknownAt(r, i)
  BY <1>1, <1>2, <1>4 DEF FirstUnknownAt, N
<1>9. GapAt(o, i) <=> GapAt(r, i)
  <2> DEFINE counted(frames) ==
                 {j \in DataBefore(frames, i) :
                     /\ HasCounter(frames[j])
                     /\ \A k \in j + 1 .. i : ~RecoversAt(frames, k)}
  <2>1. \A k \in 1 .. N : /\ HasCounter(o[k]) <=> HasCounter(r[k])
                          /\ Counter(o[k]) = Counter(r[k])
    BY <1>2 DEF HasCounter, Counter
  <2>2. \A j \in DataBefore(o, i) : j \in 1 .. i - 1
    BY DEF DataBefore
  <2>3. counted(o) = counted(r)
    <3>1. DataBefore(o, i) = DataBefore(r, i)
      BY <1>5 DEF N
    <3> QED BY <1>4, <1>7, <2>1, <2>2, <3>1
  <2>4. counted(o) # {} => LastOf(counted(o)) \in 1 .. N
    <3>1. i - 1 \in Nat /\ counted(o) \in SUBSET (1 .. i - 1)
      BY <1>1, <2>2
    <3> HIDE DEF counted
    <3> QED
      BY <1>4, <3>1, LastIsOne
  <2>5. i \in 1 .. N
    BY DEF N
  <2>6. \A frames :
            GapAt(frames, i) <=>
                /\ HasCounter(frames[i])
                /\ counted(frames) # {}
                /\ ((Counter(frames[i])
                       - Counter(frames[LastOf(counted(frames))]))
                     % CounterModulus) - 1 \in 1 .. MaxReportableGap
    BY DEF GapAt
  <2> HIDE DEF counted
  <2> QED
    BY <2>1, <2>3, <2>4, <2>5, <2>6
<1>10. RecoversAt(o, i) <=> RecoversAt(r, i)
  BY <1>7 DEF N
<1> DEFINE sinceO == o[LastOf(DataBefore(o, i))].at + StaleAfter
           sinceR == r[LastOf(DataBefore(r, i))].at + StaleAfter
<1>11. o[i].at \in Int /\ r[i].at \in Int
  BY <1>1, AgesAreTimes
<1>12. GoesStaleAt(o, i) => sinceO \in Int /\ sinceR \in Int
  <2>1. ASSUME GoesStaleAt(o, i) PROVE DataBefore(o, i) # {}
    <3>1. DataBefore(o, i) = {} => Age(o, i) = 0
      BY DEF Age
    <3> QED BY <2>1, <3>1, ComparisonAssumption DEF GoesStaleAt
  <2>2. DataBefore(o, i) # {} =>
            LastOf(DataBefore(o, i)) \in 1 .. N
    BY AgesAreTimes DEF N
  <2>3. \A j \in 1 .. N : o[j].at \in Int /\ r[j].at \in Int
    <3>1. \A j \in 1 .. N : o[j].at \in Int
      BY AgesAreTimes DEF N
    <3>2. \A j \in 1 .. Len(r) : r[j].at \in Int
      BY <1>1, AgesAreTimes DEF N
    <3> QED BY <1>1, <3>1, <3>2
  <2>4. DataBefore(o, i) = DataBefore(r, i)
    BY <1>5 DEF N
  <2> QED BY <2>1, <2>2, <2>3, <2>4, ComparisonAssumption
<1> DEFINE stale(frames, since) ==
               If(GoesStaleAt(frames, i), <<Event("data_message_stale", since),
                                            Event("node_silent", since)>>)
           unknown(frames) ==
               If(FirstUnknownAt(frames, i),
                  <<Event("unknown_message_id", frames[i].at)>>)
           recovered(frames) ==
               If(RecoversAt(frames, i),
                  <<Event("message_recovered", frames[i].at),
                    Event("node_recovered", frames[i].at)>>)
           gap(frames) ==
               If(GapAt(frames, i), <<Event("sequence_gap", frames[i].at)>>)
<1>13. /\ EventsAt(o, i) = stale(o, sinceO) \o unknown(o) \o recovered(o) \o gap(o)
       /\ EventsAt(r, i) = stale(r, sinceR) \o unknown(r) \o recovered(r) \o gap(r)
  BY DEF EventsAt
<1> HIDE DEF sinceO, sinceR
<1>14. SameKinds(stale(o, sinceO), stale(r, sinceR))
  <2>1. CASE GoesStaleAt(o, i)
    <3>1. SameKinds(<<Event("data_message_stale", sinceO),
                      Event("node_silent", sinceO)>>,
                    <<Event("data_message_stale", sinceR),
                      Event("node_silent", sinceR)>>)
      BY <1>12, <2>1, EventsKeepKinds DEF Kinds
    <3> QED BY <1>6, <2>1, <3>1 DEF If
  <2>2. CASE ~GoesStaleAt(o, i)
    BY <1>6, <2>2, NothingIsTheSame DEF If
  <2> QED BY <2>1, <2>2
<1>15. /\ SameKinds(unknown(o), unknown(r))
       /\ SameKinds(recovered(o), recovered(r))
       /\ SameKinds(gap(o), gap(r))
  <2>1. /\ SameKinds(<<Event("unknown_message_id", o[i].at)>>,
                     <<Event("unknown_message_id", r[i].at)>>)
        /\ SameKinds(<<Event("sequence_gap", o[i].at)>>,
                     <<Event("sequence_gap", r[i].at)>>)
        /\ SameKinds(<<Event("message_recovered", o[i].at),
                       Event("node_recovered", o[i].at)>>,
                     <<Event("message_recovered", r[i].at),
                       Event("node_recovered", r[i].at)>>)
    BY <1>11, EventsKeepKinds DEF Kinds
  <2> QED BY <1>8, <1>9, <1>10, <2>1, NothingIsTheSame DEF If
<1> HIDE DEF stale, unknown, recovered, gap
<1>16. SameKinds(stale(o, sinceO) \o unknown(o), stale(r, sinceR) \o unknown(r))
  BY <1>14, <1>15, JoinKeepsKinds
<1>17. SameKinds(stale(o, sinceO) \o unknown(o) \o recovered(o),
                 stale(r, sinceR) \o unknown(r) \o recovered(r))
  BY <1>15, <1>16, JoinKeepsKinds
<1>18. SameKinds(stale(o, sinceO) \o unknown(o) \o recovered(o) \o gap(o),
                 stale(r, sinceR) \o unknown(r) \o recovered(r) \o gap(r))
  BY <1>15, <1>17, JoinKeepsKinds
<1> QED BY <1>13, <1>18

\* Two captures that raise the same kinds at each frame raise the same.
LEMMA SameKindsAdd ==
    ASSUME NEW o, NEW r, Len(o) \in Nat, Len(r) = Len(o),
           \A n \in 1 .. Len(o) : SameKinds(EventsAt(o, n), EventsAt(r, n))
    PROVE  SameKinds(Produced(o), Produced(r))
<1> DEFINE N == Len(o)
<1>1. PICK f : /\ f[0] = <<>>
               /\ \A n \in 1 .. N : f[n] = f[n - 1] \o EventsAt(o, n)
               /\ Produced(o) = f[N]
  BY ProducedIs
<1>2. PICK g : /\ g[0] = <<>>
               /\ \A n \in 1 .. N : g[n] = g[n - 1] \o EventsAt(r, n)
               /\ Produced(r) = g[N]
  BY ProducedIs
<1> DEFINE T == {n \in Nat : n \in 0 .. N => SameKinds(f[n], g[n])}
<1>3. 0 \in T
  <2>1. SameKinds(f[0], g[0])
    BY <1>1, <1>2, NothingIsTheSame
  <2> QED BY <2>1
<1>4. ASSUME NEW n \in Nat, n \in T PROVE n + 1 \in T
  <2> SUFFICES ASSUME n + 1 \in 0 .. N PROVE SameKinds(f[n + 1], g[n + 1])
    OBVIOUS
  <2>1. n \in 0 .. N /\ n + 1 \in 1 .. N /\ (n + 1) - 1 = n
    OBVIOUS
  <2>2. SameKinds(f[n], g[n])
    BY <1>4, <2>1
  <2>3. SameKinds(EventsAt(o, n + 1), EventsAt(r, n + 1))
    BY <2>1
  <2>4. SameKinds(f[n] \o EventsAt(o, n + 1), g[n] \o EventsAt(r, n + 1))
    BY <2>2, <2>3, JoinKeepsKinds
  <2> QED BY <1>1, <1>2, <2>1, <2>4
<1> HIDE DEF T
<1>5. N \in T
  BY <1>3, <1>4, Induction
<1>6. N \in 0 .. N
  OBVIOUS
<1> QED BY <1>1, <1>2, <1>5, <1>6 DEF T

\* compare_captures does not fail for the times alone: two captures with the
\* same identifiers and payloads, both in the order of their times, pass,
\* however much the times differ, as long as no age is past the freshness
\* threshold in one and not in the other.  The order is needed, because the
\* findings are compared in the order of their dates (monitor.py:85-87).
THEOREM SameSidesPass ==
    ASSUME NEW S, NEW o \in Seq(S), NEW r \in Seq(S),
           \A f \in S : f.at \in Int, InOrder(o), InOrder(r),
           SameContents(o, r), SameSides(o, r)
    PROVE  Passed(o, r)
<1>1. SequenceSeries(o) = SequenceSeries(r)
  BY SameSeries
<1>2. EventKinds(o) = EventKinds(r)
  <2> DEFINE p == Produced(o)
             q == Produced(r)
  <2>1. Len(o) \in Nat /\ Len(r) = Len(o)
    BY DEF SameContents
  <2>2. SameKinds(p, q)
    <3>1. \A n \in 1 .. Len(o) : SameKinds(EventsAt(o, n), EventsAt(r, n))
      BY SameSidesSameKinds
    <3> QED BY <2>1, <3>1, SameKindsAdd
  <2>3. InDateOrder(p) = p /\ InDateOrder(q) = q
    BY ProducedIsOrdered, SortKeepsOrder
  <2>4. /\ EventKinds(o) = [i \in DOMAIN p |-> p[i].kind]
        /\ EventKinds(r) = [i \in DOMAIN q |-> q[i].kind]
    BY <2>3 DEF EventKinds
  <2> HIDE DEF p, q
  <2>5. DOMAIN p = 1 .. Len(p) /\ DOMAIN q = 1 .. Len(p)
    BY <2>2 DEF SameKinds
  <2> QED BY <2>2, <2>4, <2>5 DEF SameKinds
<1>3. /\ Len(o) = Len(r) /\ IdentifierOrderMatches(o, r) /\ PayloadsMatch(o, r)
  BY ComparisonIsComplete
<1> QED BY <1>1, <1>2, <1>3 DEF Passed

=============================================================================
