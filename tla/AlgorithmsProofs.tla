--------------------------- MODULE AlgorithmsProofs ---------------------------
(***************************************************************************)
(* What the algorithms compute, for every input of any subject.            *)
(***************************************************************************)
EXTENDS Algorithms, SequenceTheorems, NaturalsInduction, WellFoundedInduction, TLAPS

(***************************************************************************)
(* The inputs.                                                             *)
(***************************************************************************)
InputOK ==
    /\ subject \in Subjects
    /\ input \in Seq(Byte)
    /\ room \in Nat
    /\ Len(input) + room < 2^30

\* Every input is a string of bytes.
LEMMA InputInvariant == Spec => []InputOK
<1>1. Init => InputOK
  BY InputAssumption DEF Init, InputOK
<1>2. InputOK /\ [Next]_vars => InputOK'
  <2> SUFFICES ASSUME InputOK, [Next]_vars
               PROVE  InputOK'
    OBVIOUS
  <2>1. CASE AddByte
    <3>1. PICK b \in Alphabet(subject) : input' = Append(input, b)
      BY <2>1 DEF AddByte
    <3>2. b \in Byte
      BY InputAssumption DEF InputOK
    <3>3. input' \in Seq(Byte) /\ Len(input') = Len(input) + 1
      BY <3>1, <3>2 DEF InputOK
    <3>4. room' = room - 1 /\ room > 0 /\ subject' = subject
      BY <2>1 DEF AddByte
    <3> QED
      BY <3>3, <3>4 DEF InputOK
  <2>2. CASE UNCHANGED vars
    BY <2>2 DEF InputOK, vars
  <2> QED
    BY <2>1, <2>2 DEF Next, Done
<1> QED
  BY <1>1, <1>2, PTL DEF Spec

(***************************************************************************)
(* Lines of the info log.                                                  *)
(***************************************************************************)
\* PosixLogger::Logv writes every message whole, whatever its length and the size of the
\* stack buffer: the second buffer always has room for the newline and the terminator.
THEOREM LogvWritesWholeLines == Spec => []LinesWhole
<1>1. InputOK => LinesWhole
  <2> SUFFICES ASSUME InputOK
               PROVE  LinesWhole
    OBVIOUS
  <2> DEFINE line == Header \o input
  <2>1. line \in Seq(Byte)
    BY LoggingAssumption DEF InputOK
  <2>2. Len(line) \in Nat
    BY <2>1
  <2> HIDE DEF line
  <2>3. ~ (Len(line) >= SecondBufferSize(line) - 1)
    BY <2>2 DEF SecondBufferSize
  <2>4. kStackBufferSize \in Nat
    BY LoggingAssumption
  <2>5. Logv(input) = IF line[Len(line)] = Newline THEN line ELSE Append(line, Newline)
    <3>1. CASE Len(line) < kStackBufferSize - 1
      <4>1. ~ (Len(line) >= kStackBufferSize - 1)
        BY <3>1, <2>2, <2>4
      <4> QED
        BY <3>1, <4>1 DEF Logv, line
    <3>2. CASE ~ (Len(line) < kStackBufferSize - 1)
      BY <3>2, <2>3 DEF Logv, line
    <3> QED
      BY <3>1, <3>2
  <2> QED
    BY <2>5 DEF LinesWhole, line
<1> QED
  BY <1>1, InputInvariant, PTL

(***************************************************************************)
(* Sequences of bytes.                                                     *)
(***************************************************************************)
LEMMA FunctionIsSeq ==
    ASSUME NEW S, NEW n \in Nat, NEW f \in [1 .. n -> S]
    PROVE  f \in Seq(S) /\ Len(f) = n
<1>1. f \in Seq(S)
  BY SeqDef
<1>2. Len(f) \in Nat /\ DOMAIN f = 1 .. Len(f) /\ DOMAIN f = 1 .. n
  BY <1>1, LenProperties
<1>3. \A a, b \in Nat : 1 .. a = 1 .. b => a = b
  <2> SUFFICES ASSUME NEW a \in Nat, NEW b \in Nat, 1 .. a = 1 .. b, a # b
               PROVE  FALSE
    OBVIOUS
  <2>1. a \in 1 .. a => a \in 1 .. b
    OBVIOUS
  <2>2. b \in 1 .. b => b \in 1 .. a
    OBVIOUS
  <2> QED
    BY <2>1, <2>2
<1> QED
  BY <1>1, <1>2, <1>3

LEMMA ByteStrings ==
    ASSUME NEW s \in Seq(Byte), NEW t \in Seq(Byte)
    PROVE  /\ Len(s) \in Nat /\ Len(t) \in Nat
           /\ s \o t \in Seq(Byte)
           /\ Len(s \o t) = Len(s) + Len(t)
           /\ \A i \in 1 .. Len(s) : (s \o t)[i] = s[i]
           /\ \A i \in 1 .. Len(t) : (s \o t)[Len(s) + i] = t[i]
<1>1. Len(s) \in Nat /\ Len(t) \in Nat
  BY LenProperties
<1>2. /\ s \o t \in Seq(Byte)
      /\ Len(s \o t) = Len(s) + Len(t)
      /\ \A i \in 1 .. Len(s) + Len(t) : (s \o t)[i] = IF i <= Len(s) THEN s[i] ELSE t[i - Len(s)]
  BY ConcatProperties
<1>3. ASSUME NEW i \in 1 .. Len(s) PROVE (s \o t)[i] = s[i]
  BY <1>1, <1>2
<1>4. ASSUME NEW i \in 1 .. Len(t) PROVE (s \o t)[Len(s) + i] = t[i]
  <2>1. Len(s) + i \in 1 .. Len(s) + Len(t) /\ ~ (Len(s) + i <= Len(s)) /\ (Len(s) + i) - Len(s) = i
    BY <1>1
  <2> QED
    BY <1>2, <2>1
<1> QED
  BY <1>1, <1>2, <1>3, <1>4

LEMMA ByteSubSeq ==
    ASSUME NEW s \in Seq(Byte), NEW m \in 1 .. Len(s) + 1, NEW n \in m - 1 .. Len(s)
    PROVE  /\ SubSeq(s, m, n) \in Seq(Byte)
           /\ Len(SubSeq(s, m, n)) = n - m + 1
           /\ \A i \in 1 .. n - m + 1 : SubSeq(s, m, n)[i] = s[m + i - 1]
<1>1. Len(s) \in Nat /\ m \in Int /\ n \in Int
  BY LenProperties
<1>2. \A i \in m .. n : s[i] \in Byte
  <2> SUFFICES ASSUME NEW i \in m .. n PROVE s[i] \in Byte
    OBVIOUS
  <2>1. i \in 1 .. Len(s)
    BY <1>1
  <2> QED
    BY <2>1, ElementOfSeq
<1>3. /\ SubSeq(s, m, n) \in Seq(Byte)
      /\ Len(SubSeq(s, m, n)) = IF m <= n THEN n - m + 1 ELSE 0
      /\ \A i \in 1 .. n - m + 1 : SubSeq(s, m, n)[i] = s[m + i - 1]
  BY <1>1, <1>2, SubSeqProperties
<1>4. (IF m <= n THEN n - m + 1 ELSE 0) = n - m + 1
  BY <1>1
<1> QED
  BY <1>3, <1>4

LEMMA EqualBytes ==
    ASSUME NEW s \in Seq(Byte), NEW t \in Seq(Byte), Len(s) = Len(t),
           \A i \in 1 .. Len(s) : s[i] = t[i]
    PROVE  s = t
  BY SeqEqual

\* The parts of a concatenation are cut out of it again.
LEMMA ConcatParts ==
    ASSUME NEW s \in Seq(Byte), NEW t \in Seq(Byte)
    PROVE  /\ SubSeq(s \o t, 1, Len(s)) = s
           /\ SubSeq(s \o t, Len(s) + 1, Len(s) + Len(t)) = t
<1> DEFINE u == s \o t
<1>1. /\ Len(s) \in Nat /\ Len(t) \in Nat /\ u \in Seq(Byte) /\ Len(u) = Len(s) + Len(t)
      /\ \A i \in 1 .. Len(s) : u[i] = s[i]
      /\ \A i \in 1 .. Len(t) : u[Len(s) + i] = t[i]
  BY ByteStrings
<1> HIDE DEF u
<1>2. SubSeq(u, 1, Len(s)) = s
  <2> DEFINE a == SubSeq(u, 1, Len(s))
  <2>0. 1 \in 1 .. Len(u) + 1 /\ Len(s) \in 1 - 1 .. Len(u)
    BY <1>1
  <2>1. /\ a \in Seq(Byte) /\ Len(a) = Len(s) - 1 + 1
        /\ \A i \in 1 .. Len(s) - 1 + 1 : a[i] = u[1 + i - 1]
    BY <1>1, <2>0, ByteSubSeq
  <2> HIDE DEF a
  <2>2. Len(a) = Len(s) /\ \A i \in 1 .. Len(a) : a[i] = s[i]
    BY <1>1, <2>1
  <2> QED
    BY <2>1, <2>2, EqualBytes DEF a
<1>3. SubSeq(u, Len(s) + 1, Len(s) + Len(t)) = t
  <2> DEFINE m == Len(s) + 1
             n == Len(s) + Len(t)
             a == SubSeq(u, m, n)
  <2>0. m \in 1 .. Len(u) + 1 /\ n \in m - 1 .. Len(u)
    BY <1>1
  <2>1. /\ a \in Seq(Byte) /\ Len(a) = n - m + 1
        /\ \A i \in 1 .. n - m + 1 : a[i] = u[m + i - 1]
    <3> HIDE DEF m, n
    <3> QED
      BY <1>1, <2>0, ByteSubSeq
  <2> HIDE DEF a
  <2>2. Len(a) = Len(t)
    BY <1>1, <2>1
  <2>3. ASSUME NEW i \in 1 .. Len(a) PROVE a[i] = t[i]
    <3>1. m + i - 1 = Len(s) + i
      BY <1>1, <2>2
    <3> QED
      BY <1>1, <2>1, <2>2, <3>1
  <2> QED
    BY <2>1, <2>2, <2>3, EqualBytes DEF a
<1> QED
  BY <1>2, <1>3 DEF u

(***************************************************************************)
(* Words of a fixed length.                                                *)
(***************************************************************************)
LEMMA ShlBits ==
    ASSUME NEW w, w \subseteq Nat, NEW n \in Nat, NEW width \in Nat, NEW b \in Nat
    PROVE  b \in Shl(w, n, width) <=> n <= b /\ b < width /\ b - n \in w
<1>1. ASSUME b \in Shl(w, n, width) PROVE n <= b /\ b < width /\ b - n \in w
  <2>1. PICK i \in w : i + n < width /\ b = i + n
    BY <1>1 DEF Shl
  <2>2. i \in Nat /\ b - n = i
    BY <2>1
  <2> QED
    BY <2>1, <2>2
<1>2. ASSUME n <= b, b < width, b - n \in w PROVE b \in Shl(w, n, width)
  <2>1. (b - n) + n = b
    OBVIOUS
  <2> QED
    BY <1>2, <2>1 DEF Shl
<1> QED
  BY <1>1, <1>2

LEMMA ShlRange ==
    ASSUME NEW w, w \subseteq Nat, NEW n \in Nat, NEW width \in Nat
    PROVE  Shl(w, n, width) \subseteq n .. width - 1
  BY DEF Shl

LEMMA ShrBits ==
    ASSUME NEW w, w \subseteq Nat, NEW n \in Nat, NEW b \in Nat
    PROVE  b \in Shr(w, n) <=> b + n \in w
<1>1. ASSUME b \in Shr(w, n) PROVE b + n \in w
  <2>1. PICK i \in w : i >= n /\ b = i - n
    BY <1>1 DEF Shr
  <2>2. i \in Nat /\ b + n = i
    BY <2>1
  <2> QED
    BY <2>2
<1>2. ASSUME b + n \in w PROVE b \in Shr(w, n)
  <2>1. (b + n) - n = b /\ b + n >= n
    OBVIOUS
  <2> QED
    BY <1>2, <2>1 DEF Shr
<1> QED
  BY <1>1, <1>2

LEMMA ShrRange ==
    ASSUME NEW w, w \subseteq Nat, NEW n \in Nat
    PROVE  Shr(w, n) \subseteq Nat
  BY DEF Shr

\* The i-th byte of an encoding is bits 8 (i - 1) and up.
LEMMA Encoded64 ==
    ASSUME NEW v \in Word64
    PROVE  /\ EncodeFixed64(v) \in Seq(Byte) /\ Len(EncodeFixed64(v)) = 8
           /\ \A i \in 1 .. 8 : \A c \in 0 .. 7 : c \in EncodeFixed64(v)[i] <=> 8 * (i - 1) + c \in v
<1> DEFINE code == EncodeFixed64(v)
<1>1. v \subseteq Nat
  BY DEF Word64
<1>2. ASSUME NEW i \in 1 .. 8
      PROVE  /\ code[i] \in Byte
             /\ \A c \in 0 .. 7 : c \in code[i] <=> 8 * (i - 1) + c \in v
  <2>1. code[i] = Low(Shr(v, 8 * (i - 1)), 8)
    BY DEF EncodeFixed64
  <2>2. 8 * (i - 1) \in Nat
    OBVIOUS
  <2>3. Shr(v, 8 * (i - 1)) \subseteq Nat
    BY <1>1, <2>2, ShrRange
  <2>4. code[i] \in Byte
    BY <2>1, <2>3 DEF Low, Byte
  <2>5. ASSUME NEW c \in 0 .. 7 PROVE c \in code[i] <=> 8 * (i - 1) + c \in v
    <3>1. c \in Shr(v, 8 * (i - 1)) <=> c + 8 * (i - 1) \in v
      <4> DEFINE n == 8 * (i - 1)
      <4>1. n \in Nat /\ c \in Nat
        BY <2>2
      <4> HIDE DEF n
      <4>2. c \in Shr(v, n) <=> c + n \in v
        BY <1>1, <4>1, ShrBits
      <4> QED
        BY <4>2 DEF n
    <3>2. c \in code[i] <=> c \in Shr(v, 8 * (i - 1))
      BY <2>1 DEF Low
    <3>3. c + 8 * (i - 1) = 8 * (i - 1) + c
      OBVIOUS
    <3> QED
      BY <3>1, <3>2, <3>3
  <2> QED
    BY <2>4, <2>5
<1>3. code \in [1 .. 8 -> Byte]
  <2>1. code = [i \in 1 .. 8 |-> code[i]]
    BY DEF EncodeFixed64
  <2> HIDE DEF code
  <2> QED
    BY <2>1, <1>2
<1> HIDE DEF code
<1>4. code \in Seq(Byte) /\ Len(code) = 8
  BY <1>3, FunctionIsSeq
<1> QED
  BY <1>2, <1>4 DEF code

\* The number that eight bytes stand for has, from bit 8 (i - 1) up, the i-th of them.
LEMMA Decoded64 ==
    ASSUME NEW s \in Seq(Byte), Len(s) = 8
    PROVE  /\ DecodeFixed64(s) \in Word64
           /\ \A i \in 1 .. 8 : \A c \in 0 .. 7 : 8 * (i - 1) + c \in DecodeFixed64(s) <=> c \in s[i]
<1> DEFINE Part(i) == Shl(s[i], 8 * (i - 1), 64)
<1>1. DecodeFixed64(s) = UNION {Part(i) : i \in 1 .. 8}
  BY DEF DecodeFixed64
<1>2. ASSUME NEW i \in 1 .. 8
      PROVE  /\ Part(i) \subseteq 0 .. 63
             /\ \A b \in Nat : b \in Part(i) <=> 8 * (i - 1) <= b /\ b < 64 /\ b - 8 * (i - 1) \in s[i]
             /\ s[i] \subseteq 0 .. 7
  <2> DEFINE n == 8 * (i - 1)
  <2>1. n \in Nat /\ n \in 0 .. 56
    OBVIOUS
  <2>0. Part(i) = Shl(s[i], n, 64)
    OBVIOUS
  <2> HIDE DEF n, Part
  <2>2. s[i] \subseteq 0 .. 7
    <3>1. i \in 1 .. Len(s)
      OBVIOUS
    <3>2. s[i] \in Byte
      BY <3>1, ElementOfSeq
    <3> QED
      BY <3>2 DEF Byte
  <2>3. s[i] \subseteq Nat
    BY <2>2
  <2>4. Shl(s[i], n, 64) \subseteq n .. 64 - 1
    BY <2>1, <2>3, ShlRange
  <2>5. \A b \in Nat : b \in Shl(s[i], n, 64) <=> n <= b /\ b < 64 /\ b - n \in s[i]
    BY <2>1, <2>3, ShlBits
  <2>6. Shl(s[i], n, 64) \subseteq 0 .. 63
    <3>1. n .. 64 - 1 \subseteq 0 .. 63
      BY <2>1
    <3> QED
      BY <2>4, <3>1, Zenon
  <2>7. \A b \in Nat : b \in Part(i) <=> n <= b /\ b < 64 /\ b - n \in s[i]
    BY <2>0, <2>5
  <2> QED
    BY <2>0, <2>2, <2>6, <2>7 DEF n
<1> HIDE DEF Part
<1>3. DecodeFixed64(s) \in Word64
  BY <1>1, <1>2 DEF Word64
<1>4. ASSUME NEW i \in 1 .. 8, NEW c \in 0 .. 7
      PROVE  8 * (i - 1) + c \in DecodeFixed64(s) <=> c \in s[i]
  <2> DEFINE b == 8 * (i - 1) + c
  <2>1. b \in Nat /\ b < 64 /\ 8 * (i - 1) <= b /\ b - 8 * (i - 1) = c
    OBVIOUS
  <2>2. ASSUME NEW j \in 1 .. 8, b \in Part(j) PROVE j = i
    <3>1. 8 * (j - 1) <= b /\ b - 8 * (j - 1) \in 0 .. 7
      BY <1>2, <2>1, <2>2
    <3> QED
      BY <3>1
  <2>3. b \in Part(i) <=> c \in s[i]
    BY <1>2, <2>1
  <2> HIDE DEF b
  <2> QED
    BY <1>1, <2>2, <2>3 DEF b
<1> QED
  BY <1>3, <1>4

\* Two numbers of 64 bits with the same bytes are the same.
LEMMA Bits64 ==
    ASSUME NEW b \in 0 .. 63
    PROVE  \E i \in 1 .. 8 : \E c \in 0 .. 7 : b = 8 * (i - 1) + c
<1>1. b \div 8 + 1 \in 1 .. 8 /\ b % 8 \in 0 .. 7 /\ b = 8 * ((b \div 8 + 1) - 1) + (b % 8)
  BY SMT
<1> QED
  BY <1>1

\* EncodeFixed64 and DecodeFixed64 are inverse to each other.
LEMMA DecodeEncoded64 ==
    ASSUME NEW v \in Word64
    PROVE  DecodeFixed64(EncodeFixed64(v)) = v
<1> DEFINE code == EncodeFixed64(v)
           w == DecodeFixed64(code)
<1>1. /\ code \in Seq(Byte) /\ Len(code) = 8
      /\ \A i \in 1 .. 8 : \A c \in 0 .. 7 : c \in code[i] <=> 8 * (i - 1) + c \in v
  BY Encoded64
<1> HIDE DEF code
<1>2. /\ w \in Word64
      /\ \A i \in 1 .. 8 : \A c \in 0 .. 7 : 8 * (i - 1) + c \in w <=> c \in code[i]
  BY <1>1, Decoded64
<1> HIDE DEF w
<1>3. ASSUME NEW b \in 0 .. 63 PROVE b \in w <=> b \in v
  <2>1. PICK i \in 1 .. 8, c \in 0 .. 7 : b = 8 * (i - 1) + c
    BY Bits64
  <2>2. 8 * (i - 1) + c \in w <=> 8 * (i - 1) + c \in v
    BY <1>1, <1>2
  <2> QED
    BY <2>1, <2>2
<1>4. w \subseteq 0 .. 63 /\ v \subseteq 0 .. 63
  BY <1>2 DEF Word64
<1>5. w = v
  BY <1>3, <1>4, Zenon
<1> QED
  BY <1>5 DEF w, code

LEMMA EncodeDecoded64 ==
    ASSUME NEW s \in Seq(Byte), Len(s) = 8
    PROVE  EncodeFixed64(DecodeFixed64(s)) = s
<1> DEFINE v == DecodeFixed64(s)
           code == EncodeFixed64(v)
<1>1. /\ v \in Word64
      /\ \A i \in 1 .. 8 : \A c \in 0 .. 7 : 8 * (i - 1) + c \in v <=> c \in s[i]
  BY Decoded64
<1> HIDE DEF v
<1>2. /\ code \in Seq(Byte) /\ Len(code) = 8
      /\ \A i \in 1 .. 8 : \A c \in 0 .. 7 : c \in code[i] <=> 8 * (i - 1) + c \in v
  BY <1>1, Encoded64
<1> HIDE DEF code
<1>3. ASSUME NEW i \in 1 .. 8 PROVE code[i] = s[i]
  <2>1. \A c \in 0 .. 7 : c \in code[i] <=> c \in s[i]
    BY <1>1, <1>2
  <2>2. code[i] \in Byte /\ s[i] \in Byte
    BY <1>2, ElementOfSeq
  <2> QED
    BY <2>1, <2>2 DEF Byte
<1>4. code = s
  BY <1>2, <1>3, EqualBytes
<1> QED
  BY <1>4 DEF code, v

(***************************************************************************)
(* Internal keys.                                                          *)
(***************************************************************************)
LEMMA PackParts ==
    ASSUME NEW num \in Word64
    PROVE  PackSequenceAndType(Shr(num, 8), Low(num, 8)) = num
<1>1. num \subseteq 0 .. 63 /\ num \subseteq Nat
  BY DEF Word64
<1>2. Shr(num, 8) \subseteq Nat
  BY <1>1, ShrRange
<1>3. ASSUME NEW b \in Nat PROVE b \in PackSequenceAndType(Shr(num, 8), Low(num, 8)) <=> b \in num
  <2>1. b \in Shl(Shr(num, 8), 8, 64) <=> 8 <= b /\ b < 64 /\ b - 8 \in Shr(num, 8)
    BY <1>2, ShlBits
  <2>2. CASE 8 <= b
    <3>1. b - 8 \in Nat /\ (b - 8) + 8 = b
      BY <2>2
    <3>2. b - 8 \in Shr(num, 8) <=> b \in num
      <4>1. \A d \in Nat : d \in Shr(num, 8) <=> d + 8 \in num
        BY <1>1, ShrBits
      <4> QED
        BY <3>1, <4>1
    <3>3. b \in num => b < 64
      BY <1>1
    <3>4. b \notin Low(num, 8)
      BY <2>2 DEF Low
    <3> QED
      BY <2>1, <2>2, <3>2, <3>3, <3>4 DEF PackSequenceAndType
  <2>3. CASE b < 8
    <3>1. b \in Low(num, 8) <=> b \in num
      BY <2>3 DEF Low
    <3>2. b \notin Shl(Shr(num, 8), 8, 64)
      BY <2>1, <2>3
    <3> QED
      BY <3>1, <3>2 DEF PackSequenceAndType
  <2> QED
    BY <2>2, <2>3
<1>4. PackSequenceAndType(Shr(num, 8), Low(num, 8)) \subseteq Nat
  <2>1. Shl(Shr(num, 8), 8, 64) \subseteq 8 .. 64 - 1
    BY <1>2, ShlRange
  <2>2. Shl(Shr(num, 8), 8, 64) \subseteq Nat
    BY <2>1
  <2>3. Low(num, 8) \subseteq Nat
    BY <1>1 DEF Low
  <2> QED
    BY <2>2, <2>3 DEF PackSequenceAndType
<1> QED
  BY <1>1, <1>3, <1>4, Zenon

LEMMA PartsOfPacked ==
    ASSUME NEW seq \in Word64, NEW type \in {{}, {0}}
    PROVE  LET num == PackSequenceAndType(seq, type)
           IN  num \in Word64 /\ Low(num, 8) = type /\ Shr(num, 8) = seq \cap 0 .. 55
<1> DEFINE num == PackSequenceAndType(seq, type)
           high == Shl(seq, 8, 64)
<1>1. seq \subseteq 0 .. 63 /\ seq \subseteq Nat
  BY DEF Word64
<1>2. high \subseteq 8 .. 64 - 1 /\ \A b \in Nat : b \in high <=> 8 <= b /\ b < 64 /\ b - 8 \in seq
  BY <1>1, ShlRange, ShlBits
<1>3. num = high \cup type /\ type \subseteq {0}
  BY DEF PackSequenceAndType
<1> HIDE DEF num, high
<1>4. num \in Word64 /\ num \subseteq Nat
  BY <1>2, <1>3 DEF Word64
<1>5. Low(num, 8) = type
  <2>1. \A b \in high : ~ (b < 8)
    BY <1>2
  <2>2. \A b \in type : b < 8
    BY <1>3
  <2> QED
    BY <1>3, <2>1, <2>2 DEF Low
<1>6. ASSUME NEW b \in Nat PROVE b \in Shr(num, 8) <=> b \in seq /\ b \in 0 .. 55
  <2>1. b \in Shr(num, 8) <=> b + 8 \in num
    BY <1>4, ShrBits
  <2>2. b + 8 \in Nat /\ (b + 8) - 8 = b /\ b + 8 # 0 /\ 8 <= b + 8
    OBVIOUS
  <2>3. b + 8 \in num <=> b + 8 < 64 /\ b \in seq
    BY <1>2, <1>3, <2>2
  <2> QED
    BY <2>1, <2>3
<1>7. Shr(num, 8) \subseteq Nat
  BY <1>4, ShrRange
<1>8. Shr(num, 8) = seq \cap 0 .. 55
  BY <1>1, <1>6, <1>7, Zenon
<1> QED
  BY <1>4, <1>5, <1>8 DEF num

LEMMA AsWordType ==
    ASSUME NEW s \in Seq(Byte), NEW width \in Nat
    PROVE  AsWord(s, width) \subseteq 0 .. width - 1
<1> SUFFICES ASSUME NEW i \in 1 .. Len(s)
             PROVE  Shl(s[i], 8 * (i - 1), width) \subseteq 0 .. width - 1
  BY DEF AsWord
<1> DEFINE n == 8 * (i - 1)
<1>1. n \in Nat
  BY LenProperties
<1>2. s[i] \subseteq Nat
  BY ElementOfSeq DEF Byte
<1> HIDE DEF n
<1>3. Shl(s[i], n, width) \subseteq n .. width - 1
  BY <1>1, <1>2, ShlRange
<1> QED
  BY <1>1, <1>3 DEF n

\* Whatever ParseInternalKey accepts is the encoding of what it returns, and an internal key
\* comes back from it unchanged exactly if its sequence number fits the 56 bits of the tag:
\* for user keys of any length.
THEOREM InternalKeysComeBack == Spec => []InternalKeysExact
<1>1. InputOK => InternalKeysExact
  <2> SUFFICES ASSUME InputOK
               PROVE  InternalKeysExact
    OBVIOUS
  <2> DEFINE parsed == ParseInternalKey(input)
             seq == AsWord(input, 64)
  <2>1. input \in Seq(Byte) /\ Len(input) \in Nat
    BY LenProperties DEF InputOK
  <2>2. ASSUME parsed.ok
        PROVE  AppendInternalKey(parsed.user_key, parsed.sequence, parsed.type) = input
    <3> DEFINE tag == SubSeq(input, Len(input) - 7, Len(input))
               num == DecodeFixed64(tag)
               key == ExtractUserKey(input)
    <3>1. ~ (Len(input) < 8)
      BY <2>2 DEF ParseInternalKey
    <3>2. parsed = [ok |-> TRUE, user_key |-> key, sequence |-> Shr(num, 8), type |-> Low(num, 8)]
      BY <2>2 DEF ParseInternalKey
    <3>3. tag \in Seq(Byte) /\ Len(tag) = 8
      <4>1. Len(input) - 7 \in 1 .. Len(input) + 1 /\ Len(input) \in (Len(input) - 7) - 1 .. Len(input)
        BY <2>1, <3>1
      <4>2. tag \in Seq(Byte) /\ Len(tag) = Len(input) - (Len(input) - 7) + 1
        BY <2>1, <4>1, ByteSubSeq
      <4> QED
        BY <2>1, <4>2
    <3>4. num \in Word64 /\ EncodeFixed64(num) = tag
      BY <3>3, Decoded64, EncodeDecoded64
    <3>5. AppendInternalKey(key, Shr(num, 8), Low(num, 8)) = key \o tag
      BY <3>4, PackParts DEF AppendInternalKey
    <3>6. key \o tag = input
      <4>1. 1 \in 1 .. Len(input) + 1 /\ Len(input) - 8 \in 1 - 1 .. Len(input) /\ Len(input) \in Len(input) - 8 .. Len(input)
        BY <2>1, <3>1
      <4>2. SubSeq(input, 1, Len(input) - 8) \o SubSeq(input, (Len(input) - 8) + 1, Len(input)) = SubSeq(input, 1, Len(input))
        BY <2>1, <4>1, ConcatAdjacentSubSeq
      <4>3. SubSeq(input, 1, Len(input)) = input
        BY <2>1, SubSeqFull
      <4>4. (Len(input) - 8) + 1 = Len(input) - 7
        BY <2>1
      <4> QED
        BY <4>2, <4>3, <4>4 DEF ExtractUserKey
    <3> HIDE DEF parsed, key, num, tag
    <3>7. parsed.user_key = key /\ parsed.sequence = Shr(num, 8) /\ parsed.type = Low(num, 8)
      BY <3>2
    <3> QED
      BY <3>5, <3>6, <3>7, Zenon
  <2>3. ASSUME NEW type \in {{}, {0}}
        PROVE  ParseInternalKey(AppendInternalKey(input, seq, type))
                   = [ok |-> TRUE, user_key |-> input, sequence |-> seq, type |-> type] <=> Fits(seq, 56)
    <3> DEFINE num == PackSequenceAndType(seq, type)
               code == EncodeFixed64(num)
               s == input \o code
    <3>0. seq \in Word64
      <4>1. seq \subseteq 0 .. 64 - 1
        BY <2>1, AsWordType
      <4> QED
        BY <4>1 DEF Word64
    <3>1. num \in Word64 /\ Low(num, 8) = type /\ Shr(num, 8) = seq \cap 0 .. 55
      <4> HIDE DEF seq
      <4> QED
        BY <3>0, PartsOfPacked
    <3>2. AppendInternalKey(input, seq, type) = s
      BY DEF AppendInternalKey
    <3> HIDE DEF num
    <3>3. code \in Seq(Byte) /\ Len(code) = 8 /\ DecodeFixed64(code) = num
      BY <3>1, Encoded64, DecodeEncoded64
    <3> HIDE DEF code
    <3>4. /\ Len(s) = Len(input) + 8
          /\ SubSeq(s, 1, Len(input)) = input
          /\ SubSeq(s, Len(input) + 1, Len(input) + 8) = code
      <4>1. Len(s) = Len(input) + Len(code)
        BY <2>1, <3>3, ByteStrings
      <4>2. SubSeq(s, 1, Len(input)) = input /\ SubSeq(s, Len(input) + 1, Len(input) + Len(code)) = code
        BY <2>1, <3>3, ConcatParts
      <4> QED
        BY <3>3, <4>1, <4>2
    <3> HIDE DEF s
    <3>5. ~ (Len(s) < 8) /\ Len(s) - 8 = Len(input) /\ Len(s) - 7 = Len(input) + 1
      BY <2>1, <3>4
    <3>6. ExtractUserKey(s) = input /\ DecodeFixed64(SubSeq(s, Len(s) - 7, Len(s))) = num
      BY <3>3, <3>4, <3>5 DEF ExtractUserKey
    <3>7. Fits(Low(num, 8), 1)
      BY <3>1 DEF Fits
    <3>8. ParseInternalKey(s) = [ok |-> TRUE, user_key |-> input, sequence |-> seq \cap 0 .. 55, type |-> type]
      BY <3>1, <3>5, <3>6, <3>7 DEF ParseInternalKey
    <3>9. seq \cap 0 .. 55 = seq <=> Fits(seq, 56)
      BY DEF Fits
    <3>10. \A q, r : [ok |-> TRUE, user_key |-> input, sequence |-> q, type |-> type]
                       = [ok |-> TRUE, user_key |-> input, sequence |-> r, type |-> type] <=> q = r
      <4> TAKE q, r
      <4> DEFINE x == [ok |-> TRUE, user_key |-> input, sequence |-> q, type |-> type]
                 y == [ok |-> TRUE, user_key |-> input, sequence |-> r, type |-> type]
      <4>1. x.sequence = q /\ y.sequence = r
        OBVIOUS
      <4> QED
        BY <4>1
    <3> HIDE DEF seq
    <3> QED
      BY <3>2, <3>8, <3>9, <3>10
  <2> QED
    BY <2>2, <2>3 DEF InternalKeysExact
<1> QED
  BY <1>1, InputInvariant, PTL

(***************************************************************************)
(* Recursive functions on 0 .. N: they exist, and what holds of them is    *)
(* shown from the least number for which it does not.                      *)
(***************************************************************************)
LEMMA LeastNumber ==
    ASSUME NEW T, T \subseteq Nat, T # {}
    PROVE  \E x \in T : \A y \in T : x <= y
<1>1. PICK x \in T : \A y \in T : ~ (<<y, x>> \in OpToRel(<, Nat))
  BY NatLessThanWellFounded, WFMin
<1>2. \A y, z \in Nat : y < z => <<y, z>> \in OpToRel(<, Nat)
  BY Zenon DEF OpToRel
<1>3. \A y \in T : ~ (y < x)
  BY <1>1, <1>2, Zenon
<1> QED
  BY <1>3

LEMMA StepByStep ==
    ASSUME NEW N \in Nat, NEW S, 0 \in S, \A n \in 1 .. N : n - 1 \in S => n \in S
    PROVE  \A n \in 0 .. N : n \in S
<1> SUFFICES ASSUME NEW n \in 0 .. N, n \notin S
             PROVE  FALSE
  OBVIOUS
<1> DEFINE T == {k \in 0 .. N : k \notin S}
<1>1. T \subseteq Nat /\ T # {}
  OBVIOUS
<1> HIDE DEF T
<1>2. PICK m \in T : \A y \in T : m <= y
  BY <1>1, LeastNumber
<1>3. m \in 0 .. N /\ m \notin S /\ m # 0
  BY <1>2 DEF T
<1>4. m \in 1 .. N /\ m - 1 \in 0 .. N /\ ~ (m <= m - 1)
  BY <1>3
<1>5. m - 1 \notin T
  BY <1>2, <1>4
<1>6. m - 1 \in S
  BY <1>4, <1>5 DEF T
<1> QED
  BY <1>3, <1>4, <1>6

\* f starts with c, and each value comes from the one before.
Follows(f, N, V, c, G) ==
    f \in [0 .. N -> V] /\ f[0] = c /\ \A n \in 1 .. N : f[n] = G[n][f[n - 1]]

LEMMA Recursion ==
    ASSUME NEW N \in Nat, NEW V, NEW c \in V, NEW G \in [1 .. N -> [V -> V]]
    PROVE  \E f : Follows(f, N, V, c, G)
<1> DEFINE Good(n, f) == f \in [0 .. n -> V] /\ f[0] = c /\ \A k \in 1 .. n : f[k] = G[k][f[k - 1]]
           S == {n \in 0 .. N : \E f : Good(n, f)}
<1>1. 0 \in S
  <2> DEFINE f == [k \in 0 .. 0 |-> c]
  <2>1. f \in [0 .. 0 -> V] /\ f[0] = c /\ 1 .. 0 = {}
    OBVIOUS
  <2>2. Good(0, f)
    BY <2>1
  <2> HIDE DEF f
  <2>3. 0 \in 0 .. N /\ \E g : Good(0, g)
    BY <2>2
  <2> QED
    BY <2>3
<1>2. ASSUME NEW m \in 1 .. N, m - 1 \in S PROVE m \in S
  <2>1. PICK g : Good(m - 1, g)
    BY <1>2
  <2> DEFINE v == G[m][g[m - 1]]
             h == [k \in 0 .. m |-> IF k = m THEN v ELSE g[k]]
  <2>2. g[m - 1] \in V
    <3>1. m - 1 \in 0 .. m - 1
      OBVIOUS
    <3> QED
      BY <2>1, <3>1
  <2>3. v \in V
    BY <2>2
  <2> HIDE DEF v
  <2>4. \A k \in 0 .. m : k # m => k \in 0 .. m - 1 /\ g[k] \in V
    BY <2>1
  <2>5. h \in [0 .. m -> V]
    BY <2>3, <2>4
  <2>6. h[0] = c
    BY <2>1
  <2>7. ASSUME NEW k \in 1 .. m PROVE h[k] = G[k][h[k - 1]]
    <3>1. k - 1 \in 0 .. m /\ k - 1 # m /\ k \in 0 .. m
      OBVIOUS
    <3>2. h[k - 1] = g[k - 1]
      BY <3>1
    <3>3. CASE k = m
      BY <3>1, <3>2, <3>3 DEF v
    <3>4. CASE k # m
      <4>1. k \in 1 .. m - 1
        BY <3>4
      <4>2. h[k] = g[k] /\ g[k] = G[k][g[k - 1]]
        BY <2>1, <3>1, <3>4, <4>1
      <4> QED
        BY <3>2, <4>2
    <3> QED
      BY <3>3, <3>4
  <2> HIDE DEF h
  <2>8. Good(m, h)
    BY <2>5, <2>6, <2>7
  <2> QED
    BY <2>8
<1>3. N \in S
  <2> HIDE DEF S
  <2>1. \A n \in 0 .. N : n \in S
    BY <1>1, <1>2, StepByStep
  <2> QED
    BY <2>1
<1> QED
  BY <1>3 DEF Follows

(***************************************************************************)
(* Words and numbers.                                                      *)
(***************************************************************************)
LEMMA Powers ==
    ASSUME NEW k \in 0 .. 30
    PROVE  2^k \in Nat /\ 2^k > 0 /\ 2^(k + 1) = 2 * 2^k /\ (k >= 8 => 2^k >= 256)
<1> DEFINE p(n) == 2^n
<1>1. /\ p(0) = 1 /\ p(1) = 2 /\ p(2) = 4 /\ p(3) = 8 /\ p(4) = 16 /\ p(5) = 32
      /\ p(6) = 64 /\ p(7) = 128 /\ p(8) = 256 /\ p(9) = 512 /\ p(10) = 1024 /\ p(11) = 2048
      /\ p(12) = 4096 /\ p(13) = 8192 /\ p(14) = 16384 /\ p(15) = 32768 /\ p(16) = 65536 /\ p(17) = 131072
      /\ p(18) = 262144 /\ p(19) = 524288 /\ p(20) = 1048576 /\ p(21) = 2097152 /\ p(22) = 4194304 /\ p(23) = 8388608
      /\ p(24) = 16777216 /\ p(25) = 33554432 /\ p(26) = 67108864 /\ p(27) = 134217728 /\ p(28) = 268435456 /\ p(29) = 536870912
      /\ p(30) = 1073741824 /\ p(31) = 2147483648
  BY SMT
<1> HIDE DEF p
<1>2. p(k) \in Nat /\ p(k) > 0 /\ p(k + 1) = 2 * p(k) /\ (k >= 8 => p(k) >= 256)
  BY <1>1, SMTT(60)
<1> QED
  BY <1>2 DEF p

\* One binary digit more.
LEMMA DoubleModulus ==
    ASSUME NEW m \in Nat, NEW p \in Nat \ {0}
    PROVE  m % (2 * p) = (m % p) + p * ((m \div p) % 2)
<1> DEFINE q == m \div p
           r == m % p
           a == q \div 2
           b == q % 2
<1>1. q \in Nat /\ r \in 0 .. p - 1 /\ m = p * q + r
  BY SMT
<1>2. a \in Nat /\ b \in 0 .. 1 /\ q = 2 * a + b
  BY <1>1, SMT
<1> HIDE DEF q, r, a, b
<1>3. p * q = p * (2 * a) + p * b
  BY <1>2, SMT
<1>4. p * (2 * a) = (2 * p) * a
  BY <1>2, SMT
<1>5. m = (2 * p) * a + (p * b + r) /\ p * b + r \in 0 .. (2 * p) - 1
  BY <1>1, <1>2, <1>3, <1>4, SMT
<1>6. \A n \in Nat \ {0}, x \in Nat : \A y \in 0 .. n - 1 : (n * x + y) % n = y
  BY SMT
<1>7. m % (2 * p) = p * b + r
  BY <1>5, <1>6, <1>2
<1> QED
  BY <1>7, <1>1, <1>2 DEF q, r, b

\* The function of which ToNat is the last value.
IsSum(f, w) ==
    f = [n \in 0 .. 31 |-> IF n = 0 THEN 0 ELSE f[n - 1] + (IF n - 1 \in w THEN 2^(n - 1) ELSE 0)]

LEMMA ToNatSum ==
    ASSUME NEW w
    PROVE  \E f : /\ f[0] = 0
                  /\ \A n \in 1 .. 31 : f[n] = f[n - 1] + (IF n - 1 \in w THEN 2^(n - 1) ELSE 0)
                  /\ ToNat(w) = f[31]
<1> DEFINE B(n) == IF n - 1 \in w THEN 2^(n - 1) ELSE 0
           G == [n \in 1 .. 31 |-> [v \in Nat |-> v + B(n)]]
<1>1. \A n \in 1 .. 31 : B(n) \in Nat
  <2> SUFFICES ASSUME NEW n \in 1 .. 31 PROVE B(n) \in Nat
    OBVIOUS
  <2>1. n - 1 \in 0 .. 30
    OBVIOUS
  <2>2. 2^(n - 1) \in Nat
    BY <2>1, Powers
  <2> QED
    BY <2>2
<1> HIDE DEF B
<1>2. G \in [1 .. 31 -> [Nat -> Nat]]
  BY <1>1
<1> HIDE DEF G
<1>3. PICK f \in [0 .. 31 -> Nat] : f[0] = 0 /\ \A n \in 1 .. 31 : f[n] = G[n][f[n - 1]]
  <2>1. 31 \in Nat /\ 0 \in Nat
    OBVIOUS
  <2>2. \E f : Follows(f, 31, Nat, 0, G)
    BY <1>2, <2>1, Recursion
  <2> QED
    BY <2>2 DEF Follows
<1>4. ASSUME NEW n \in 1 .. 31 PROVE f[n] = f[n - 1] + B(n)
  <2>1. n - 1 \in 0 .. 31 /\ f[n - 1] \in Nat
    BY <1>3
  <2> QED
    BY <1>3, <2>1 DEF G
<1>5. IsSum(f, w)
  <2>1. f = [n \in 0 .. 31 |-> f[n]]
    BY <1>3
  <2>2. \A n \in 0 .. 31 : f[n] = IF n = 0 THEN 0 ELSE f[n - 1] + B(n)
    BY <1>3, <1>4
  <2> QED
    BY <2>1, <2>2 DEF IsSum, B
<1>6. ToNat(w) = (CHOOSE g : IsSum(g, w))[31]
  BY DEF ToNat, IsSum
<1> DEFINE h == CHOOSE g : IsSum(g, w)
<1>7. IsSum(h, w)
  BY <1>5
<1> HIDE DEF h
<1>8. h[0] = 0 /\ \A n \in 1 .. 31 : h[n] = h[n - 1] + B(n)
  <2>1. 0 \in 0 .. 31 /\ \A n \in 1 .. 31 : n \in 0 .. 31 /\ n # 0
    OBVIOUS
  <2> QED
    BY <1>7, <2>1 DEF IsSum, B
<1> QED
  BY <1>6, <1>8 DEF h, B

\* A number that fits 31 bits comes back from its word.
LEMMA NumberOfWord ==
    ASSUME NEW m \in Nat, m < 2^31
    PROVE  ToNat(FromNat(m)) = m
<1> DEFINE w == FromNat(m)
<1>1. PICK f : /\ f[0] = 0
               /\ \A n \in 1 .. 31 : f[n] = f[n - 1] + (IF n - 1 \in w THEN 2^(n - 1) ELSE 0)
               /\ ToNat(w) = f[31]
  BY ToNatSum
<1> DEFINE S == {n \in 0 .. 31 : f[n] = m % 2^n}
<1>2. 0 \in S
  <2>1. 2^0 = 1 /\ m % 1 = 0
    BY SMT
  <2> QED
    BY <1>1, <2>1
<1>3. ASSUME NEW n \in 1 .. 31, n - 1 \in S PROVE n \in S
  <2> DEFINE k == n - 1
             p == 2^k
  <2>1. k \in 0 .. 30 /\ k + 1 = n
    OBVIOUS
  <2> HIDE DEF k
  <2>2. p \in Nat \ {0} /\ 2^n = 2 * p
    <3>1. p \in Nat /\ p > 0 /\ 2^(k + 1) = 2 * p
      BY <2>1, Powers
    <3>2. 2^n = 2^(k + 1)
      BY <2>1, Zenon
    <3> QED
      BY <3>1, <3>2
  <2>3. k \in w <=> p <= m /\ (m \div p) % 2 = 1
    BY <2>1 DEF FromNat
  <2> HIDE DEF p
  <2>4. (m \div p) % 2 \in 0 .. 1 /\ (~ (p <= m) => (m \div p) % 2 = 0)
    <3>1. m \div p \in Nat
      BY <2>2, SMT
    <3>2. ASSUME ~ (p <= m) PROVE m \div p = 0
      BY <2>2, <3>2, SMT
    <3>3. \A q \in Nat : q % 2 \in 0 .. 1
      BY SMT
    <3>4. 0 % 2 = 0
      BY SMT
    <3> QED
      BY <3>1, <3>2, <3>3, <3>4
  <2>5. (IF k \in w THEN p ELSE 0) = p * ((m \div p) % 2)
    <3>1. CASE (m \div p) % 2 = 1
      <4>1. k \in w
        BY <2>3, <2>4, <3>1
      <4> QED
        BY <2>2, <3>1, <4>1
    <3>2. CASE (m \div p) % 2 = 0
      <4>1. k \notin w
        BY <2>3, <3>2
      <4> QED
        BY <2>2, <3>2, <4>1
    <3> QED
      BY <2>4, <3>1, <3>2
  <2>6. f[n] = f[k] + (IF k \in w THEN p ELSE 0) /\ f[k] = m % p
    BY <1>1, <1>3 DEF k, p
  <2>7. m % 2^n = (m % p) + p * ((m \div p) % 2)
    BY <2>2, DoubleModulus
  <2> QED
    BY <2>5, <2>6, <2>7
<1>4. 31 \in S
  <2> HIDE DEF S
  <2>1. \A n \in 0 .. 31 : n \in S
    BY <1>2, <1>3, StepByStep
  <2> QED
    BY <2>1
<1>5. m % 2^31 = m
  BY SMT
<1> QED
  BY <1>1, <1>4, <1>5

LEMMA SmallWord ==
    ASSUME NEW m \in Nat
    PROVE  FromNat(m) \subseteq 0 .. 30 /\ (m < 256 => FromNat(m) \in Byte)
<1>1. FromNat(m) \subseteq 0 .. 30
  BY DEF FromNat
<1>2. ASSUME m < 256, NEW i \in FromNat(m) PROVE i \in 0 .. 7
  <2>1. i \in 0 .. 30 /\ 2^i <= m
    BY <1>2 DEF FromNat
  <2>2. 2^i \in Nat /\ (i >= 8 => 2^i >= 256)
    BY <2>1, Powers
  <2> DEFINE p == 2^i
  <2>3. p \in Nat /\ (i >= 8 => p >= 256) /\ p <= m
    BY <2>1, <2>2
  <2> HIDE DEF p
  <2> QED
    BY <1>2, <2>1, <2>3
<1> QED
  BY <1>1, <1>2 DEF Byte

(***************************************************************************)
(* The Bloom filter.                                                       *)
(***************************************************************************)
IsRemainder(f, h, n) ==
    f = [i \in 0 .. 32 |-> IF i = 0 THEN 0 ELSE ((IF 32 - i \in h THEN 1 ELSE 0) + 2 * f[i - 1]) % n]

\* A probe stays inside the array.
LEMMA ModRange ==
    ASSUME NEW h, NEW n \in Nat \ {0}
    PROVE  Mod(h, n) \in 0 .. n - 1
<1> DEFINE V == 0 .. n - 1
           B(i) == IF 32 - i \in h THEN 1 ELSE 0
           G == [i \in 1 .. 32 |-> [v \in V |-> (B(i) + 2 * v) % n]]
<1>1. \A i : B(i) \in 0 .. 1
  OBVIOUS
<1> HIDE DEF B
<1>2. \A i : \A v \in V : (B(i) + 2 * v) % n \in V
  <2> SUFFICES ASSUME NEW i, NEW v \in V PROVE (B(i) + 2 * v) % n \in V
    OBVIOUS
  <2> DEFINE x == B(i) + 2 * v
  <2>1. x \in Nat
    BY <1>1
  <2> HIDE DEF x
  <2>2. x % n \in 0 .. n - 1
    BY <2>1, SMT
  <2> QED
    BY <2>2 DEF x
<1> HIDE DEF V
<1>3. G \in [1 .. 32 -> [V -> V]]
  BY <1>2
<1> HIDE DEF G
<1>4. 0 \in V
  BY DEF V
<1>5. PICK f : Follows(f, 32, V, 0, G)
  <2>1. 32 \in Nat
    OBVIOUS
  <2> QED
    BY <1>3, <1>4, <2>1, Recursion
<1>6. IsRemainder(f, h, n)
  <2>1. f = [i \in 0 .. 32 |-> f[i]]
    BY <1>5 DEF Follows
  <2>2. ASSUME NEW i \in 0 .. 32, i # 0 PROVE f[i] = (B(i) + 2 * f[i - 1]) % n
    <3>1. i \in 1 .. 32 /\ i - 1 \in 0 .. 32
      BY <2>2
    <3>2. f[i - 1] \in V /\ f[i] = G[i][f[i - 1]]
      BY <1>5, <3>1 DEF Follows
    <3> QED
      BY <3>1, <3>2 DEF G
  <2>3. f[0] = 0
    BY <1>5 DEF Follows
  <2>4. \A i \in 0 .. 32 : f[i] = IF i = 0 THEN 0 ELSE (B(i) + 2 * f[i - 1]) % n
    BY <2>2, <2>3
  <2> QED
    BY <2>1, <2>4 DEF IsRemainder, B
<1> DEFINE g == CHOOSE g : IsRemainder(g, h, n)
<1>7. IsRemainder(g, h, n)
  BY <1>6
<1>8. Mod(h, n) = g[32]
  BY DEF Mod, IsRemainder
<1> HIDE DEF g
<1>9. \A i \in 0 .. 32 : g[i] \in V
  <2> DEFINE S == {i \in 0 .. 32 : g[i] \in V}
  <2>1. 0 \in S
    BY <1>4, <1>7 DEF IsRemainder
  <2>2. ASSUME NEW i \in 1 .. 32, i - 1 \in S PROVE i \in S
    <3>1. i \in 0 .. 32 /\ i # 0 /\ g[i - 1] \in V
      BY <2>2
    <3>2. g[i] = (B(i) + 2 * g[i - 1]) % n
      BY <1>7, <3>1 DEF IsRemainder, B
    <3> QED
      BY <1>2, <3>1, <3>2
  <2>3. 32 \in Nat
    OBVIOUS
  <2> HIDE DEF S
  <2>4. \A i \in 0 .. 32 : i \in S
    BY <2>1, <2>2, <2>3, StepByStep
  <2> QED
    BY <2>4 DEF S
<1> QED
  BY <1>8, <1>9 DEF V

\* The filter of a set of keys matches each of them, whatever stands in front of it, for any
\* number of keys, any number of bits per key and whatever the hash function.
LEMMA FilterMatchesItsKeys ==
    ASSUME NEW keys, Len(keys) \in Nat, NEW bits_per_key \in Nat, NEW dst \in Seq(Byte),
           NEW i \in 1 .. Len(keys)
    PROVE  LET all == CreateFilter(keys, bits_per_key, dst)
           IN  KeyMayMatch(keys[i], SubSeq(all, Len(dst) + 1, Len(all)))
<1> DEFINE k_ == NumProbes(bits_per_key)
           bytes == FilterBytes(Len(keys), bits_per_key)
           P(n, j) == Probes(BloomHash(keys[n]), k_, 8 * bytes)[j]
           positions == UNION {{P(n, j) : j \in 1 .. k_} : n \in 1 .. Len(keys)}
           array == [b \in 1 .. bytes |-> {p % 8 : p \in {q \in positions : q \div 8 = b - 1}}]
           last == <<FromNat(k_)>>
           all == CreateFilter(keys, bits_per_key, dst)
           filter == SubSeq(all, Len(dst) + 1, Len(all))
<1>1. k_ \in 1 .. 30
  <2>1. (bits_per_key * 69) \div 100 \in Int
    BY SMT
  <2> QED
    BY <2>1 DEF NumProbes
<1>2. bytes \in Nat /\ bytes >= 8
  <2> DEFINE n == Len(keys) * bits_per_key
             b == IF n < 64 THEN 64 ELSE n
  <2>1. n \in Nat
    BY SMT
  <2> HIDE DEF n
  <2>2. b \in Nat /\ b >= 64
    BY <2>1
  <2> HIDE DEF b
  <2>3. (b + 7) \div 8 \in Nat /\ (b + 7) \div 8 >= 8
    BY <2>2, SMT
  <2> QED
    BY <2>3 DEF FilterBytes, b, n
<1>3. all = dst \o array \o last
  BY DEF CreateFilter
<1> HIDE DEF k_, bytes
<1>4. ASSUME NEW n \in 1 .. Len(keys), NEW j \in 1 .. k_
      PROVE  P(n, j) \in 0 .. 8 * bytes - 1
  <2>1. 8 * bytes \in Nat \ {0}
    BY <1>2
  <2>2. \E x : P(n, j) = Mod(x, 8 * bytes)
    BY DEF Probes
  <2> QED
    BY <2>1, <2>2, ModRange
<1> HIDE DEF P
<1>5. positions \subseteq 0 .. 8 * bytes - 1
  BY <1>4
<1> HIDE DEF positions
<1>6. array \in Seq(Byte) /\ Len(array) = bytes
  <2>1. ASSUME NEW b \in 1 .. bytes PROVE array[b] \in Byte
    <3>1. \A p \in positions : p % 8 \in 0 .. 7
      <4> SUFFICES ASSUME NEW p \in positions PROVE p % 8 \in 0 .. 7
        OBVIOUS
      <4>1. p \in Int
        BY <1>2, <1>5
      <4> QED
        BY <4>1, SMT
    <3>2. array[b] = {p % 8 : p \in {q \in positions : q \div 8 = b - 1}}
      OBVIOUS
    <3> QED
      BY <3>1, <3>2 DEF Byte
  <2>2. array = [b \in 1 .. bytes |-> array[b]]
    OBVIOUS
  <2> HIDE DEF array
  <2>3. array \in [1 .. bytes -> Byte]
    BY <2>1, <2>2
  <2> QED
    BY <1>2, <2>3, FunctionIsSeq
<1>7. last \in Seq(Byte) /\ Len(last) = 1 /\ last[1] = FromNat(k_)
  <2>1. k_ \in Nat /\ k_ < 256
    BY <1>1
  <2>2. FromNat(k_) \in Byte
    BY <2>1, SmallWord
  <2> QED
    BY <2>2
<1> HIDE DEF last
<1>8. filter = array \o last
  <2> HIDE DEF array
  <2>1. all = dst \o (array \o last)
    BY <1>3, <1>6, <1>7, ConcatAssociative
  <2> DEFINE t == array \o last
  <2>2. t \in Seq(Byte)
    BY <1>6, <1>7, ByteStrings
  <2> HIDE DEF t
  <2>3. Len(dst \o t) = Len(dst) + Len(t) /\ SubSeq(dst \o t, Len(dst) + 1, Len(dst) + Len(t)) = t
    BY <2>2, ByteStrings, ConcatParts
  <2> HIDE DEF all
  <2> QED
    BY <2>1, <2>3 DEF t
<1> HIDE DEF all
<1>9. /\ Len(filter) = bytes + 1
      /\ filter[bytes + 1] = FromNat(k_)
      /\ \A b \in 1 .. bytes : filter[b] = array[b]
  <2> HIDE DEF array
  <2>1. /\ Len(array \o last) = Len(array) + Len(last)
        /\ \A b \in 1 .. Len(array) : (array \o last)[b] = array[b]
        /\ \A b \in 1 .. Len(last) : (array \o last)[Len(array) + b] = last[b]
    BY <1>6, <1>7, ByteStrings
  <2>2. 1 \in 1 .. Len(last)
    BY <1>7
  <2> HIDE DEF filter
  <2> QED
    BY <1>6, <1>7, <1>8, <2>1, <2>2
<1> HIDE DEF filter
<1>10. ~ (Len(filter) < 2) /\ Len(filter) - 1 = bytes
  BY <1>2, <1>9
<1>11. ToNat(filter[Len(filter)]) = k_
  <2>1. k_ \in Nat /\ k_ < 2^31
    BY <1>1, SMT
  <2>2. ToNat(FromNat(k_)) = k_
    BY <2>1, NumberOfWord
  <2> QED
    BY <1>9, <2>2
<1>12. ASSUME NEW j \in 1 .. k_
       PROVE  P(i, j) % 8 \in filter[P(i, j) \div 8 + 1]
  <2> DEFINE p == P(i, j)
             b == p \div 8 + 1
  <2>1. p \in positions
    BY DEF positions
  <2>2. p \in 0 .. 8 * bytes - 1
    BY <1>4
  <2> HIDE DEF p
  <2>3. b \in 1 .. bytes /\ p \div 8 = b - 1
    BY <1>2, <2>2, SMT
  <2>4. p % 8 \in array[b]
    BY <2>1, <2>3
  <2> QED
    BY <1>9, <2>3, <2>4 DEF p
<1>13. KeyMayMatch(keys[i], filter)
  <2>1. ~ (k_ > 30)
    BY <1>1
  <2> QED
    BY <1>10, <1>11, <1>12, <2>1 DEF KeyMayMatch, P
<1> QED
  BY <1>13 DEF filter, all

LEMMA UserKeyOfInternal ==
    ASSUME NEW user_key \in Seq(Byte), NEW seq \in Word64
    PROVE  /\ AppendInternalKey(user_key, seq, {0}) \in Seq(Byte)
           /\ ExtractUserKey(AppendInternalKey(user_key, seq, {0})) = user_key
<1> DEFINE num == PackSequenceAndType(seq, {0})
           code == EncodeFixed64(num)
           s == user_key \o code
<1>1. num \in Word64
  BY PartsOfPacked
<1>2. code \in Seq(Byte) /\ Len(code) = 8
  BY <1>1, Encoded64
<1>3. AppendInternalKey(user_key, seq, {0}) = s
  BY DEF AppendInternalKey
<1> HIDE DEF code
<1>4. s \in Seq(Byte) /\ Len(s) = Len(user_key) + Len(code) /\ Len(user_key) \in Nat
  BY <1>2, ByteStrings
<1>5. SubSeq(s, 1, Len(user_key)) = user_key
  BY <1>2, ConcatParts
<1> HIDE DEF s
<1>6. Len(s) - 8 = Len(user_key)
  BY <1>2, <1>4
<1> QED
  BY <1>3, <1>4, <1>5, <1>6 DEF ExtractUserKey

\* A Bloom filter made of internal keys has no false negatives: BloomFilterPolicy tests the
\* bits it has set, and InternalFilterPolicy strips the same tag on both sides.
THEOREM FilterHasNoFalseNegatives == Spec => []NoFalseNegatives
<1>1. InputOK => NoFalseNegatives
  <2> SUFFICES ASSUME InputOK
               PROVE  NoFalseNegatives
    OBVIOUS
  <2> DEFINE N == Len(input) + 1
             users == [i \in 1 .. N |-> SubSeq(input, i, Len(input))]
             keys == [i \in 1 .. Len(users) |-> AppendInternalKey(users[i], FromNat(i), {0})]
             earlier == <<{0}, {7}>>
             probe(i) == AppendInternalKey(users[i], 0 .. 55, {0})
  <2>1. input \in Seq(Byte) /\ Len(input) \in Nat /\ N \in Nat
    BY LenProperties DEF InputOK
  <2>2. ASSUME NEW i \in 1 .. N PROVE users[i] \in Seq(Byte)
    <3>1. Len(input) \in i - 1 .. Len(input)
      BY <2>1
    <3>2. SubSeq(input, i, Len(input)) \in Seq(Byte)
      BY <2>1, <3>1, ByteSubSeq
    <3> QED
      BY <3>2
  <2>3. Len(users) = N
    BY <2>1
  <2>4. keys = [i \in 1 .. N |-> AppendInternalKey(users[i], FromNat(i), {0})]
    BY <2>3
  <2> HIDE DEF N, users, keys
  <2>5. Len(keys) = N
    BY <2>1, <2>4
  <2>6. StrippedKeys(keys) = [i \in 1 .. N |-> users[i]]
    <3>1. ASSUME NEW i \in 1 .. N PROVE ExtractUserKey(keys[i]) = users[i]
      <4>1. i \in Nat
        BY <2>1
      <4>2. FromNat(i) \subseteq 0 .. 30
        BY <4>1, SmallWord
      <4>3. FromNat(i) \in Word64
        BY <4>2 DEF Word64
      <4> QED
        BY <2>2, <2>4, <4>3, UserKeyOfInternal
    <3> QED
      BY <2>5, <3>1 DEF StrippedKeys
  <2>7. ASSUME NEW i \in 1 .. N PROVE ExtractUserKey(probe(i)) = users[i]
    <3>1. 0 .. 55 \in Word64
      BY DEF Word64
    <3> QED
      BY <2>2, <3>1, UserKeyOfInternal
  <2>8. earlier \in Seq(Byte)
    BY DEF Byte
  <2> HIDE DEF earlier, probe
  <2>9. ASSUME NEW bits \in {1, 13}, NEW i \in 1 .. N
        PROVE  LET dst == InternalCreateFilter(keys, bits, earlier)
               IN  InternalKeyMayMatch(probe(i), SubSeq(dst, Len(earlier) + 1, Len(dst)))
    <3> DEFINE stripped == StrippedKeys(keys)
               all == CreateFilter(stripped, bits, earlier)
    <3>1. Len(stripped) = N /\ stripped[i] = users[i]
      BY <2>1, <2>6
    <3> HIDE DEF stripped
    <3>2. bits \in Nat /\ Len(stripped) \in Nat /\ i \in 1 .. Len(stripped)
      BY <2>1, <3>1
    <3>3. KeyMayMatch(stripped[i], SubSeq(all, Len(earlier) + 1, Len(all)))
      BY <2>8, <3>2, FilterMatchesItsKeys
    <3> QED
      BY <2>7, <3>1, <3>3 DEF InternalCreateFilter, InternalKeyMayMatch, stripped
  <2> QED
    BY <2>3, <2>9 DEF NoFalseNegatives, N, users, keys, earlier, probe
<1> QED
  BY <1>1, InputInvariant, PTL

(***************************************************************************)
(* Decimal numbers.                                                        *)
(***************************************************************************)
LEMMA DigitFacts ==
    ASSUME NEW d \in 0 .. 9
    PROVE  Digit(d) \in Digits /\ ToNat(Digit(d)) = 48 + d
<1>1. Digit(d) \in Digits
  BY DEF Digits
<1>2. 48 + d \in Nat /\ 48 + d < 2^31
  BY SMT
<1>3. ToNat(FromNat(48 + d)) = 48 + d
  BY <1>2, NumberOfWord
<1> QED
  BY <1>1, <1>3 DEF Digit

\* The digit that a character is.
DigitOf(c) == CHOOSE d \in 0 .. 9 : c = Digit(d)

LEMMA DigitOfDigit ==
    ASSUME NEW c \in Digits
    PROVE  DigitOf(c) \in 0 .. 9 /\ ToNat(c) = 48 + DigitOf(c)
<1>1. \E d \in 0 .. 9 : c = Digit(d)
  BY DEF Digits
<1>2. DigitOf(c) \in 0 .. 9 /\ c = Digit(DigitOf(c))
  BY <1>1 DEF DigitOf
<1> QED
  BY <1>2, DigitFacts

\* The largest of some numbers that are bounded.
LEMMA Greatest ==
    ASSUME NEW N \in Nat, NEW E, E \subseteq 0 .. N, E # {}
    PROVE  \E n \in E : \A m \in E : m <= n
<1> DEFINE T == {k \in 0 .. N : N - k \in E}
<1>1. T \subseteq Nat
  OBVIOUS
<1>2. T # {}
  <2>1. PICK e \in E : TRUE
    OBVIOUS
  <2>2. N - e \in 0 .. N /\ N - (N - e) = e
    OBVIOUS
  <2>3. N - e \in T
    BY <2>1, <2>2
  <2> QED
    BY <2>3
<1>3. \A m \in E : N - m \in T
  <2> SUFFICES ASSUME NEW m \in E PROVE N - m \in T
    OBVIOUS
  <2>1. N - m \in 0 .. N /\ N - (N - m) = m
    OBVIOUS
  <2> QED
    BY <2>1
<1>4. \A k \in T : k \in 0 .. N /\ N - k \in E
  OBVIOUS
<1> HIDE DEF T
<1>5. PICK x \in T : \A y \in T : x <= y
  BY <1>1, <1>2, LeastNumber
<1>6. \A m \in E : m <= N - x
  <2> SUFFICES ASSUME NEW m \in E PROVE m <= N - x
    OBVIOUS
  <2>1. x <= N - m /\ m \in 0 .. N /\ x \in 0 .. N
    BY <1>3, <1>4, <1>5
  <2> QED
    BY <2>1
<1> QED
  BY <1>4, <1>5, <1>6

LEMMA LeadingDigitsFacts ==
    ASSUME NEW s, Len(s) \in Nat
    PROVE  /\ LeadingDigits(s) \in 0 .. Len(s)
           /\ \A i \in 1 .. LeadingDigits(s) : s[i] \in Digits
           /\ LeadingDigits(s) < Len(s) => s[LeadingDigits(s) + 1] \notin Digits
<1> DEFINE ends == {n \in 0 .. Len(s) : \A i \in 1 .. n : s[i] \in Digits}
           n == LeadingDigits(s)
<1>1. ends \subseteq 0 .. Len(s) /\ 0 \in ends
  OBVIOUS
<1>2. \E k \in ends : \A m \in ends : m <= k
  <2> HIDE DEF ends
  <2> QED
    BY <1>1, Greatest
<1>3. n = CHOOSE k \in ends : \A m \in ends : m <= k
  BY DEF LeadingDigits
<1>4. n \in ends /\ \A m \in ends : m <= n
  <2> HIDE DEF ends, n
  <2> QED
    BY <1>2, <1>3
<1> HIDE DEF n
<1>5. n \in 0 .. Len(s) /\ \A i \in 1 .. n : s[i] \in Digits
  BY <1>4
<1>6. ASSUME n < Len(s), s[n + 1] \in Digits PROVE FALSE
  <2>1. n + 1 \in 0 .. Len(s) /\ ~ (n + 1 <= n)
    BY <1>5, <1>6
  <2>2. \A i \in 1 .. n + 1 : i \in 1 .. n \/ i = n + 1
    BY <1>5
  <2>3. n + 1 \in ends
    BY <1>5, <1>6, <2>1, <2>2
  <2> QED
    BY <1>4, <2>1, <2>3
<1> QED
  BY <1>5, <1>6 DEF n

\* The value of the first digits, one after the other.
Values(f, s, N) ==
    f \in [0 .. N -> Nat] /\ f[0] = 0 /\ \A m \in 1 .. N : f[m] = 10 * f[m - 1] + DigitOf(s[m])

IsValue(f, s) ==
    f = [m \in 0 .. Len(s) |-> IF m = 0 THEN 0 ELSE 10 * f[m - 1] + ToNat(s[m]) - 48]

LEMMA DecimalValueIs ==
    ASSUME NEW s, Len(s) \in Nat, \A i \in 1 .. Len(s) : s[i] \in Digits
    PROVE  \E f : Values(f, s, Len(s)) /\ DecimalValue(s) = f[Len(s)]
<1> DEFINE N == Len(s)
           D(m) == DigitOf(s[m])
           G == [m \in 1 .. N |-> [v \in Nat |-> 10 * v + D(m)]]
<1>1. \A m \in 1 .. N : D(m) \in 0 .. 9 /\ ToNat(s[m]) = 48 + D(m)
  BY DigitOfDigit
<1>2. N \in Nat
  OBVIOUS
<1> HIDE DEF D, N
<1>3. G \in [1 .. N -> [Nat -> Nat]]
  BY <1>1
<1> HIDE DEF G
<1>4. PICK f : Follows(f, N, Nat, 0, G)
  <2>1. 0 \in Nat
    OBVIOUS
  <2> QED
    BY <1>2, <1>3, <2>1, Recursion
<1>5. f \in [0 .. N -> Nat] /\ f[0] = 0
  BY <1>4 DEF Follows
<1>6. ASSUME NEW m \in 1 .. N PROVE f[m] = 10 * f[m - 1] + D(m)
  <2>1. m - 1 \in 0 .. N
    BY <1>2
  <2>2. f[m - 1] \in Nat /\ f[m] = G[m][f[m - 1]]
    BY <1>4, <1>5, <2>1 DEF Follows
  <2> QED
    BY <2>2 DEF G
<1>7. IsValue(f, s)
  <2>1. f = [m \in 0 .. N |-> f[m]]
    BY <1>5
  <2>2. ASSUME NEW m \in 0 .. N, m # 0 PROVE f[m] = 10 * f[m - 1] + ToNat(s[m]) - 48
    <3>1. m \in 1 .. N /\ m - 1 \in 0 .. N
      BY <1>2, <2>2
    <3>2. f[m - 1] \in Nat /\ f[m] = 10 * f[m - 1] + D(m) /\ D(m) \in 0 .. 9 /\ ToNat(s[m]) = 48 + D(m)
      BY <1>1, <1>5, <1>6, <3>1
    <3> QED
      BY <3>2
  <2>3. \A m \in 0 .. N : f[m] = IF m = 0 THEN 0 ELSE 10 * f[m - 1] + ToNat(s[m]) - 48
    BY <1>5, <2>2
  <2> QED
    BY <2>1, <2>3 DEF IsValue, N
<1> DEFINE g == CHOOSE g : IsValue(g, s)
<1>8. IsValue(g, s)
  BY <1>7
<1>9. DecimalValue(s) = g[N]
  BY DEF DecimalValue, IsValue, N
<1> HIDE DEF g
<1>10. ASSUME NEW m \in 0 .. N PROVE g[m] = IF m = 0 THEN 0 ELSE 10 * g[m - 1] + ToNat(s[m]) - 48
  BY <1>8 DEF IsValue, N
<1>11. \A m \in 0 .. N : g[m] \in Nat
  <2> DEFINE S == {m \in 0 .. N : g[m] \in Nat}
  <2>1. 0 \in S
    BY <1>2, <1>10
  <2>2. ASSUME NEW m \in 1 .. N, m - 1 \in S PROVE m \in S
    <3>1. m \in 0 .. N /\ m # 0 /\ g[m - 1] \in Nat
      BY <1>2, <2>2
    <3>2. D(m) \in 0 .. 9 /\ ToNat(s[m]) = 48 + D(m)
      BY <1>1
    <3>3. g[m] = 10 * g[m - 1] + ToNat(s[m]) - 48
      BY <1>10, <3>1
    <3>4. g[m] \in Nat
      <4> DEFINE a == g[m - 1]
                 d == D(m)
                 t == ToNat(s[m])
      <4>1. a \in Nat /\ d \in 0 .. 9 /\ t = 48 + d /\ g[m] = 10 * a + t - 48
        BY <3>1, <3>2, <3>3
      <4> HIDE DEF a, d, t
      <4>2. g[m] = 10 * a + d
        BY <4>1
      <4> QED
        BY <4>1, <4>2
    <3> QED
      BY <3>1, <3>4
  <2> HIDE DEF S
  <2>3. \A m \in 0 .. N : m \in S
    BY <1>2, <2>1, <2>2, StepByStep
  <2> QED
    BY <2>3 DEF S
<1>12. g \in [0 .. N -> Nat]
  <2>1. g = [m \in 0 .. N |-> g[m]]
    BY <1>8 DEF IsValue, N
  <2> QED
    BY <1>11, <2>1
<1>13. g[0] = 0 /\ \A m \in 1 .. N : g[m] = 10 * g[m - 1] + D(m)
  <2>1. g[0] = 0
    BY <1>2, <1>10
  <2>2. ASSUME NEW m \in 1 .. N PROVE g[m] = 10 * g[m - 1] + D(m)
    <3>1. m \in 0 .. N /\ m # 0 /\ m - 1 \in 0 .. N
      BY <1>2
    <3>2. g[m] = 10 * g[m - 1] + ToNat(s[m]) - 48 /\ D(m) \in 0 .. 9 /\ ToNat(s[m]) = 48 + D(m) /\ g[m - 1] \in Nat
      BY <1>1, <1>10, <1>11, <3>1
    <3> QED
      BY <3>2
  <2> QED
    BY <2>1, <2>2
<1>14. Values(g, s, N)
  BY <1>12, <1>13 DEF Values, D
<1> QED
  BY <1>9, <1>14 DEF N

\* Where the loop of ConsumeDecimalNumber is, as the model has it.
Progress(loop, value, digits) == [loop |-> loop, value |-> value, digits |-> digits]

Progresses == [loop : {"goes on", "break", "return false"}, value : Nat, digits : Nat]

\* A step of ConsumeDecimalNumber's loop.
Consume(in, n, p) ==
    IF p.loop # "goes on" THEN p
    ELSE IF in[n] \notin Digits THEN Progress("break", p.value, p.digits)
    ELSE IF Overflows(p.value, DigitOf(in[n])) THEN Progress("return false", p.value, p.digits)
    ELSE Progress("goes on", (10 * p.value + DigitOf(in[n])) % (kMaxUint64 + 1), n)

IsAfter(f, in) ==
    f = [n \in 0 .. Len(in) |-> IF n = 0 THEN Progress("goes on", 0, 0) ELSE Consume(in, n, f[n - 1])]

\* The check before the multiplication is right.
LEMMA OverflowIsSeen ==
    ASSUME NEW v \in Nat, NEW d \in 0 .. 9
    PROVE  Overflows(v, d) <=> 10 * v + d > kMaxUint64
<1> DEFINE q == kMaxUint64 \div 10
           r == kMaxUint64 % 10
<1>1. kMaxUint64 \in Nat
  BY LoggingAssumption
<1>2. q \in Nat /\ r \in 0 .. 9 /\ kMaxUint64 = 10 * q + r
  BY <1>1, SMT
<1>3. Overflows(v, d) <=> v > q \/ (v = q /\ d > r)
  BY DEF Overflows
<1> HIDE DEF q, r
<1> QED
  BY <1>2, <1>3

LEMMA ConsumeStops ==
    ASSUME NEW in, NEW n, NEW p, p.loop # "goes on"
    PROVE  Consume(in, n, p) = p
  BY DEF Consume

\* What one character does to a loop that goes on.
OneCharacter(in, n, v, k) ==
    /\ in[n] \notin Digits =>
         Consume(in, n, Progress("goes on", v, k)) = Progress("break", v, k)
    /\ in[n] \in Digits /\ 10 * v + DigitOf(in[n]) > kMaxUint64 =>
         Consume(in, n, Progress("goes on", v, k)) = Progress("return false", v, k)
    /\ in[n] \in Digits /\ 10 * v + DigitOf(in[n]) <= kMaxUint64 =>
         Consume(in, n, Progress("goes on", v, k)) = Progress("goes on", 10 * v + DigitOf(in[n]), n)

LEMMA ConsumeCharacter ==
    ASSUME NEW in, NEW n \in Nat, NEW v \in Nat, NEW k \in Nat
    PROVE  OneCharacter(in, n, v, k)
<1> USE DEF OneCharacter
<1> DEFINE p == Progress("goes on", v, k)
           d == DigitOf(in[n])
<1>1. p = [loop |-> "goes on", value |-> v, digits |-> k]
  BY DEF Progress
<1> HIDE DEF p, d
<1>2. p.loop = "goes on" /\ p.value = v /\ p.digits = k
  BY <1>1
<1>6. kMaxUint64 \in Nat
  BY LoggingAssumption
<1>7. CASE in[n] \notin Digits
  <2>1. Consume(in, n, p) = Progress("break", v, k)
    BY <1>2, <1>7 DEF Consume
  <2> QED
    BY <1>7, <2>1 DEF p
<1>8. CASE in[n] \in Digits
  <2>1. d \in 0 .. 9
    BY <1>8, DigitOfDigit DEF d
  <2>2. Overflows(v, d) <=> 10 * v + d > kMaxUint64
    BY <2>1, OverflowIsSeen
  <2> DEFINE x == 10 * v + d
  <2>3. x \in Nat /\ (x > kMaxUint64 \/ x <= kMaxUint64) /\ ~ (x > kMaxUint64 /\ x <= kMaxUint64)
    BY <1>6, <2>1
  <2>4. Overflows(v, d) <=> x > kMaxUint64
    BY <2>2
  <2> HIDE DEF x
  <2>5. CASE x > kMaxUint64
    <3>1. Consume(in, n, p) = Progress("return false", v, k)
      BY <1>2, <1>8, <2>4, <2>5 DEF Consume, d
    <3> QED
      BY <1>8, <2>3, <2>5, <3>1 DEF p, d, x
  <2>6. CASE x <= kMaxUint64
    <3>1. ~ Overflows(p.value, DigitOf(in[n]))
      BY <1>2, <2>3, <2>4, <2>6 DEF d
    <3>2. Consume(in, n, p) = Progress("goes on", x % (kMaxUint64 + 1), n)
      BY <1>2, <1>8, <3>1 DEF Consume, d, x
    <3>3. x % (kMaxUint64 + 1) = x
      BY <1>6, <2>3, <2>6, SMT
    <3>4. Consume(in, n, p) = Progress("goes on", x, n)
      BY <3>2, <3>3
    <3> QED
      BY <1>8, <2>3, <2>6, <3>4 DEF p, d, x
  <2> QED
    BY <2>3, <2>5, <2>6
<1> QED
  BY <1>7, <1>8

LEMMA ConsumeType ==
    ASSUME NEW in, NEW n \in Nat, NEW p \in Progresses
    PROVE  Consume(in, n, p) \in Progresses
<1>1. CASE p.loop # "goes on"
  BY <1>1, ConsumeStops
<1>2. CASE p.loop = "goes on"
  <2> DEFINE d == DigitOf(in[n])
             v == p.value
             k == p.digits
  <2>0. v \in Nat /\ k \in Nat
    BY DEF Progresses
  <2>7. p = Progress("goes on", v, k)
    BY <1>2 DEF Progresses, Progress
  <2> HIDE DEF v, k
  <2>1. /\ in[n] \notin Digits => Consume(in, n, p) = Progress("break", v, k)
        /\ in[n] \in Digits /\ 10 * v + d > kMaxUint64 => Consume(in, n, p) = Progress("return false", v, k)
        /\ in[n] \in Digits /\ 10 * v + d <= kMaxUint64 => Consume(in, n, p) = Progress("goes on", 10 * v + d, n)
    <3>1. OneCharacter(in, n, v, k)
      BY <2>0, ConsumeCharacter
    <3> QED
      BY <2>7, <3>1, Zenon DEF OneCharacter
  <2>2. in[n] \in Digits => d \in 0 .. 9
    BY DigitOfDigit
  <2>3. kMaxUint64 \in Nat
    BY LoggingAssumption
  <2> HIDE DEF d
  <2>4. \A loop \in {"goes on", "break", "return false"}, x \in Nat, y \in Nat : Progress(loop, x, y) \in Progresses
    BY DEF Progress, Progresses
  <2>5. CASE in[n] \notin Digits
    BY <2>0, <2>1, <2>4, <2>5
  <2>6. CASE in[n] \in Digits
    <3>1. 10 * v + d \in Nat
      <4>1. v \in Nat /\ d \in Nat
        BY <2>0, <2>2, <2>6
      <4> QED
        BY <4>1
    <3>2. 10 * v + d > kMaxUint64 \/ 10 * v + d <= kMaxUint64
      BY <2>3, <3>1
    <3> QED
      BY <2>0, <2>1, <2>4, <2>6, <3>1, <3>2
  <2> QED
    BY <2>5, <2>6
<1> QED
  BY <1>1, <1>2

LEMMA AfterExists ==
    ASSUME NEW in, Len(in) \in Nat
    PROVE  \E f : IsAfter(f, in)
<1> DEFINE N == Len(in)
           start == Progress("goes on", 0, 0)
           G == [n \in 1 .. N |-> [p \in Progresses |-> Consume(in, n, p)]]
<1>1. start \in Progresses
  BY DEF Progress, Progresses
<1>2. N \in Nat
  OBVIOUS
<1> HIDE DEF start, N
<1>3. G \in [1 .. N -> [Progresses -> Progresses]]
  <2>1. \A n \in 1 .. N : \A p \in Progresses : Consume(in, n, p) \in Progresses
    <3> SUFFICES ASSUME NEW n \in 1 .. N, NEW p \in Progresses PROVE Consume(in, n, p) \in Progresses
      OBVIOUS
    <3>1. n \in Nat
      BY <1>2
    <3> QED
      BY <3>1, ConsumeType
  <2> QED
    BY <2>1
<1> HIDE DEF G
<1>4. PICK f : Follows(f, N, Progresses, start, G)
  BY <1>1, <1>2, <1>3, Recursion
<1>5. f = [n \in 0 .. N |-> f[n]] /\ f[0] = start
  BY <1>4 DEF Follows
<1>6. ASSUME NEW n \in 0 .. N, n # 0 PROVE f[n] = Consume(in, n, f[n - 1])
  <2>1. n \in 1 .. N /\ n - 1 \in 0 .. N
    BY <1>2, <1>6
  <2>2. f[n - 1] \in Progresses /\ f[n] = G[n][f[n - 1]]
    BY <1>4, <2>1 DEF Follows
  <2> QED
    BY <2>1, <2>2 DEF G
<1>7. \A n \in 0 .. N : f[n] = IF n = 0 THEN start ELSE Consume(in, n, f[n - 1])
  BY <1>5, <1>6
<1>8. IsAfter(f, in)
  BY <1>5, <1>7 DEF IsAfter, N, start
<1> QED
  BY <1>8

\* Where the loop stands after k characters, of which the first n are digits with these
\* values.
Right(p, k, n, value) ==
    /\ k <= n /\ value[k] <= kMaxUint64 => p = Progress("goes on", value[k], k)
    /\ k > n /\ value[n] <= kMaxUint64 => p = Progress("break", value[n], n)
    /\ (IF k <= n THEN value[k] ELSE value[n]) > kMaxUint64 => p.loop = "return false"

LEMMA ConsumeIsRight ==
    ASSUME NEW in, NEW n \in Nat, NEW value, Values(value, in, n),
           \A i \in 1 .. n : in[i] \in Digits,
           NEW j \in Nat, NEW k \in Nat, k = j + 1, k > n => in[n + 1] \notin Digits,
           NEW p, Right(p, j, n, value)
    PROVE  Right(Consume(in, k, p), k, n, value)
<1> DEFINE c == Consume(in, k, p)
<1>1. value \in [0 .. n -> Nat] /\ \A m \in 1 .. n : value[m] = 10 * value[m - 1] + DigitOf(in[m])
  BY DEF Values
<1>2. kMaxUint64 \in Nat
  BY LoggingAssumption
<1>3. value[n] \in Nat
  BY <1>1
<1>4. CASE k <= n
  <2> DEFINE v == value[j]
             d == DigitOf(in[k])
             x == value[k]
  <2>1. k \in 1 .. n /\ j \in 0 .. n /\ j <= n /\ ~ (k > n) /\ k - 1 = j
    BY <1>4
  <2>2. v \in Nat /\ x \in Nat /\ x = 10 * v + d
    BY <1>1, <2>1
  <2>3. in[k] \in Digits /\ d \in 0 .. 9
    BY <2>1, DigitOfDigit
  <2>4. CASE v > kMaxUint64
    <3>1. x > kMaxUint64 /\ ~ (x <= kMaxUint64)
      <4> HIDE DEF v, d, x
      <4> QED
        BY <1>2, <2>2, <2>3, <2>4
    <3>2. p.loop = "return false"
      BY <2>1, <2>4 DEF Right
    <3>3. Consume(in, k, p) = p
      BY <3>2, ConsumeStops
    <3> QED
      BY <2>1, <3>1, <3>2, <3>3 DEF Right
  <2>5. CASE v <= kMaxUint64
    <3>1. p = Progress("goes on", v, j)
      BY <2>1, <2>5 DEF Right
    <3> HIDE DEF v
    <3>2. OneCharacter(in, k, v, j)
      BY <2>2, ConsumeCharacter
    <3>3. CASE x > kMaxUint64
      <4>1. c = Progress("return false", v, j)
        BY <2>2, <2>3, <3>1, <3>2, <3>3, Zenon DEF OneCharacter
      <4> HIDE DEF c
      <4>2. c.loop = "return false"
        BY <4>1 DEF Progress
      <4>3. ~ (x <= kMaxUint64)
        <5> HIDE DEF x
        <5> QED
          BY <1>2, <2>2, <3>3
      <4>4. Right(c, k, n, value)
        BY <2>1, <4>2, <4>3 DEF Right
      <4> QED
        BY <4>4 DEF c
    <3>4. CASE x <= kMaxUint64
      <4>1. c = Progress("goes on", x, k)
        BY <2>2, <2>3, <3>1, <3>2, <3>4, Zenon DEF OneCharacter
      <4> HIDE DEF c
      <4>2. ~ (x > kMaxUint64)
        <5> HIDE DEF x
        <5> QED
          BY <1>2, <2>2, <3>4
      <4>3. Right(c, k, n, value)
        BY <1>4, <2>1, <4>1, <4>2 DEF Right
      <4> QED
        BY <4>3 DEF c
    <3> HIDE DEF x
    <3> QED
      BY <1>2, <2>2, <3>3, <3>4
  <2> HIDE DEF v
  <2> QED
    BY <1>2, <2>2, <2>4, <2>5
<1>5. CASE k > n
  <2> DEFINE v == value[n]
  <2>1. ~ (k <= n) /\ n <= j
    BY <1>5
  <2>2. v \in Nat
    BY <1>3
  <2>3. CASE v > kMaxUint64
    <3>1. p.loop = "return false"
      <4>1. CASE j <= n
        <5>1. j = n
          BY <2>1, <4>1
        <5> QED
          BY <2>3, <4>1, <5>1 DEF Right
      <4>2. CASE ~ (j <= n)
        BY <2>3, <4>2 DEF Right
      <4> QED
        BY <4>1, <4>2
    <3>2. Consume(in, k, p) = p
      BY <3>1, ConsumeStops
    <3>3. ~ (v <= kMaxUint64)
      <4> HIDE DEF v
      <4> QED
        BY <1>2, <2>2, <2>3
    <3> QED
      BY <2>1, <3>1, <3>2, <3>3 DEF Right
  <2>4. CASE v <= kMaxUint64
    <3>0. ~ (v > kMaxUint64)
      <4> HIDE DEF v
      <4> QED
        BY <1>2, <2>2, <2>4
    <3>1. c = Progress("break", v, n)
      <4>1. CASE j = n
        <5>1. p = Progress("goes on", v, n)
          BY <2>1, <2>4, <4>1 DEF Right
        <5>2. in[k] \notin Digits
          BY <1>5, <4>1
        <5> HIDE DEF v
        <5>3. OneCharacter(in, k, v, n)
          BY <2>2, ConsumeCharacter
        <5> QED
          BY <5>1, <5>2, <5>3, Zenon DEF OneCharacter
      <4>2. CASE j > n
        <5>1. p = Progress("break", v, n)
          BY <2>4, <4>2 DEF Right
        <5>2. p.loop # "goes on"
          BY <5>1 DEF Progress
        <5> QED
          BY <5>1, <5>2, ConsumeStops
      <4> QED
        BY <2>1, <4>1, <4>2
    <3> HIDE DEF c
    <3>2. Right(c, k, n, value)
      BY <1>5, <2>1, <3>0, <3>1 DEF Right
    <3> QED
      BY <3>2 DEF c
  <2> HIDE DEF v
  <2> QED
    BY <1>2, <2>2, <2>3, <2>4
<1> QED
  BY <1>4, <1>5

LEMMA ConsumesAllDigits ==
    ASSUME NEW in, Len(in) \in Nat, NEW n \in 0 .. Len(in), NEW value, Values(value, in, n),
           \A i \in 1 .. n : in[i] \in Digits, n < Len(in) => in[n + 1] \notin Digits,
           NEW g, IsAfter(g, in)
    PROVE  Right(g[Len(in)], Len(in), n, value)
<1> DEFINE N == Len(in)
           S == {k \in 0 .. N : Right(g[k], k, n, value)}
<1>1. N \in Nat /\ n \in Nat /\ n \in 0 .. N
  OBVIOUS
<1>2. ASSUME NEW k \in 0 .. N PROVE g[k] = IF k = 0 THEN Progress("goes on", 0, 0) ELSE Consume(in, k, g[k - 1])
  BY DEF IsAfter
<1>3. value[0] = 0 /\ 0 <= n /\ ~ (0 > n) /\ 0 <= kMaxUint64 /\ ~ (0 > kMaxUint64)
  BY <1>1, LoggingAssumption DEF Values
<1> HIDE DEF N
<1>4. 0 \in S
  <2>0. 0 \in 0 .. N
    BY <1>1
  <2>1. g[0] = Progress("goes on", 0, 0)
    BY <1>2, <2>0, Zenon
  <2>2. Right(g[0], 0, n, value)
    BY <1>3, <2>1 DEF Right
  <2> QED
    BY <1>1, <2>2
<1>5. ASSUME NEW k \in 1 .. N, k - 1 \in S PROVE k \in S
  <2> DEFINE j == k - 1
             p == g[j]
  <2>1. k \in Nat /\ j \in Nat /\ k = j + 1 /\ k \in 0 .. N /\ k # 0
    BY <1>1, <1>5
  <2>2. k > n => n < N
    BY <1>1
  <2>3. k > n => in[n + 1] \notin Digits
    BY <2>2 DEF N
  <2>4. Right(p, j, n, value)
    BY <1>5
  <2>5. g[k] = Consume(in, k, p)
    BY <1>2, <2>1
  <2> HIDE DEF j, p
  <2>6. Right(Consume(in, k, p), k, n, value)
    BY <1>1, <2>1, <2>3, <2>4, ConsumeIsRight
  <2> QED
    BY <2>1, <2>5, <2>6
<1> HIDE DEF S
<1>6. \A k \in 0 .. N : k \in S
  BY <1>1, <1>4, <1>5, StepByStep
<1>7. N \in S
  BY <1>1, <1>6
<1> QED
  BY <1>7 DEF S, N

LEMMA ConsumeIs ==
    ASSUME NEW in, NEW last, last = (CHOOSE g : IsAfter(g, in))[Len(in)]
    PROVE  ConsumeDecimalNumber(in) =
             IF last.loop = "return false" THEN [ok |-> FALSE, value |-> 0, rest |-> in]
             ELSE [ok |-> last.digits # 0, value |-> last.value, rest |-> SubSeq(in, last.digits + 1, Len(in))]
  BY DEF ConsumeDecimalNumber, IsAfter, Consume, Progress, DigitOf

\* ConsumeDecimalNumber takes all leading digits of any text and nothing else; the check in
\* front of its multiplication refuses exactly the numbers above kMaxUint64, whatever that is,
\* so none wraps around.
THEOREM DecimalNumbersAreExact == Spec => []DecimalExact
<1>1. InputOK => DecimalExact
  <2> SUFFICES ASSUME InputOK
               PROVE  DecimalExact
    OBVIOUS
  <2> DEFINE n == LeadingDigits(input)
             N == Len(input)
             t == SubSeq(input, 1, n)
             value == DecimalValue(t)
             g == CHOOSE g : IsAfter(g, input)
             last == g[N]
  <2>1. input \in Seq(Byte) /\ N \in Nat
    BY LenProperties DEF InputOK
  <2>2. n \in 0 .. N /\ (\A i \in 1 .. n : input[i] \in Digits) /\ (n < N => input[n + 1] \notin Digits)
    BY <2>1, LeadingDigitsFacts
  <2> HIDE DEF n
  <2>3. n \in Nat /\ n <= N
    BY <2>1, <2>2
  <2>4. Len(t) = n /\ \A i \in 1 .. n : t[i] = input[i]
    BY <2>1, <2>2, <2>3
  <2>5. Len(t) \in Nat /\ \A i \in 1 .. Len(t) : t[i] \in Digits
    BY <2>2, <2>3, <2>4
  <2> HIDE DEF t
  <2>6. PICK f : Values(f, t, Len(t)) /\ DecimalValue(t) = f[Len(t)]
    BY <2>5, DecimalValueIs
  <2>7. Values(f, input, n) /\ value = f[n]
    <3>1. Values(f, t, n)
      BY <2>4, <2>6
    <3> QED
      BY <2>4, <2>6, <3>1 DEF Values
  <2>8. IsAfter(g, input)
    BY <2>1, AfterExists
  <2> HIDE DEF g
  <2>9. Right(last, N, n, f)
    BY <2>1, <2>2, <2>7, <2>8, ConsumesAllDigits
  <2>10. ConsumeDecimalNumber(input) =
            IF last.loop = "return false" THEN [ok |-> FALSE, value |-> 0, rest |-> input]
            ELSE [ok |-> last.digits # 0, value |-> last.value, rest |-> SubSeq(input, last.digits + 1, N)]
    BY ConsumeIs DEF g
  <2>11. f[n] \in Nat
    BY <2>3, <2>7 DEF Values
  <2> HIDE DEF last, N, value
  <2>12. value \in Nat /\ kMaxUint64 \in Nat
    BY <2>7, <2>11, LoggingAssumption
  <2>13. ConsumeDecimalNumber(input) =
            IF value > kMaxUint64 THEN [ok |-> FALSE, value |-> 0, rest |-> input]
            ELSE [ok |-> n > 0, value |-> value, rest |-> SubSeq(input, n + 1, N)]
    <3>1. CASE value > kMaxUint64
      <4>1. (IF N <= n THEN f[N] ELSE f[n]) = f[n]
        BY <2>1, <2>3
      <4>2. last.loop = "return false"
        BY <2>7, <2>9, <3>1, <4>1 DEF Right
      <4> QED
        BY <2>10, <3>1, <4>2
    <3>2. CASE ~ (value > kMaxUint64)
      <4>1. value <= kMaxUint64
        BY <2>12, <3>2
      <4>2. last.loop # "return false" /\ last.value = value /\ last.digits = n
        <5>1. CASE N <= n
          <6>1. N = n
            BY <2>1, <2>3, <5>1
          <6>2. last = Progress("goes on", value, n)
            BY <2>7, <2>9, <4>1, <5>1, <6>1 DEF Right
          <6> QED
            BY <6>2 DEF Progress
        <5>2. CASE N > n
          <6>1. last = Progress("break", value, n)
            BY <2>7, <2>9, <4>1, <5>2 DEF Right
          <6> QED
            BY <6>1 DEF Progress
        <5>3. N <= n \/ N > n
          BY <2>1, <2>3
        <5> QED
          BY <5>1, <5>2, <5>3, Zenon
      <4>3. (n # 0) = (n > 0)
        BY <2>3
      <4>4. ConsumeDecimalNumber(input) =
              [ok |-> last.digits # 0, value |-> last.value, rest |-> SubSeq(input, last.digits + 1, N)]
        BY <2>10, <4>2
      <4>5. ConsumeDecimalNumber(input) = [ok |-> n # 0, value |-> value, rest |-> SubSeq(input, n + 1, N)]
        BY <4>2, <4>4
      <4>6. ConsumeDecimalNumber(input) = [ok |-> n > 0, value |-> value, rest |-> SubSeq(input, n + 1, N)]
        BY <4>3, <4>5
      <4> QED
        BY <3>2, <4>6
    <3> QED
      BY <3>1, <3>2
  <2> QED
    BY <2>13 DEF DecimalExact, value, t, n, N
<1> QED
  BY <1>1, InputInvariant, PTL

(***************************************************************************)
(* The order of numbers and words.                                         *)
(***************************************************************************)
\* What the bits below each position add up to.
Sums(f, w) ==
    /\ f \in [0 .. 31 -> Nat]
    /\ f[0] = 0
    /\ \A n \in 0 .. 30 : n \notin w => f[n + 1] = f[n]
    /\ \A n \in 0 .. 30 : n \in w => f[n + 1] = f[n] + 2^n
    /\ \A n \in 0 .. 31 : f[n] < 2^n

LEMMA SumsOfWord ==
    ASSUME NEW w
    PROVE  \E f : Sums(f, w) /\ ToNat(w) = f[31]
<1>1. PICK h : /\ h[0] = 0
               /\ \A n \in 1 .. 31 : h[n] = h[n - 1] + (IF n - 1 \in w THEN 2^(n - 1) ELSE 0)
               /\ ToNat(w) = h[31]
  BY ToNatSum
<1>2. ASSUME NEW k \in 0 .. 30
      PROVE  (k \notin w => h[k + 1] = h[k] + 0) /\ (k \in w => h[k + 1] = h[k] + 2^k)
  <2> DEFINE n == k + 1
  <2>1. n \in 1 .. 31 /\ n - 1 = k
    OBVIOUS
  <2> HIDE DEF n
  <2>2. h[n] = h[n - 1] + (IF n - 1 \in w THEN 2^(n - 1) ELSE 0)
    BY <1>1, <2>1
  <2>3. h[n] = h[k] + (IF k \in w THEN 2^k ELSE 0)
    BY <2>1, <2>2, Zenon
  <2>4. (k \notin w => h[n] = h[k] + 0) /\ (k \in w => h[n] = h[k] + 2^k)
    BY <2>3, Zenon
  <2> QED
    BY <2>4 DEF n
<1> DEFINE S == {n \in 0 .. 31 : h[n] \in Nat /\ h[n] < 2^n}
<1>3. 0 \in S
  <2>1. 2^0 = 1
    BY SMT
  <2> QED
    BY <1>1, <2>1
<1>4. ASSUME NEW n \in 1 .. 31, n - 1 \in S PROVE n \in S
  <2> DEFINE k == n - 1
             p == 2^k
  <2>1. k \in 0 .. 30 /\ k + 1 = n
    OBVIOUS
  <2>2. h[k] \in Nat /\ h[k] < p
    BY <1>4
  <2> HIDE DEF k
  <2>3. p \in Nat /\ 2^(k + 1) = 2 * p
    BY <2>1, Powers
  <2>4. (k \notin w => h[k + 1] = h[k] + 0) /\ (k \in w => h[k + 1] = h[k] + p)
    BY <1>2, <2>1
  <2>5. h[k + 1] \in Nat /\ h[k + 1] < 2 * p
    <3> HIDE DEF p
    <3> QED
      BY <2>2, <2>3, <2>4
  <2>6. h[n] \in Nat /\ h[n] < 2^n
    <3>1. h[n] = h[k + 1] /\ 2^n = 2^(k + 1)
      BY <2>1, Zenon
    <3> QED
      BY <2>3, <2>5, <3>1, Zenon
  <2> QED
    BY <2>6
<1> HIDE DEF S
<1>5. \A n \in 0 .. 31 : n \in S
  BY <1>3, <1>4, StepByStep
<1>6. \A n \in 0 .. 31 : h[n] \in Nat /\ h[n] < 2^n
  BY <1>5 DEF S
<1> DEFINE f == [n \in 0 .. 31 |-> h[n]]
<1>7. f \in [0 .. 31 -> Nat] /\ f[0] = 0 /\ f[31] = h[31]
  BY <1>1, <1>6
<1>8. ASSUME NEW k \in 0 .. 30 PROVE f[k] = h[k] /\ f[k + 1] = h[k + 1] /\ h[k] \in Nat
  <2>1. k \in 0 .. 31 /\ k + 1 \in 0 .. 31
    OBVIOUS
  <2> QED
    BY <1>6, <2>1
<1>9. \A n \in 0 .. 31 : f[n] < 2^n
  BY <1>6
<1> HIDE DEF f
<1>10. ASSUME NEW k \in 0 .. 30 PROVE (k \notin w => f[k + 1] = f[k]) /\ (k \in w => f[k + 1] = f[k] + 2^k)
  <2> DEFINE p == 2^k
             a == h[k]
             b == h[k + 1]
  <2>1. (k \notin w => b = a + 0) /\ (k \in w => b = a + p)
    BY <1>2
  <2>2. f[k] = a /\ f[k + 1] = b /\ a \in Nat
    BY <1>8
  <2> HIDE DEF a, b, p
  <2>3. (k \notin w => b = a) /\ (k \in w => b = a + p)
    BY <2>1, <2>2
  <2>4. (k \notin w => f[k + 1] = f[k]) /\ (k \in w => f[k + 1] = f[k] + p)
    BY <2>2, <2>3, Zenon
  <2> QED
    BY <2>4 DEF p
<1>11. Sums(f, w)
  BY <1>7, <1>9, <1>10 DEF Sums
<1> QED
  BY <1>1, <1>7, <1>11

\* The highest position where two words differ decides about their numbers.
LEMMA LessIsSmaller ==
    ASSUME NEW v, NEW w, v \subseteq 0 .. 30, w \subseteq 0 .. 30, Less(v, w)
    PROVE  ToNat(v) < ToNat(w)
<1>1. PICK i \in w \ v : \A j \in Xor(v, w) : j <= i
  BY DEF Less
<1>2. PICK f : Sums(f, v) /\ ToNat(v) = f[31]
  BY SumsOfWord
<1>3. PICK g : Sums(g, w) /\ ToNat(w) = g[31]
  BY SumsOfWord
<1>4. i \in 0 .. 30 /\ i \in w /\ i \notin v
  BY <1>1
<1>5. ASSUME NEW k \in 0 .. 30, k > i PROVE k \in v <=> k \in w
  <2>1. ~ (k <= i)
    BY <1>4, <1>5
  <2>2. k \notin Xor(v, w)
    BY <1>1, <2>1
  <2> QED
    BY <2>2 DEF Xor
<1> DEFINE p == 2^i
<1>6. f[i] \in Nat /\ g[i] \in Nat /\ f[i] < p /\ f[i + 1] = f[i] /\ g[i + 1] = g[i] + p /\ p \in Nat
  <2>1. i \in 0 .. 31
    BY <1>4
  <2>2. p \in Nat
    BY <1>4, Powers
  <2> QED
    BY <1>2, <1>3, <1>4, <2>1, <2>2 DEF Sums
<1> HIDE DEF p
<1>7. f[i + 1] < g[i + 1]
  BY <1>6
<1> DEFINE S == {n \in 0 .. 31 : n > i => f[n] < g[n]}
<1>8. 0 \in S
  BY <1>4
<1>9. ASSUME NEW n \in 1 .. 31, n - 1 \in S PROVE n \in S
  <2> DEFINE k == n - 1
  <2>1. k \in 0 .. 30 /\ k + 1 = n /\ k \in 0 .. 31 /\ n \in 0 .. 31
    OBVIOUS
  <2>2. k > i => f[k] < g[k]
    BY <1>9
  <2> HIDE DEF k
  <2>3. CASE n = i + 1
    BY <1>7, <2>1, <2>3
  <2>4. CASE k > i
    <3> DEFINE q == 2^k
    <3>1. q \in Nat
      BY <2>1, Powers
    <3>2. f[k] \in Nat /\ g[k] \in Nat /\ f[k] < g[k]
      BY <1>2, <1>3, <2>1, <2>2, <2>4 DEF Sums
    <3>3. /\ k \notin v => f[k + 1] = f[k]
          /\ k \in v => f[k + 1] = f[k] + q
          /\ k \notin w => g[k + 1] = g[k]
          /\ k \in w => g[k + 1] = g[k] + q
      BY <1>2, <1>3, <2>1 DEF Sums
    <3>4. k \in v <=> k \in w
      BY <1>5, <2>1, <2>4
    <3> HIDE DEF q
    <3>5. f[k + 1] < g[k + 1]
      BY <3>1, <3>2, <3>3, <3>4
    <3> QED
      BY <2>1, <3>5
  <2>5. CASE ~ (n > i)
    BY <2>1, <2>5
  <2>6. n = i + 1 \/ k > i \/ ~ (n > i)
    BY <1>4, <2>1
  <2> QED
    BY <2>3, <2>4, <2>5, <2>6
<1> HIDE DEF S
<1>10. \A n \in 0 .. 31 : n \in S
  BY <1>8, <1>9, StepByStep
<1>11. 31 \in S /\ 31 > i
  BY <1>4, <1>10
<1>12. f[31] < g[31]
  BY <1>11 DEF S
<1> QED
  BY <1>2, <1>3, <1>12

LEMMA NumberType ==
    ASSUME NEW w
    PROVE  ToNat(w) \in Nat /\ ToNat(w) < 2^31
<1>1. PICK f : Sums(f, w) /\ ToNat(w) = f[31]
  BY SumsOfWord
<1>2. 31 \in 0 .. 31
  OBVIOUS
<1> QED
  BY <1>1, <1>2 DEF Sums

LEMMA OneIsLess ==
    ASSUME NEW v, NEW w, v \subseteq 0 .. 30, w \subseteq 0 .. 30, v # w
    PROVE  Less(v, w) \/ Less(w, v)
<1>1. Xor(v, w) \subseteq 0 .. 30 /\ Xor(v, w) # {} /\ Xor(v, w) = Xor(w, v)
  BY DEF Xor
<1>2. PICK i \in Xor(v, w) : \A j \in Xor(v, w) : j <= i
  BY <1>1, Greatest
<1>3. i \in w \ v \/ i \in v \ w
  BY <1>2 DEF Xor
<1> QED
  BY <1>1, <1>2, <1>3 DEF Less

\* Words are compared as their numbers are.
LEMMA LessIsOrder ==
    ASSUME NEW v, NEW w, v \subseteq 0 .. 30, w \subseteq 0 .. 30
    PROVE  Less(v, w) <=> ToNat(v) < ToNat(w)
<1>1. ToNat(v) \in Nat /\ ToNat(w) \in Nat
  BY NumberType
<1>2. ASSUME ToNat(v) < ToNat(w), ~ Less(v, w) PROVE FALSE
  <2>1. v # w
    BY <1>1, <1>2
  <2>2. Less(w, v)
    BY <1>2, <2>1, OneIsLess
  <2>3. ToNat(w) < ToNat(v)
    BY <2>2, LessIsSmaller
  <2> QED
    BY <1>1, <1>2, <2>3
<1> QED
  BY <1>2, LessIsSmaller

LEMMA WordOfNumber ==
    ASSUME NEW w, w \subseteq 0 .. 30
    PROVE  FromNat(ToNat(w)) = w
<1> DEFINE m == ToNat(w)
           v == FromNat(m)
<1>1. m \in Nat /\ m < 2^31
  BY NumberType
<1> HIDE DEF m
<1>2. ToNat(v) = m
  BY <1>1, NumberOfWord
<1>3. v \subseteq 0 .. 30
  BY <1>1, SmallWord
<1> HIDE DEF v
<1>4. ~ Less(v, w) /\ ~ Less(w, v)
  <2>1. ~ (m < m)
    BY <1>1
  <2> QED
    BY <1>2, <1>3, <2>1, LessIsSmaller DEF m
<1>5. v = w
  BY <1>3, <1>4, OneIsLess
<1> QED
  BY <1>5 DEF v, m

\* How the lengths of two strings compare.
LEMMA LengthsCompare ==
    ASSUME NEW m \in Nat, NEW n \in Nat, m < 2^31, n < 2^31
    PROVE  Less(FromNat(m), FromNat(n)) <=> m < n
<1>1. ToNat(FromNat(m)) = m /\ ToNat(FromNat(n)) = n
  BY NumberOfWord
<1>2. FromNat(m) \subseteq 0 .. 30 /\ FromNat(n) \subseteq 0 .. 30
  BY SmallWord
<1> DEFINE v == FromNat(m)
           w == FromNat(n)
<1> HIDE DEF v, w
<1>3. Less(v, w) <=> ToNat(v) < ToNat(w)
  BY <1>2, LessIsOrder DEF v, w
<1> QED
  BY <1>1, <1>3 DEF v, w

\* A word that is no larger than a number below 2^31 is the word of a number.
LEMMA SmallerWord ==
    ASSUME NEW m \in Nat, m < 2^31, NEW w \in Word32, ~ Less(FromNat(m), w)
    PROVE  w \subseteq 0 .. 30 /\ ToNat(w) <= m
<1> DEFINE v == FromNat(m)
<1>1. v \subseteq 0 .. 30 /\ ToNat(v) = m
  BY SmallWord, NumberOfWord
<1>0. ~ Less(v, w)
  OBVIOUS
<1> HIDE DEF v
<1>2. w \subseteq 0 .. 31
  BY DEF Word32
<1>3. 31 \notin w
  <2> SUFFICES ASSUME 31 \in w PROVE FALSE
    OBVIOUS
  <2>1. 31 \in w \ v
    BY <1>1
  <2>2. \A j \in Xor(v, w) : j <= 31
    BY <1>1, <1>2 DEF Xor
  <2> QED
    BY <1>0, <2>1, <2>2 DEF Less
<1>4. w \subseteq 0 .. 30
  BY <1>2, <1>3
<1>5. ~ (ToNat(v) < ToNat(w))
  BY <1>0, <1>1, <1>4, LessIsOrder
<1>6. ToNat(w) \in Nat
  BY NumberType
<1> QED
  BY <1>1, <1>4, <1>5, <1>6

(***************************************************************************)
(* Words of variable length.                                               *)
(***************************************************************************)
\* The number of groups of seven bits that a word takes.
IsGroups(n, w) == n \in 1 .. 10 /\ Fits(w, 7 * n) /\ (n > 1 => ~ Fits(w, 7 * (n - 1)))

Groups(w) == CHOOSE n : IsGroups(n, w)

\* The bytes of the encoding, each given by itself.
Varint(v) ==
    [i \in 1 .. Groups(v) |-> Low(Shr(v, 7 * (i - 1)) \cup (IF i < Groups(v) THEN {7} ELSE {}), 8)]

LEMMA FitsMore ==
    ASSUME NEW w, NEW m \in Nat, NEW n \in Nat, m <= n, Fits(w, m)
    PROVE  Fits(w, n)
<1>1. 0 .. m - 1 \subseteq 0 .. n - 1
  OBVIOUS
<1> QED
  BY <1>1 DEF Fits

LEMMA GroupsExist ==
    ASSUME NEW w, NEW N \in 1 .. 10, Fits(w, 7 * N)
    PROVE  IsGroups(Groups(w), w) /\ Groups(w) <= N
<1> DEFINE T == {n \in 1 .. 10 : Fits(w, 7 * n)}
<1>1. T \subseteq Nat /\ N \in T
  OBVIOUS
<1>2. PICK x \in T : \A y \in T : x <= y
  <2> HIDE DEF T
  <2>1. T # {}
    BY <1>1
  <2> QED
    BY <1>1, <2>1, LeastNumber
<1>3. x \in 1 .. 10 /\ Fits(w, 7 * x) /\ x <= N
  BY <1>1, <1>2
<1>4. ASSUME x > 1 PROVE ~ Fits(w, 7 * (x - 1))
  <2>1. x - 1 \in 1 .. 10 /\ ~ (x <= x - 1)
    BY <1>3, <1>4
  <2> QED
    BY <1>2, <2>1
<1>5. IsGroups(x, w)
  BY <1>3, <1>4 DEF IsGroups
<1>6. IsGroups(Groups(w), w)
  BY <1>5 DEF Groups
<1> DEFINE g == Groups(w)
<1> HIDE DEF g
<1>7. g \in 1 .. 10 /\ (g > 1 => ~ Fits(w, 7 * (g - 1)))
  BY <1>6 DEF IsGroups, g
<1>8. g <= N
  <2> SUFFICES ASSUME g > N PROVE FALSE
    BY <1>7
  <2>1. g > 1 /\ 7 * N \in Nat /\ 7 * (g - 1) \in Nat /\ 7 * N <= 7 * (g - 1)
    BY <1>7
  <2>2. Fits(w, 7 * (g - 1))
    BY <2>1, FitsMore
  <2> QED
    BY <1>7, <2>1, <2>2
<1> QED
  BY <1>6, <1>8 DEF g

LEMMA GroupsUnique ==
    ASSUME NEW w, NEW n, IsGroups(n, w)
    PROVE  Groups(w) = n
<1>1. n \in 1 .. 10 /\ Fits(w, 7 * n) /\ (n > 1 => ~ Fits(w, 7 * (n - 1)))
  BY DEF IsGroups
<1> DEFINE g == Groups(w)
<1>2. IsGroups(g, w) /\ g <= n
  BY <1>1, GroupsExist
<1> HIDE DEF g
<1>3. g \in 1 .. 10 /\ Fits(w, 7 * g)
  BY <1>2 DEF IsGroups
<1>4. g = n
  <2> SUFFICES ASSUME g < n PROVE FALSE
    BY <1>1, <1>2, <1>3
  <2>1. n > 1 /\ 7 * g \in Nat /\ 7 * (n - 1) \in Nat /\ 7 * g <= 7 * (n - 1)
    BY <1>1, <1>3
  <2>2. Fits(w, 7 * (n - 1))
    BY <1>3, <2>1, FitsMore
  <2> QED
    BY <1>1, <2>1, <2>2
<1> QED
  BY <1>4 DEF g

LEMMA GroupsOf64 ==
    ASSUME NEW w \in Word64
    PROVE  IsGroups(Groups(w), w) /\ Groups(w) \in 1 .. 10
<1>1. Fits(w, 64)
  BY DEF Word64, Fits
<1>2. 7 * 10 = 70 /\ 10 \in 1 .. 10 /\ 64 \in Nat /\ 70 \in Nat /\ 64 <= 70
  OBVIOUS
<1>3. Fits(w, 70)
  BY <1>1, <1>2, FitsMore
<1>4. Fits(w, 7 * 10)
  BY <1>2, <1>3
<1>5. IsGroups(Groups(w), w)
  BY <1>2, <1>4, GroupsExist
<1> QED
  BY <1>5 DEF IsGroups

LEMMA GroupsOf32 ==
    ASSUME NEW w \in Word32
    PROVE  w \in Word64 /\ Groups(w) \in 1 .. 5
<1>1. Fits(w, 32)
  BY DEF Word32, Fits
<1>2. w \in Word64
  BY DEF Word32, Word64
<1>3. 7 * 5 = 35 /\ 5 \in 1 .. 10 /\ 32 \in Nat /\ 35 \in Nat /\ 32 <= 35
  OBVIOUS
<1>4. Fits(w, 35)
  BY <1>1, <1>3, FitsMore
<1>5. Fits(w, 7 * 5)
  BY <1>3, <1>4
<1>6. Groups(w) <= 5
  BY <1>3, <1>5, GroupsExist
<1>7. Groups(w) \in 1 .. 10
  BY <1>2, GroupsOf64
<1> QED
  BY <1>2, <1>6, <1>7

LEMMA ShrTwice ==
    ASSUME NEW w, w \subseteq Nat, NEW m \in Nat, NEW n \in Nat
    PROVE  Shr(Shr(w, m), n) = Shr(w, m + n)
<1> DEFINE a == Shr(w, m)
           c == Shr(a, n)
           d == Shr(w, m + n)
<1>1. a \subseteq Nat
  BY ShrRange
<1>2. \A b \in Nat : b \in a <=> b + m \in w
  BY ShrBits
<1>3. m + n \in Nat
  OBVIOUS
<1>4. \A b \in Nat : b \in d <=> b + (m + n) \in w
  BY <1>3, ShrBits
<1>5. d \subseteq Nat
  BY <1>3, ShrRange
<1> HIDE DEF a, d
<1>6. \A b \in Nat : b \in c <=> b + n \in a
  BY <1>1, ShrBits
<1>7. c \subseteq Nat
  BY <1>1, ShrRange
<1> HIDE DEF c
<1>8. \A b \in Nat : b \in c <=> b \in d
  <2> SUFFICES ASSUME NEW b \in Nat PROVE b \in c <=> b \in d
    OBVIOUS
  <2>1. b + n \in Nat /\ (b + n) + m = b + (m + n)
    OBVIOUS
  <2> QED
    BY <1>2, <1>4, <1>6, <2>1
<1>9. c = d
  BY <1>5, <1>7, <1>8
<1> QED
  BY <1>9 DEF a, c, d

\* A word of more than seven bits takes one group more than what is left of it.
LEMMA GroupsOfRest ==
    ASSUME NEW w \in Word64, ~ Fits(w, 7)
    PROVE  Shr(w, 7) \in Word64 /\ Groups(w) > 1 /\ Groups(Shr(w, 7)) = Groups(w) - 1
<1> DEFINE v == Shr(w, 7)
           g == Groups(w)
<1>1. w \subseteq Nat /\ w \subseteq 0 .. 63
  BY DEF Word64
<1>2. v \subseteq Nat /\ \A b \in Nat : b \in v <=> b + 7 \in w
  BY <1>1, ShrBits, ShrRange
<1>3. g \in 1 .. 10 /\ IsGroups(g, w)
  BY GroupsOf64
<1> HIDE DEF v, g
<1>4. v \in Word64
  <2>1. ASSUME NEW b \in v PROVE b \in 0 .. 63
    <3>1. b \in Nat /\ b + 7 \in 0 .. 63
      BY <1>1, <1>2
    <3> QED
      BY <3>1
  <2> QED
    BY <2>1 DEF Word64
<1>5. Fits(w, 7 * g) /\ (g > 1 => ~ Fits(w, 7 * (g - 1)))
  BY <1>3 DEF IsGroups
<1>6. g # 1
  <2> SUFFICES ASSUME g = 1 PROVE FALSE
    OBVIOUS
  <2>1. 7 * g = 7
    OBVIOUS
  <2> QED
    BY <1>5, <2>1
<1>7. g > 1 /\ g - 1 \in 1 .. 10
  BY <1>3, <1>6
<1>8. ASSUME NEW k \in Nat PROVE Fits(v, 7 * k) <=> Fits(w, 7 * (k + 1))
  <2>1. ASSUME Fits(v, 7 * k), NEW b \in w PROVE b \in 0 .. 7 * (k + 1) - 1
    <3>1. b \in Nat
      BY <1>1
    <3>2. CASE b < 7
      BY <3>1, <3>2
    <3>3. CASE b >= 7
      <4> DEFINE c == b - 7
      <4>1. c \in Nat /\ c + 7 = b
        BY <3>1, <3>3
      <4> HIDE DEF c
      <4>2. c \in v
        BY <1>2, <2>1, <4>1
      <4>3. c \in 0 .. 7 * k - 1
        BY <2>1, <4>2 DEF Fits
      <4> QED
        BY <4>1, <4>3
    <3> QED
      BY <3>1, <3>2, <3>3
  <2>2. ASSUME Fits(w, 7 * (k + 1)), NEW b \in v PROVE b \in 0 .. 7 * k - 1
    <3>1. b \in Nat /\ b + 7 \in w
      BY <1>2
    <3>2. b + 7 \in 0 .. 7 * (k + 1) - 1
      BY <2>2, <3>1 DEF Fits
    <3> QED
      BY <3>1, <3>2
  <2> QED
    BY <2>1, <2>2 DEF Fits
<1>9. IsGroups(g - 1, v)
  <2> DEFINE k == g - 1
  <2>1. k \in 1 .. 10 /\ k \in Nat /\ k + 1 = g
    BY <1>3, <1>7
  <2> HIDE DEF k
  <2>2. Fits(v, 7 * k)
    BY <1>5, <1>8, <2>1
  <2>3. ASSUME k > 1 PROVE ~ Fits(v, 7 * (k - 1))
    <3> DEFINE j == k - 1
    <3>1. j \in Nat /\ j + 1 = k /\ g - 1 = k
      BY <2>1, <2>3
    <3> HIDE DEF j
    <3>2. ~ Fits(w, 7 * (j + 1))
      BY <1>5, <1>7, <3>1
    <3>3. ~ Fits(v, 7 * j)
      BY <1>8, <3>1, <3>2
    <3> QED
      BY <3>3 DEF j
  <2>4. IsGroups(k, v)
    BY <2>1, <2>2, <2>3 DEF IsGroups
  <2> QED
    BY <2>4 DEF k
<1>10. Groups(v) = g - 1
  BY <1>9, GroupsUnique
<1> QED
  BY <1>4, <1>7, <1>10 DEF v, g

\* What the bytes of an encoding hold.
LEMMA VarintBytes ==
    ASSUME NEW v \in Word64
    PROVE  /\ Varint(v) \in Seq(Byte) /\ Len(Varint(v)) = Groups(v)
           /\ \A i \in 1 .. Groups(v) : 7 \in Varint(v)[i] <=> i < Groups(v)
           /\ \A i \in 1 .. Groups(v) : \A c \in 0 .. 6 : c \in Varint(v)[i] <=> 7 * (i - 1) + c \in v
<1> DEFINE n == Groups(v)
           code == Varint(v)
           B(i) == Low(Shr(v, 7 * (i - 1)) \cup (IF i < n THEN {7} ELSE {}), 8)
<1>1. n \in 1 .. 10 /\ Fits(v, 7 * n)
  BY GroupsOf64 DEF IsGroups
<1>2. code = [i \in 1 .. n |-> B(i)]
  BY DEF Varint
<1>3. v \subseteq Nat
  BY DEF Word64
<1> HIDE DEF n, code
<1>4. ASSUME NEW i \in 1 .. n
      PROVE  /\ B(i) \in Byte
             /\ 7 \in B(i) <=> i < n
             /\ \A c \in 0 .. 6 : c \in B(i) <=> 7 * (i - 1) + c \in v
  <2> DEFINE k == 7 * (i - 1)
             w == Shr(v, k)
             X == IF i < n THEN {7} ELSE {}
  <2>1. k \in Nat
    BY <1>1
  <2> HIDE DEF k
  <2>2. w \subseteq Nat /\ \A b \in Nat : b \in w <=> b + k \in v
    BY <1>3, <2>1, ShrBits, ShrRange
  <2> HIDE DEF w
  <2>3. B(i) = {b \in w \cup X : b < 8}
    BY DEF Low, w, k
  <2>4. X \subseteq {7} /\ (7 \in X <=> i < n)
    OBVIOUS
  <2> HIDE DEF X, B
  <2>5. B(i) \in Byte
    <3>1. ASSUME NEW b \in B(i) PROVE b \in 0 .. 7
      <4>1. b \in w \cup X /\ b < 8
        BY <2>3
      <4>2. b \in Nat
        <5>1. b \in w \/ b = 7
          BY <2>4, <4>1
        <5>2. w \subseteq Nat
          BY <2>2
        <5>3. CASE b \in w
          BY <5>2, <5>3
        <5>4. CASE b = 7
          BY <5>4
        <5> QED
          BY <5>1, <5>3, <5>4
      <4> QED
        BY <4>1, <4>2
    <3> QED
      BY <3>1 DEF Byte
  <2>6. 7 \in B(i) <=> i < n
    <3>1. CASE i < n
      BY <2>3, <2>4, <3>1
    <3>2. CASE ~ (i < n)
      <4>1. i = n /\ 7 + k = 7 * n
        BY <1>1, <3>2 DEF k
      <4>2. 7 + k \notin v
        <5>1. 7 + k \notin 0 .. 7 * n - 1
          BY <1>1, <4>1
        <5> QED
          BY <1>1, <5>1 DEF Fits
      <4>3. 7 \notin w
        BY <2>2, <4>2
      <4> QED
        BY <2>3, <2>4, <3>2, <4>3
    <3> QED
      BY <3>1, <3>2
  <2>7. ASSUME NEW c \in 0 .. 6 PROVE c \in B(i) <=> k + c \in v
    <3>1. c \in Nat /\ c < 8 /\ c # 7 /\ c + k = k + c
      BY <2>1
    <3>2. c \in B(i) <=> c \in w
      BY <2>3, <2>4, <3>1
    <3>3. c \in w <=> c + k \in v
      BY <2>2, <3>1
    <3> QED
      BY <3>1, <3>2, <3>3
  <2> QED
    BY <2>5, <2>6, <2>7 DEF k
<1> HIDE DEF B
<1>5. code \in [1 .. n -> Byte] /\ n \in Nat
  BY <1>1, <1>2, <1>4
<1>6. code \in Seq(Byte) /\ Len(code) = n
  BY <1>5, FunctionIsSeq
<1>7. \A i \in 1 .. n : code[i] = B(i)
  BY <1>2
<1>8. /\ \A i \in 1 .. n : 7 \in code[i] <=> i < n
      /\ \A i \in 1 .. n : \A c \in 0 .. 6 : c \in code[i] <=> 7 * (i - 1) + c \in v
  BY <1>4, <1>7
<1> QED
  BY <1>6, <1>8 DEF n, code

LEMMA OneByte ==
    ASSUME NEW b \in Byte
    PROVE  <<b>> \in Seq(Byte) /\ Len(<<b>>) = 1 /\ <<b>>[1] = b
  OBVIOUS

\* A word of at most seven bits is its own encoding.
LEMMA VarintEnds ==
    ASSUME NEW v \in Word64, Fits(v, 7)
    PROVE  Groups(v) = 1 /\ Varint(v) = <<v>>
<1>1. 7 * 1 = 7 /\ 1 \in 1 .. 10 /\ ~ (1 > 1)
  OBVIOUS
<1>2. IsGroups(1, v)
  BY <1>1 DEF IsGroups
<1>3. Groups(v) = 1
  BY <1>2, GroupsUnique
<1>4. v \subseteq 0 .. 6
  BY DEF Fits
<1>5. v \in Byte
  BY <1>4 DEF Byte
<1> DEFINE code == Varint(v)
<1>6. /\ code \in Seq(Byte) /\ Len(code) = 1
      /\ \A i \in 1 .. 1 : 7 \in code[i] <=> i < 1
      /\ \A i \in 1 .. 1 : \A c \in 0 .. 6 : c \in code[i] <=> 7 * (i - 1) + c \in v
  BY <1>3, VarintBytes
<1> HIDE DEF code
<1>7. code[1] \in Byte /\ 7 \notin code[1] /\ \A c \in 0 .. 6 : c \in code[1] <=> c \in v
  <2>1. 1 \in 1 .. 1 /\ 1 \in 1 .. Len(code) /\ ~ (1 < 1) /\ \A c \in 0 .. 6 : 7 * (1 - 1) + c = c
    BY <1>6
  <2>2. code[1] \in Byte
    BY <1>6, <2>1, ElementOfSeq
  <2> QED
    BY <1>6, <2>1, <2>2
<1>8. code[1] = v
  <2>1. \A c \in 0 .. 7 : c \in 0 .. 6 \/ c = 7
    OBVIOUS
  <2>2. 7 \notin v
    BY <1>4
  <2> QED
    BY <1>4, <1>7, <2>1, <2>2 DEF Byte
<1>9. code = <<v>>
  <2>1. <<v>> \in Seq(Byte) /\ Len(<<v>>) = 1 /\ <<v>>[1] = v
    BY <1>5, OneByte
  <2>2. \A i \in 1 .. 1 : i = 1
    OBVIOUS
  <2> QED
    BY <1>6, <1>8, <2>1, <2>2, EqualBytes
<1> QED
  BY <1>3, <1>9 DEF code

\* Any other has its first seven bits in front of the encoding of the rest.
LEMMA VarintGoesOn ==
    ASSUME NEW v \in Word64, ~ Fits(v, 7)
    PROVE  Varint(v) = <<Low(v \cup {7}, 8)>> \o Varint(Shr(v, 7))
<1> DEFINE w == Shr(v, 7)
           n == Groups(v)
           m == Groups(w)
           b == Low(v \cup {7}, 8)
           code == Varint(v)
           rest == Varint(w)
<1>1. w \in Word64 /\ n > 1 /\ m = n - 1 /\ n \in 1 .. 10
  BY GroupsOfRest, GroupsOf64
<1>2. v \subseteq Nat
  BY DEF Word64
<1>3. b \in Byte
  <2>1. ASSUME NEW c \in b PROVE c \in 0 .. 7
    <3>1. c \in v \cup {7} /\ c < 8
      BY DEF Low
    <3>2. c \in Nat
      <4>1. c \in v \/ c = 7
        BY <3>1
      <4>2. CASE c \in v
        BY <1>2, <4>2
      <4>3. CASE c = 7
        BY <4>3
      <4> QED
        BY <4>1, <4>2, <4>3
    <3> QED
      BY <3>1, <3>2
  <2> QED
    BY <2>1 DEF Byte
<1>4. code \in Seq(Byte) /\ Len(code) = n
  BY VarintBytes
<1>5. rest \in Seq(Byte) /\ Len(rest) = m
  BY <1>1, VarintBytes
<1> DEFINE B(x, k, i) == Low(Shr(x, 7 * (i - 1)) \cup (IF i < k THEN {7} ELSE {}), 8)
<1>6. (\A i \in 1 .. n : code[i] = B(v, n, i)) /\ (\A i \in 1 .. m : rest[i] = B(w, m, i))
  BY DEF Varint
<1> HIDE DEF n, m, code, rest
<1>7. code[1] = b
  <2>1. 1 \in 1 .. n /\ 1 < n /\ 7 * (1 - 1) = 0
    BY <1>1
  <2>2. Shr(v, 0) = v
    <3>1. 0 \in Nat /\ \A c \in Nat : c + 0 = c
      OBVIOUS
    <3>2. Shr(v, 0) \subseteq Nat /\ \A c \in Nat : c \in Shr(v, 0) <=> c + 0 \in v
      BY <1>2, <3>1, ShrBits, ShrRange
    <3> QED
      BY <1>2, <3>1, <3>2
  <2>3. code[1] = B(v, n, 1)
    BY <1>6, <2>1
  <2> QED
    BY <2>1, <2>2, <2>3
<1> HIDE DEF b
<1>8. ASSUME NEW i \in 1 .. m PROVE i + 1 \in 1 .. n /\ code[i + 1] = rest[i]
  <2>1. i + 1 \in 1 .. n /\ (i < m <=> i + 1 < n) /\ 7 * (i - 1) \in Nat /\ 7 * ((i + 1) - 1) = 7 + 7 * (i - 1)
    BY <1>1
  <2> DEFINE k == 7 * (i - 1)
             X == IF i < m THEN {7} ELSE {}
             Y == IF i + 1 < n THEN {7} ELSE {}
  <2>2. X = Y
    BY <2>1
  <2>3. code[i + 1] = Low(Shr(v, 7 * ((i + 1) - 1)) \cup Y, 8)
    BY <1>6, <2>1
  <2>4. rest[i] = Low(Shr(w, k) \cup X, 8)
    BY <1>6
  <2>5. k \in Nat /\ 7 \in Nat /\ 7 * ((i + 1) - 1) = 7 + k
    BY <2>1
  <2> HIDE DEF k, X, Y
  <2>6. Shr(w, k) = Shr(v, 7 + k)
    BY <1>2, <2>5, ShrTwice DEF w
  <2> QED
    BY <2>1, <2>2, <2>3, <2>4, <2>5, <2>6, Zenon
<1> HIDE DEF w, B
<1> DEFINE one == <<b>>
           u == one \o rest
<1>9. one \in Seq(Byte) /\ Len(one) = 1 /\ one[1] = b
  BY <1>3, OneByte
<1> HIDE DEF one
<1>10. /\ u \in Seq(Byte) /\ Len(u) = 1 + m
       /\ \A i \in 1 .. 1 : u[i] = one[i]
       /\ \A i \in 1 .. m : u[1 + i] = rest[i]
  <2>1. /\ u \in Seq(Byte) /\ Len(u) = Len(one) + Len(rest)
        /\ \A i \in 1 .. Len(one) : u[i] = one[i]
        /\ \A i \in 1 .. Len(rest) : u[Len(one) + i] = rest[i]
    BY <1>5, <1>9, ByteStrings
  <2> QED
    BY <1>5, <1>9, <2>1
<1> HIDE DEF u
<1>11. Len(code) = Len(u)
  BY <1>1, <1>4, <1>10
<1>12. ASSUME NEW i \in 1 .. Len(code) PROVE code[i] = u[i]
  <2>1. CASE i = 1
    BY <1>7, <1>9, <1>10, <2>1
  <2>2. CASE i > 1
    <3> DEFINE j == i - 1
    <3>1. j \in 1 .. m /\ i = j + 1 /\ i = 1 + j
      BY <1>1, <1>4, <2>2
    <3> HIDE DEF j
    <3>2. code[j + 1] = rest[j] /\ u[1 + j] = rest[j]
      BY <1>8, <1>10, <3>1
    <3> QED
      BY <3>1, <3>2, Zenon
  <2>3. i = 1 \/ i > 1
    BY <1>4, <1>1
  <2> QED
    BY <2>1, <2>2, <2>3
<1>13. code = u
  BY <1>4, <1>10, <1>11, <1>12, EqualBytes
<1> QED
  BY <1>13 DEF code, u, one, b, rest, w

\* The function that the loop of EncodeVarint64 computes.
IsRest(f) == f = [w \in Word64 |-> IF Fits(w, 7) THEN <<w>> ELSE <<Low(w \cup {7}, 8)>> \o f[Shr(w, 7)]]

LEMMA EncodedVarint64 ==
    ASSUME NEW v \in Word64
    PROVE  EncodeVarint64(v) = Varint(v)
<1> DEFINE h == [w \in Word64 |-> Varint(w)]
           Front(w) == <<Low(w \cup {7}, 8)>>
<1>1. IsRest(h)
  <2>1. ASSUME NEW w \in Word64
        PROVE  h[w] = IF Fits(w, 7) THEN <<w>> ELSE Front(w) \o h[Shr(w, 7)]
    <3>1. CASE Fits(w, 7)
      BY <3>1, VarintEnds
    <3>2. CASE ~ Fits(w, 7)
      <4>1. Shr(w, 7) \in Word64
        BY <3>2, GroupsOfRest
      <4>2. Varint(w) = Front(w) \o Varint(Shr(w, 7))
        BY <3>2, VarintGoesOn
      <4>3. h[w] = Varint(w) /\ h[Shr(w, 7)] = Varint(Shr(w, 7))
        BY <4>1
      <4> QED
        BY <3>2, <4>2, <4>3, Zenon
    <3> QED
      BY <3>1, <3>2
  <2>2. h = [w \in Word64 |-> h[w]]
    OBVIOUS
  <2> HIDE DEF h
  <2> QED
    BY <2>1, <2>2, Zenon DEF IsRest
<1> HIDE DEF h
<1> DEFINE g == CHOOSE f : IsRest(f)
<1>2. IsRest(g)
  BY <1>1
<1>3. EncodeVarint64(v) = g[v]
  BY DEF EncodeVarint64, IsRest
<1> HIDE DEF g
<1>4. ASSUME NEW w \in Word64 PROVE g[w] = IF Fits(w, 7) THEN <<w>> ELSE Front(w) \o g[Shr(w, 7)]
  BY <1>2 DEF IsRest
<1> HIDE DEF Front
<1> DEFINE S == {n \in 0 .. 10 : \A w \in Word64 : Groups(w) <= n => g[w] = Varint(w)}
<1>5. 0 \in S
  <2>1. \A w \in Word64 : ~ (Groups(w) <= 0)
    <3> SUFFICES ASSUME NEW w \in Word64 PROVE ~ (Groups(w) <= 0)
      OBVIOUS
    <3>1. Groups(w) \in 1 .. 10
      BY GroupsOf64
    <3> QED
      BY <3>1
  <2> QED
    BY <2>1
<1>6. ASSUME NEW n \in 1 .. 10, n - 1 \in S PROVE n \in S
  <2>1. ASSUME NEW w \in Word64, Groups(w) <= n PROVE g[w] = Varint(w)
    <3>1. CASE Fits(w, 7)
      BY <1>4, <3>1, VarintEnds
    <3>2. CASE ~ Fits(w, 7)
      <4> DEFINE x == Shr(w, 7)
      <4>1. x \in Word64 /\ Groups(x) = Groups(w) - 1 /\ Groups(w) \in 1 .. 10
        BY <3>2, GroupsOfRest, GroupsOf64
      <4>2. Varint(w) = Front(w) \o Varint(x)
        BY <3>2, VarintGoesOn DEF Front
      <4>3. g[w] = Front(w) \o g[x]
        BY <1>4, <3>2
      <4> HIDE DEF x
      <4>4. Groups(x) <= n - 1
        BY <2>1, <4>1
      <4>5. g[x] = Varint(x)
        BY <1>6, <4>1, <4>4
      <4> QED
        BY <4>2, <4>3, <4>5, Zenon
    <3> QED
      BY <3>1, <3>2
  <2>2. n \in 0 .. 10
    OBVIOUS
  <2> QED
    BY <2>1, <2>2
<1> HIDE DEF S
<1>7. \A n \in 0 .. 10 : n \in S
  BY <1>5, <1>6, StepByStep
<1>8. 10 \in S
  BY <1>7
<1>9. Groups(v) <= 10
  <2>1. Groups(v) \in 1 .. 10
    BY GroupsOf64
  <2> QED
    BY <2>1
<1>10. g[v] = Varint(v)
  BY <1>8, <1>9 DEF S
<1> QED
  BY <1>3, <1>10

IsLength(f) == f = [w \in Word64 |-> IF Fits(w, 7) THEN 1 ELSE 1 + f[Shr(w, 7)]]

LEMMA VarintLengthIs ==
    ASSUME NEW v \in Word64
    PROVE  VarintLength(v) = Groups(v)
<1> DEFINE h == [w \in Word64 |-> Groups(w)]
<1>0. ASSUME NEW w \in Word64, ~ Fits(w, 7)
      PROVE  Shr(w, 7) \in Word64 /\ Groups(Shr(w, 7)) \in 1 .. 10 /\ Groups(w) = 1 + Groups(Shr(w, 7))
  <2> DEFINE x == Shr(w, 7)
  <2>1. x \in Word64 /\ Groups(x) = Groups(w) - 1 /\ Groups(w) \in 1 .. 10
    BY <1>0, GroupsOfRest, GroupsOf64
  <2> HIDE DEF x
  <2>2. Groups(x) \in 1 .. 10
    BY <2>1, GroupsOf64
  <2>3. Groups(w) = 1 + Groups(x)
    BY <2>1
  <2> QED
    BY <2>1, <2>2, <2>3 DEF x
<1>1. IsLength(h)
  <2>1. ASSUME NEW w \in Word64 PROVE h[w] = IF Fits(w, 7) THEN 1 ELSE 1 + h[Shr(w, 7)]
    <3>1. CASE Fits(w, 7)
      BY <3>1, VarintEnds
    <3>2. CASE ~ Fits(w, 7)
      <4>1. h[w] = Groups(w) /\ h[Shr(w, 7)] = Groups(Shr(w, 7))
        BY <1>0, <3>2
      <4> QED
        BY <1>0, <3>2, <4>1, Zenon
    <3> QED
      BY <3>1, <3>2
  <2>2. h = [w \in Word64 |-> h[w]]
    OBVIOUS
  <2> HIDE DEF h
  <2> QED
    BY <2>1, <2>2, Zenon DEF IsLength
<1> HIDE DEF h
<1> DEFINE g == CHOOSE f : IsLength(f)
<1>2. IsLength(g)
  BY <1>1
<1>3. VarintLength(v) = g[v]
  BY DEF VarintLength, IsLength
<1> HIDE DEF g
<1>4. ASSUME NEW w \in Word64 PROVE g[w] = IF Fits(w, 7) THEN 1 ELSE 1 + g[Shr(w, 7)]
  BY <1>2 DEF IsLength
<1> DEFINE S == {n \in 0 .. 10 : \A w \in Word64 : Groups(w) <= n => g[w] = Groups(w)}
<1>5. 0 \in S
  <2>1. \A w \in Word64 : ~ (Groups(w) <= 0)
    <3> SUFFICES ASSUME NEW w \in Word64 PROVE ~ (Groups(w) <= 0)
      OBVIOUS
    <3>1. Groups(w) \in 1 .. 10
      BY GroupsOf64
    <3> QED
      BY <3>1
  <2> QED
    BY <2>1
<1>6. ASSUME NEW n \in 1 .. 10, n - 1 \in S PROVE n \in S
  <2>1. ASSUME NEW w \in Word64, Groups(w) <= n PROVE g[w] = Groups(w)
    <3>1. CASE Fits(w, 7)
      BY <1>4, <3>1, VarintEnds
    <3>2. CASE ~ Fits(w, 7)
      <4> DEFINE x == Shr(w, 7)
      <4>1. x \in Word64 /\ Groups(x) \in 1 .. 10 /\ Groups(w) = 1 + Groups(x)
        BY <1>0, <3>2
      <4>2. g[w] = 1 + g[x]
        BY <1>4, <3>2
      <4> HIDE DEF x
      <4>3. Groups(x) <= n - 1
        BY <2>1, <4>1
      <4>4. g[x] = Groups(x)
        BY <1>6, <4>1, <4>3
      <4> QED
        BY <4>1, <4>2, <4>4, Zenon
    <3> QED
      BY <3>1, <3>2
  <2>2. n \in 0 .. 10
    OBVIOUS
  <2> QED
    BY <2>1, <2>2
<1> HIDE DEF S
<1>7. \A n \in 0 .. 10 : n \in S
  BY <1>5, <1>6, StepByStep
<1>8. 10 \in S
  BY <1>7
<1>9. Groups(v) <= 10
  <2>1. Groups(v) \in 1 .. 10
    BY GroupsOf64
  <2> QED
    BY <2>1
<1> QED
  BY <1>3, <1>8, <1>9 DEF S

\* The cascade of EncodeVarint32 writes what the loop would.
LEMMA EncodedVarint32 ==
    ASSUME NEW v \in Word32
    PROVE  EncodeVarint32(v) = Varint(v)
<1> DEFINE Picked(n) == (n < 5 => Fits(v, 7 * n)) /\ \A m \in 1 .. n - 1 : ~ Fits(v, 7 * m)
           g == Groups(v)
           k == CHOOSE n \in 1 .. 5 : Picked(n)
<1>1. v \in Word64 /\ g \in 1 .. 5
  BY GroupsOf32
<1>2. IsGroups(g, v)
  BY <1>1, GroupsOf64
<1> HIDE DEF g
<1>3. Fits(v, 7 * g) /\ (g > 1 => ~ Fits(v, 7 * (g - 1)))
  BY <1>2 DEF IsGroups
<1>4. ASSUME NEW m \in 1 .. g - 1 PROVE ~ Fits(v, 7 * m)
  <2>1. g > 1 /\ 7 * m \in Nat /\ 7 * (g - 1) \in Nat /\ 7 * m <= 7 * (g - 1)
    BY <1>1
  <2> QED
    BY <1>3, <2>1, FitsMore
<1>5. Picked(g)
  BY <1>3, <1>4
<1>6. ASSUME NEW n \in 1 .. 5, Picked(n) PROVE n = g
  <2>1. CASE n < g
    <3>1. n < 5 /\ n \in 1 .. g - 1
      BY <1>1, <2>1
    <3>2. ~ Fits(v, 7 * n)
      BY <1>4, <3>1
    <3> QED
      BY <1>6, <3>1, <3>2
  <2>2. CASE n > g
    <3>1. g \in 1 .. n - 1
      BY <1>1, <2>2
    <3> QED
      BY <1>3, <1>6, <3>1
  <2>3. n < g \/ n > g \/ n = g
    BY <1>1
  <2> QED
    BY <2>1, <2>2, <2>3
<1>7. EncodeVarint32(v) = [i \in 1 .. k |-> Low(Shr(v, 7 * (i - 1)) \cup (IF i < k THEN {7} ELSE {}), 8)]
  BY DEF EncodeVarint32
<1> HIDE DEF Picked
<1>8. k \in 1 .. 5 /\ Picked(k)
  BY <1>1, <1>5
<1> HIDE DEF k
<1>9. k = g
  BY <1>6, <1>8
<1> QED
  BY <1>7, <1>9 DEF Varint, g

LEMMA Bits7 ==
    ASSUME NEW b \in 0 .. 69
    PROVE  \E i \in 1 .. 10 : \E c \in 0 .. 6 : b = 7 * (i - 1) + c
<1> DEFINE q == b \div 7
           c == b % 7
<1>1. q \in 0 .. 9 /\ c \in 0 .. 6 /\ b = 7 * q + c
  BY SMT
<1> HIDE DEF q, c
<1>2. q + 1 \in 1 .. 10 /\ b = 7 * ((q + 1) - 1) + c
  BY <1>1
<1> QED
  BY <1>1, <1>2

\* The decoder stops at the first byte without the eighth bit.
DecodedUpTo(n, s, width) ==
    [ok |-> TRUE, value |-> UNION {Shl(Low(s[i], 7), 7 * (i - 1), width) : i \in 1 .. n},
     rest |-> SubSeq(s, n + 1, Len(s))]

LEMMA GetVarintStops ==
    ASSUME NEW s \in Seq(Byte), NEW width \in {32, 64}, NEW n \in 1 .. Len(s),
           n <= (IF width = 32 THEN 5 ELSE 10), 7 \notin s[n], \A i \in 1 .. n - 1 : 7 \in s[i]
    PROVE  GetVarint(s, width) = DecodedUpTo(n, s, width)
<1> DEFINE most == IF width = 32 THEN 5 ELSE 10
           stops == {i \in 1 .. Len(s) : i <= most /\ 7 \notin s[i]}
           m == CHOOSE i \in stops : \A j \in stops : i <= j
           Value(k) == UNION {Shl(Low(s[i], 7), 7 * (i - 1), width) : i \in 1 .. k}
<1>1. Len(s) \in Nat
  BY LenProperties
<1>2. n \in stops
  OBVIOUS
<1>3. ASSUME NEW j \in stops PROVE n <= j
  <2>1. j \in 1 .. Len(s) /\ 7 \notin s[j]
    OBVIOUS
  <2>2. ~ (j \in 1 .. n - 1)
    BY <2>1
  <2> QED
    BY <1>1, <2>1, <2>2
<1>4. stops \subseteq Nat
  BY <1>1
<1>5. GetVarint(s, width) =
        IF stops = {} THEN NotDecoded ELSE [ok |-> TRUE, value |-> Value(m), rest |-> SubSeq(s, m + 1, Len(s))]
  BY DEF GetVarint
<1> HIDE DEF stops, Value
<1>6. m \in stops /\ \A j \in stops : m <= j
  BY <1>2, <1>3
<1> HIDE DEF m
<1>7. m = n
  BY <1>2, <1>3, <1>4, <1>6
<1>8. GetVarint(s, width) = [ok |-> TRUE, value |-> Value(m), rest |-> SubSeq(s, m + 1, Len(s))]
  BY <1>2, <1>5
<1>9. GetVarint(s, width) = [ok |-> TRUE, value |-> Value(n), rest |-> SubSeq(s, n + 1, Len(s))]
  BY <1>7, <1>8
<1> QED
  BY <1>9 DEF Value, DecodedUpTo

LEMMA GetVarintFails ==
    ASSUME NEW s \in Seq(Byte), NEW width, \A i \in 1 .. Len(s) : 7 \in s[i]
    PROVE  GetVarint(s, width) = NotDecoded
  BY DEF GetVarint

\* What it gives for any string: a word of the width, and a tail of the string.
LEMMA GetVarintType ==
    ASSUME NEW s \in Seq(Byte), NEW width \in {32, 64}, GetVarint(s, width) # NotDecoded
    PROVE  \E v, t : /\ GetVarint(s, width) = [ok |-> TRUE, value |-> v, rest |-> t]
                     /\ v \subseteq 0 .. width - 1
                     /\ t \in Seq(Byte) /\ Len(t) <= Len(s)
<1> DEFINE most == IF width = 32 THEN 5 ELSE 10
           stops == {i \in 1 .. Len(s) : i <= most /\ 7 \notin s[i]}
<1>1. Len(s) \in Nat /\ width \in Nat
  BY LenProperties
<1>2. stops # {} /\ stops \subseteq Nat
  BY <1>1 DEF GetVarint
<1>3. PICK n \in stops : \A j \in stops : n <= j
  <2> HIDE DEF stops
  <2> QED
    BY <1>2, LeastNumber
<1>4. n \in 1 .. Len(s) /\ n <= most /\ 7 \notin s[n]
  BY <1>3
<1>5. ASSUME NEW i \in 1 .. n - 1 PROVE 7 \in s[i]
  <2>1. i \in 1 .. Len(s) /\ ~ (n <= i) /\ i <= most
    BY <1>1, <1>4
  <2> QED
    BY <1>3, <2>1
<1> DEFINE v == UNION {Shl(Low(s[i], 7), 7 * (i - 1), width) : i \in 1 .. n}
           t == SubSeq(s, n + 1, Len(s))
<1>6. GetVarint(s, width) = [ok |-> TRUE, value |-> v, rest |-> t]
  <2>1. GetVarint(s, width) = DecodedUpTo(n, s, width)
    BY <1>4, <1>5, GetVarintStops
  <2> QED
    BY <2>1 DEF DecodedUpTo
<1>7. v \subseteq 0 .. width - 1
  <2>1. ASSUME NEW i \in 1 .. n PROVE Shl(Low(s[i], 7), 7 * (i - 1), width) \subseteq 0 .. width - 1
    <3> DEFINE w == Low(s[i], 7)
               k == 7 * (i - 1)
    <3>1. i \in 1 .. Len(s) /\ k \in Nat
      BY <1>1, <1>4
    <3>2. s[i] \in Byte
      BY <3>1, ElementOfSeq
    <3>3. w \subseteq Nat
      BY <3>2 DEF Low, Byte
    <3> HIDE DEF w, k
    <3>4. Shl(w, k, width) \subseteq k .. width - 1
      BY <1>1, <3>1, <3>3, ShlRange, ZenonT(40)
    <3>5. k .. width - 1 \subseteq 0 .. width - 1
      BY <1>1, <3>1
    <3>6. Shl(w, k, width) \subseteq 0 .. width - 1
      BY <3>4, <3>5, Zenon
    <3> QED
      BY <3>6 DEF w, k
  <2> QED
    BY <2>1
<1>8. t \in Seq(Byte) /\ Len(t) <= Len(s)
  <2> DEFINE m == n + 1
  <2>1. m \in 1 .. Len(s) + 1 /\ Len(s) \in m - 1 .. Len(s) /\ Len(s) - m + 1 <= Len(s)
    BY <1>1, <1>4
  <2> HIDE DEF m
  <2>2. SubSeq(s, m, Len(s)) \in Seq(Byte) /\ Len(SubSeq(s, m, Len(s))) = Len(s) - m + 1
    BY <2>1, ByteSubSeq
  <2>3. t = SubSeq(s, m, Len(s))
    BY DEF m
  <2> HIDE DEF t
  <2> QED
    BY <2>1, <2>2, <2>3
<1> HIDE DEF v, t
<1> QED
  BY <1>6, <1>7, <1>8, ZenonT(40)

\* An encoded word comes back, at either width, with what follows it; of a proper prefix
\* nothing does.
LEMMA VarintDecoded ==
    ASSUME NEW width \in {32, 64}, NEW v, v \subseteq 0 .. width - 1, NEW t \in Seq(Byte)
    PROVE  GetVarint(Varint(v) \o t, width) = [ok |-> TRUE, value |-> v, rest |-> t]
<1> DEFINE n == Groups(v)
           code == Varint(v)
           s == code \o t
<1>0. v \in Word64 /\ n \in 1 .. 10 /\ n <= (IF width = 32 THEN 5 ELSE 10)
  <2>1. CASE width = 32
    <3>1. v \in Word32
      BY <2>1 DEF Word32
    <3>2. v \in Word64 /\ n \in 1 .. 5
      BY <3>1, GroupsOf32
    <3> QED
      BY <2>1, <3>2
  <2>2. CASE width = 64
    <3>1. v \in Word64
      BY <2>2 DEF Word64
    <3>2. n \in 1 .. 10
      BY <3>1, GroupsOf64
    <3> QED
      BY <2>2, <3>1, <3>2
  <2> QED
    BY <2>1, <2>2
<1>1. /\ code \in Seq(Byte) /\ Len(code) = n
      /\ \A i \in 1 .. n : 7 \in code[i] <=> i < n
      /\ \A i \in 1 .. n : \A c \in 0 .. 6 : c \in code[i] <=> 7 * (i - 1) + c \in v
  BY <1>0, VarintBytes
<1>2. Fits(v, 7 * n)
  BY <1>0, GroupsOf64 DEF IsGroups
<1> HIDE DEF n, code
<1>3. /\ s \in Seq(Byte) /\ Len(t) \in Nat /\ Len(s) = n + Len(t)
      /\ \A i \in 1 .. n : s[i] = code[i]
  BY <1>1, ByteStrings
<1>4. SubSeq(s, n + 1, n + Len(t)) = t
  BY <1>1, ConcatParts
<1> HIDE DEF s
<1>5. n \in 1 .. Len(s) /\ n \in 1 .. n /\ \A i \in 1 .. n - 1 : i \in 1 .. n /\ i < n
  BY <1>0, <1>3
<1>6. 7 \notin s[n] /\ \A i \in 1 .. n - 1 : 7 \in s[i]
  <2>1. ~ (n < n)
    BY <1>0
  <2> QED
    BY <1>1, <1>3, <1>5, <2>1
<1> DEFINE w == UNION {Shl(Low(s[i], 7), 7 * (i - 1), width) : i \in 1 .. n}
<1>7. GetVarint(s, width) = [ok |-> TRUE, value |-> w, rest |-> SubSeq(s, n + 1, Len(s))]
  <2>1. s \in Seq(Byte) /\ n \in 1 .. Len(s) /\ n <= (IF width = 32 THEN 5 ELSE 10)
    BY <1>0, <1>3, <1>5
  <2>2. GetVarint(s, width) = DecodedUpTo(n, s, width)
    BY <1>6, <2>1, GetVarintStops
  <2> QED
    BY <2>2 DEF DecodedUpTo
<1>8. w = v
  <2> DEFINE Part(i) == Shl(Low(s[i], 7), 7 * (i - 1), width)
  <2>1. ASSUME NEW i \in 1 .. n, NEW b \in Nat
        PROVE  b \in Part(i) <=> 7 * (i - 1) <= b /\ b < width /\ b - 7 * (i - 1) \in s[i] /\ b - 7 * (i - 1) < 7
    <3> DEFINE x == Low(s[i], 7)
               k == 7 * (i - 1)
    <3>1. i \in 1 .. Len(s) /\ k \in Nat /\ width \in Nat
      BY <1>0, <1>3
    <3>2. s[i] \in Byte
      BY <1>3, <3>1, ElementOfSeq
    <3>3. x \subseteq Nat /\ \A y : y \in x <=> y \in s[i] /\ y < 7
      BY <3>2 DEF Low, Byte
    <3> HIDE DEF x, k
    <3>4. b \in Shl(x, k, width) <=> k <= b /\ b < width /\ b - k \in x
      BY <3>1, <3>3, ShlBits
    <3>5. b \in Shl(x, k, width) <=> k <= b /\ b < width /\ b - k \in s[i] /\ b - k < 7
      BY <3>3, <3>4, Zenon
    <3> QED
      BY <3>5 DEF x, k
  <2>2. ASSUME NEW i \in 1 .. n PROVE Part(i) \subseteq v
    <3> DEFINE x == Low(s[i], 7)
               k == 7 * (i - 1)
    <3>1. i \in 1 .. Len(s) /\ k \in Nat /\ width \in Nat
      BY <1>0, <1>3
    <3>2. s[i] \in Byte
      BY <1>3, <3>1, ElementOfSeq
    <3>3. x \subseteq Nat
      BY <3>2 DEF Low, Byte
    <3>4. Part(i) \subseteq k .. width - 1
      <4> HIDE DEF x, k
      <4>1. Shl(x, k, width) \subseteq k .. width - 1
        BY <3>1, <3>3, ShlRange
      <4> QED
        BY <4>1 DEF x, k
    <3> SUFFICES ASSUME NEW b \in Part(i) PROVE b \in v
      OBVIOUS
    <3>5. b \in Nat
      <4>1. b \in k .. width - 1
        BY <3>4
      <4> HIDE DEF k
      <4> QED
        BY <3>1, <4>1
    <3> DEFINE c == b - k
    <3>6. k <= b /\ c \in s[i] /\ c < 7
      BY <2>1, <3>5
    <3> HIDE DEF Part
    <3>7. c \in 0 .. 6 /\ k + c = b
      <4> HIDE DEF k
      <4> QED
        BY <3>1, <3>5, <3>6
    <3>8. c \in code[i]
      BY <1>3, <3>6
    <3> HIDE DEF c
    <3>9. k + c \in v
      BY <1>1, <3>7, <3>8
    <3> QED
      BY <3>7, <3>9, Zenon
  <2>3. ASSUME NEW b \in v PROVE \E i \in 1 .. n : b \in Part(i)
    <3>1. b \in 0 .. 7 * n - 1 /\ b \in 0 .. width - 1
      BY <1>2 DEF Fits
    <3>2. b \in 0 .. 69 /\ b \in Nat /\ b < width
      BY <1>0, <3>1
    <3>3. PICK i \in 1 .. 10, c \in 0 .. 6 : b = 7 * (i - 1) + c
      BY <3>2, Bits7
    <3>4. i \in 1 .. n /\ 7 * (i - 1) <= b /\ b - 7 * (i - 1) = c /\ c < 7
      BY <1>0, <3>1, <3>3
    <3>5. c \in s[i]
      BY <1>1, <1>3, <3>3, <3>4
    <3> HIDE DEF Part
    <3>6. b \in Part(i)
      BY <2>1, <3>2, <3>4, <3>5
    <3> QED
      BY <3>4, <3>6
  <2>4. w = UNION {Part(i) : i \in 1 .. n}
    OBVIOUS
  <2> HIDE DEF Part, w
  <2> QED
    BY <2>2, <2>3, <2>4
<1> HIDE DEF w
<1>9. GetVarint(s, width) = [ok |-> TRUE, value |-> v, rest |-> t]
  BY <1>3, <1>4, <1>7, <1>8
<1> QED
  BY <1>9 DEF s, code

LEMMA VarintCut ==
    ASSUME NEW v \in Word64, NEW width, NEW n \in 0 .. Groups(v) - 1
    PROVE  GetVarint(SubSeq(Varint(v), 1, n), width) = NotDecoded
<1> DEFINE g == Groups(v)
           code == Varint(v)
           s == SubSeq(code, 1, n)
<1>1. /\ code \in Seq(Byte) /\ Len(code) = g /\ g \in 1 .. 10
      /\ \A i \in 1 .. g : 7 \in code[i] <=> i < g
  BY VarintBytes, GroupsOf64
<1> HIDE DEF g, code
<1>2. n \in 0 .. g - 1
  BY DEF g
<1>3. 1 \in 1 .. Len(code) + 1 /\ n \in 1 - 1 .. Len(code) /\ n - 1 + 1 = n
  BY <1>1, <1>2
<1>4. /\ s \in Seq(Byte) /\ Len(s) = n - 1 + 1
      /\ \A i \in 1 .. n - 1 + 1 : s[i] = code[1 + i - 1]
  BY <1>1, <1>3, ByteSubSeq
<1> HIDE DEF s
<1>5. ASSUME NEW i \in 1 .. Len(s) PROVE 7 \in s[i]
  <2>1. i \in 1 .. n /\ i \in 1 .. g /\ i < g /\ 1 + i - 1 = i /\ i \in 1 .. n - 1 + 1
    BY <1>1, <1>2, <1>3, <1>4
  <2>2. s[i] = code[i]
    BY <1>4, <2>1
  <2> QED
    BY <1>1, <2>1, <2>2
<1>6. GetVarint(s, width) = NotDecoded
  BY <1>4, <1>5, GetVarintFails
<1> QED
  BY <1>6 DEF s, code

(***************************************************************************)
(* Slices.                                                                 *)
(***************************************************************************)
\* What GetLengthPrefixedSlice makes of a length and the string behind it.
SliceIn(v, t) ==
    [ok |-> TRUE, value |-> SubSeq(t, 1, ToNat(v)), rest |-> SubSeq(t, ToNat(v) + 1, Len(t))]

LEMMA SliceRead ==
    ASSUME NEW s, NEW v, NEW t, GetVarint(s, 32) = [ok |-> TRUE, value |-> v, rest |-> t]
    PROVE  /\ ~ Less(FromNat(Len(t)), v) => GetLengthPrefixedSlice(s) = SliceIn(v, t)
           /\ Less(FromNat(Len(t)), v) => GetLengthPrefixedSlice(s) = NotDecoded
<1> DEFINE got == GetVarint(s, 32)
<1>1. GetLengthPrefixedSlice(s) =
        IF got.ok /\ ~ Less(FromNat(Len(got.rest)), got.value)
        THEN [ok |-> TRUE, value |-> SubSeq(got.rest, 1, ToNat(got.value)),
              rest |-> SubSeq(got.rest, ToNat(got.value) + 1, Len(got.rest))]
        ELSE NotDecoded
  BY DEF GetLengthPrefixedSlice, GetVarint32
<1>2. got = [ok |-> TRUE, value |-> v, rest |-> t]
  OBVIOUS
<1> HIDE DEF got
<1>3. got.ok /\ got.value = v /\ got.rest = t
  BY <1>2
<1>4. GetLengthPrefixedSlice(s) =
        IF ~ Less(FromNat(Len(t)), v)
        THEN [ok |-> TRUE, value |-> SubSeq(t, 1, ToNat(v)), rest |-> SubSeq(t, ToNat(v) + 1, Len(t))]
        ELSE NotDecoded
  BY <1>1, <1>3
<1> QED
  BY <1>4 DEF SliceIn

LEMMA NoLengthNoSlice ==
    ASSUME NEW s, GetVarint(s, 32) = NotDecoded
    PROVE  GetLengthPrefixedSlice(s) = NotDecoded
<1> DEFINE got == GetVarint(s, 32)
<1>1. GetLengthPrefixedSlice(s) =
        IF got.ok /\ ~ Less(FromNat(Len(got.rest)), got.value)
        THEN [ok |-> TRUE, value |-> SubSeq(got.rest, 1, ToNat(got.value)),
              rest |-> SubSeq(got.rest, ToNat(got.value) + 1, Len(got.rest))]
        ELSE NotDecoded
  BY DEF GetLengthPrefixedSlice, GetVarint32
<1>2. got = [ok |-> FALSE, value |-> {}, rest |-> <<>>]
  BY DEF NotDecoded
<1> HIDE DEF got
<1>3. ~ got.ok
  BY <1>2
<1> QED
  BY <1>1, <1>3

\* The length in front of a slice.
LEMMA PrefixOfSlice ==
    ASSUME NEW s \in Seq(Byte), Len(s) < 2^31
    PROVE  LET v == FromNat(Len(s))
           IN  /\ PutLengthPrefixedSlice(s) = Varint(v) \o s
               /\ v \in Word64 /\ v \subseteq 0 .. 31 /\ ToNat(v) = Len(s)
               /\ Varint(v) \in Seq(Byte) /\ Len(Varint(v)) = Groups(v) /\ Groups(v) \in 1 .. 10
<1> DEFINE v == FromNat(Len(s))
<1>1. Len(s) \in Nat
  BY LenProperties
<1>2. v \subseteq 0 .. 30 /\ ToNat(v) = Len(s)
  BY <1>1, SmallWord, NumberOfWord
<1>3. PutLengthPrefixedSlice(s) = EncodeVarint32(v) \o s
  BY DEF PutLengthPrefixedSlice
<1> HIDE DEF v
<1>4. v \subseteq 0 .. 31
  <2>1. 0 .. 30 \subseteq 0 .. 31
    OBVIOUS
  <2> QED
    BY <1>2, <2>1, Zenon
<1>5. v \in Word32
  BY <1>4 DEF Word32
<1>6. EncodeVarint32(v) = Varint(v)
  BY <1>5, EncodedVarint32
<1>7. v \in Word64
  BY <1>5, GroupsOf32
<1>8. Varint(v) \in Seq(Byte) /\ Len(Varint(v)) = Groups(v) /\ Groups(v) \in 1 .. 10
  BY <1>7, VarintBytes, GroupsOf64
<1>9. PutLengthPrefixedSlice(s) = Varint(v) \o s
  BY <1>3, <1>6
<1> QED
  BY <1>2, <1>4, <1>7, <1>8, <1>9 DEF v

\* A slice comes back with what follows it.
LEMMA SliceComesBack ==
    ASSUME NEW s \in Seq(Byte), NEW t \in Seq(Byte), Len(s) + Len(t) < 2^31
    PROVE  GetLengthPrefixedSlice(PutLengthPrefixedSlice(s) \o t) = [ok |-> TRUE, value |-> s, rest |-> t]
<1> DEFINE v == FromNat(Len(s))
           code == Varint(v)
           u == s \o t
           all == PutLengthPrefixedSlice(s) \o t
<1>1. Len(s) \in Nat /\ Len(t) \in Nat /\ u \in Seq(Byte) /\ Len(u) = Len(s) + Len(t)
  BY ByteStrings
<1>2. Len(s) < 2^31 /\ Len(u) < 2^31
  <2> DEFINE p == 2^31
  <2>1. Len(s) + Len(t) < p /\ p \in Nat
    BY SMT
  <2> HIDE DEF p
  <2>2. Len(s) < p /\ Len(u) < p
    <3> HIDE DEF u
    <3> QED
      BY <1>1, <2>1
  <2> QED
    BY <2>2 DEF p
<1>3. /\ PutLengthPrefixedSlice(s) = code \o s
      /\ v \subseteq 0 .. 31 /\ ToNat(v) = Len(s) /\ code \in Seq(Byte)
  BY <1>2, PrefixOfSlice
<1>4. all = code \o u
  <2>1. all = (code \o s) \o t
    BY <1>3
  <2> HIDE DEF code
  <2>2. (code \o s) \o t = code \o (s \o t)
    BY <1>3, ConcatAssociative
  <2> QED
    BY <2>1, <2>2
<1>5. ~ Less(FromNat(Len(u)), v)
  <2>1. ~ (Len(u) < Len(s))
    <3> HIDE DEF u
    <3> QED
      BY <1>1
  <2> HIDE DEF u
  <2>2. Less(FromNat(Len(u)), FromNat(Len(s))) <=> Len(u) < Len(s)
    <3> DEFINE a == Len(u)
               b == Len(s)
    <3>1. a \in Nat /\ b \in Nat /\ a < 2^31 /\ b < 2^31
      BY <1>1, <1>2
    <3> HIDE DEF a, b
    <3>2. Less(FromNat(a), FromNat(b)) <=> a < b
      BY <3>1, LengthsCompare
    <3> QED
      BY <3>2 DEF a, b
  <2> QED
    BY <2>1, <2>2
<1>6. SubSeq(u, 1, Len(s)) = s /\ SubSeq(u, Len(s) + 1, Len(s) + Len(t)) = t
  BY ConcatParts
<1> HIDE DEF v, u
<1>7. GetVarint(code \o u, 32) = [ok |-> TRUE, value |-> v, rest |-> u]
  <2>1. 32 \in {32, 64} /\ 32 - 1 = 31
    OBVIOUS
  <2>2. v \subseteq 0 .. 32 - 1
    BY <1>3, <2>1
  <2> QED
    BY <1>1, <2>1, <2>2, VarintDecoded
<1> HIDE DEF code
<1>8. GetLengthPrefixedSlice(all) = SliceIn(v, u)
  BY <1>4, <1>5, <1>7, SliceRead
<1>9. SliceIn(v, u) = [ok |-> TRUE, value |-> s, rest |-> t]
  BY <1>1, <1>3, <1>6 DEF SliceIn
<1> QED
  BY <1>8, <1>9

\* Of one that was cut off nothing does.
LEMMA SliceCut ==
    ASSUME NEW s \in Seq(Byte), Len(s) < 2^31, NEW n \in 0 .. Len(PutLengthPrefixedSlice(s)) - 1
    PROVE  GetLengthPrefixedSlice(SubSeq(PutLengthPrefixedSlice(s), 1, n)) = NotDecoded
<1> DEFINE v == FromNat(Len(s))
           code == Varint(v)
           g == Groups(v)
           all == PutLengthPrefixedSlice(s)
           part == SubSeq(all, 1, n)
<1>1. /\ all = code \o s
      /\ v \in Word64 /\ v \subseteq 0 .. 31 /\ ToNat(v) = Len(s) /\ code \in Seq(Byte)
      /\ Len(code) = g /\ g \in 1 .. 10
  BY PrefixOfSlice
<1>2. Len(s) \in Nat
  BY LenProperties
<1> HIDE DEF all
<1>3. /\ all \in Seq(Byte) /\ Len(all) = g + Len(s)
      /\ \A i \in 1 .. g : all[i] = code[i]
      /\ \A i \in 1 .. Len(s) : all[g + i] = s[i]
  <2> HIDE DEF v, code, g
  <2>1. /\ code \o s \in Seq(Byte) /\ Len(code \o s) = Len(code) + Len(s)
        /\ \A i \in 1 .. Len(code) : (code \o s)[i] = code[i]
        /\ \A i \in 1 .. Len(s) : (code \o s)[Len(code) + i] = s[i]
    BY <1>1, ByteStrings
  <2> QED
    BY <1>1, <2>1
<1>4. n \in 0 .. g + Len(s) - 1
  <2>1. n \in 0 .. Len(all) - 1
    BY DEF all
  <2> HIDE DEF v, code, g
  <2>2. Len(all) = g + Len(s)
    BY <1>3
  <2> DEFINE a == Len(all)
             l == Len(s)
  <2>3. a = g + l /\ l \in Nat /\ n \in 0 .. a - 1 /\ g \in Nat
    BY <1>1, <1>2, <2>1, <2>2
  <2> HIDE DEF a, l
  <2>4. n \in 0 .. g + l - 1
    BY <2>3
  <2> QED
    BY <2>4 DEF l
<1> HIDE DEF v, code, g
<1>5. /\ part \in Seq(Byte) /\ Len(part) = n
      /\ \A i \in 1 .. n : part[i] = all[i]
  <2>0. g \in Nat /\ Len(s) \in Nat /\ Len(all) = g + Len(s)
    BY <1>1, <1>2, <1>3
  <2>1. 1 \in 1 .. Len(all) + 1 /\ n \in 1 - 1 .. Len(all) /\ n - 1 + 1 = n
    BY <1>4, <2>0
  <2>2. /\ part \in Seq(Byte) /\ Len(part) = n - 1 + 1
        /\ \A i \in 1 .. n - 1 + 1 : part[i] = all[1 + i - 1]
    BY <1>3, <2>1, ByteSubSeq
  <2>3. \A i \in 1 .. n : 1 + i - 1 = i
    OBVIOUS
  <2> HIDE DEF part
  <2> QED
    BY <2>1, <2>2, <2>3
<1> HIDE DEF part
<1>6. CASE n < g
  <2> DEFINE cut == SubSeq(code, 1, n)
  <2>1. 1 \in 1 .. Len(code) + 1 /\ n \in 1 - 1 .. Len(code) /\ n - 1 + 1 = n /\ n \in 0 .. g - 1
    BY <1>1, <1>4, <1>6
  <2>2. /\ cut \in Seq(Byte) /\ Len(cut) = n - 1 + 1
        /\ \A i \in 1 .. n - 1 + 1 : cut[i] = code[1 + i - 1]
    BY <1>1, <2>1, ByteSubSeq
  <2>3. ASSUME NEW i \in 1 .. n PROVE 1 + i - 1 = i /\ i \in 1 .. g
    <3>1. g \in Nat /\ n \in 0 .. g - 1
      BY <1>1, <2>1
    <3> QED
      BY <3>1
  <2>4. GetVarint(cut, 32) = NotDecoded
    BY <1>1, <2>1, VarintCut DEF code, g
  <2> HIDE DEF cut
  <2>5. Len(part) = Len(cut) /\ \A i \in 1 .. Len(part) : part[i] = cut[i]
    BY <1>3, <1>5, <2>1, <2>2, <2>3
  <2>6. part = cut
    BY <1>5, <2>2, <2>5, EqualBytes
  <2>7. GetLengthPrefixedSlice(part) = NotDecoded
    BY <2>4, <2>6, NoLengthNoSlice
  <2> QED
    BY <2>7 DEF part, all
<1>7. CASE n >= g
  <2> DEFINE m == n - g
             t == SubSeq(s, 1, m)
  <2>1. m \in Nat /\ m < Len(s) /\ n = g + m /\ 1 \in 1 .. Len(s) + 1 /\ m \in 1 - 1 .. Len(s) /\ m - 1 + 1 = m
    BY <1>1, <1>2, <1>4, <1>7
  <2> HIDE DEF m
  <2>2. /\ t \in Seq(Byte) /\ Len(t) = m - 1 + 1
        /\ \A i \in 1 .. m - 1 + 1 : t[i] = s[1 + i - 1]
    BY <2>1, ByteSubSeq
  <2>3. Len(t) = m /\ \A i \in 1 .. m : t[i] = s[i]
    <3>1. \A i \in 1 .. m : 1 + i - 1 = i
      BY <2>1
    <3> HIDE DEF t
    <3> QED
      BY <2>1, <2>2, <3>1
  <2> HIDE DEF t
  <2> DEFINE u == code \o t
  <2>4. /\ u \in Seq(Byte) /\ Len(u) = g + m
        /\ \A i \in 1 .. g : u[i] = code[i]
        /\ \A i \in 1 .. m : u[g + i] = t[i]
    <3>1. /\ u \in Seq(Byte) /\ Len(u) = Len(code) + Len(t)
          /\ \A i \in 1 .. Len(code) : u[i] = code[i]
          /\ \A i \in 1 .. Len(t) : u[Len(code) + i] = t[i]
      BY <1>1, <2>2, ByteStrings
    <3> QED
      BY <1>1, <2>3, <3>1
  <2> HIDE DEF u
  <2>5. ASSUME NEW i \in 1 .. n PROVE part[i] = u[i]
    <3>1. CASE i <= g
      <4>1. i \in 1 .. g
        BY <1>1, <3>1
      <4> QED
        BY <1>3, <1>5, <2>4, <4>1
    <3>2. CASE i > g
      <4> DEFINE j == i - g
      <4>1. j \in 1 .. m /\ j \in 1 .. Len(s) /\ i = g + j
        BY <1>1, <1>2, <2>1, <3>2
      <4> HIDE DEF j
      <4>2. all[g + j] = s[j] /\ u[g + j] = t[j] /\ t[j] = s[j]
        BY <1>3, <2>3, <2>4, <4>1
      <4>3. part[i] = all[i]
        BY <1>5
      <4> QED
        BY <4>1, <4>2, <4>3, Zenon
    <3>3. i <= g \/ i > g
      BY <1>1
    <3> QED
      BY <3>1, <3>2, <3>3
  <2>6. part = u
    <3>1. Len(part) = Len(u) /\ \A i \in 1 .. Len(part) : part[i] = u[i]
      BY <1>5, <2>1, <2>4, <2>5
    <3> QED
      BY <1>5, <2>4, <3>1, EqualBytes
  <2>7. GetVarint(u, 32) = [ok |-> TRUE, value |-> v, rest |-> t]
    <3>1. 32 \in {32, 64} /\ 32 - 1 = 31
      OBVIOUS
    <3>2. v \subseteq 0 .. 32 - 1
      BY <1>1, <3>1
    <3> QED
      BY <2>2, <3>1, <3>2, VarintDecoded DEF u, code
  <2>8. Less(FromNat(Len(t)), v)
    <3> DEFINE b == Len(s)
    <3>1. b \in Nat /\ m \in Nat /\ m < b /\ b < 2^31
      BY <1>2, <2>1
    <3> HIDE DEF b
    <3>2. m < 2^31
      <4> DEFINE p == 2^31
      <4>1. b < p /\ p \in Nat
        BY <3>1, SMT
      <4> HIDE DEF p
      <4>2. m < p
        BY <3>1, <4>1
      <4> QED
        BY <4>2 DEF p
    <3>3. Less(FromNat(m), FromNat(b)) <=> m < b
      BY <3>1, <3>2, LengthsCompare
    <3>4. Less(FromNat(m), FromNat(b))
      BY <3>1, <3>3
    <3> QED
      BY <2>3, <3>4 DEF v, b
  <2>9. GetLengthPrefixedSlice(part) = NotDecoded
    BY <2>6, <2>7, <2>8, SliceRead
  <2> QED
    BY <2>9 DEF part, all
<1>8. n < g \/ n >= g
  BY <1>1, <1>4
<1> QED
  BY <1>6, <1>7, <1>8

\* A slice read from any string is as long as the number in front says, and inside it.
LEMMA AnySlice ==
    ASSUME NEW s \in Seq(Byte), Len(s) < 2^30, GetLengthPrefixedSlice(s) # NotDecoded
    PROVE  LET any == GetLengthPrefixedSlice(s)
               number == GetVarint32(s)
           IN  number.ok /\ FromNat(Len(any.value)) = number.value /\ any.value \o any.rest = number.rest
<1> DEFINE any == GetLengthPrefixedSlice(s)
           number == GetVarint(s, 32)
<1>1. number # NotDecoded
  BY NoLengthNoSlice
<1>2. PICK v, t : /\ number = [ok |-> TRUE, value |-> v, rest |-> t]
                  /\ v \subseteq 0 .. 32 - 1
                  /\ t \in Seq(Byte) /\ Len(t) <= Len(s)
  <2>1. 32 \in {32, 64}
    OBVIOUS
  <2> QED
    BY <1>1, <2>1, GetVarintType
<1>3. number.ok /\ number.value = v /\ number.rest = t
  <2> HIDE DEF number
  <2> QED
    BY <1>2
<1>4. ~ Less(FromNat(Len(t)), v) /\ any = SliceIn(v, t)
  BY <1>2, SliceRead
<1> HIDE DEF any
<1>5. Len(t) \in Nat /\ Len(s) \in Nat
  BY <1>2, LenProperties
<1> DEFINE L == Len(t)
           k == ToNat(v)
<1>6. L < 2^31
  <2>1. 2^30 = 1073741824 /\ 2^31 = 2147483648
    BY SMT
  <2> QED
    BY <1>2, <1>5, <2>1
<1>7. v \in Word32
  BY <1>2 DEF Word32
<1>8. v \subseteq 0 .. 30 /\ k <= L
  <2> HIDE DEF L
  <2>1. L \in Nat /\ L < 2^31 /\ ~ Less(FromNat(L), v)
    BY <1>4, <1>5, <1>6 DEF L
  <2> QED
    BY <1>7, <2>1, SmallerWord
<1>9. k \in Nat /\ FromNat(k) = v
  BY <1>8, NumberType, WordOfNumber
<1> HIDE DEF k
<1>10. any.value = SubSeq(t, 1, k) /\ any.rest = SubSeq(t, k + 1, L)
  BY <1>4 DEF SliceIn, k
<1>11. Len(any.value) = k
  <2>1. 1 \in 1 .. Len(t) + 1 /\ k \in 1 - 1 .. Len(t) /\ k - 1 + 1 = k
    BY <1>5, <1>8, <1>9
  <2>2. Len(SubSeq(t, 1, k)) = k - 1 + 1
    BY <1>2, <2>1, ByteSubSeq
  <2> QED
    BY <1>10, <2>1, <2>2
<1>12. any.value \o any.rest = t
  <2>1. 1 \in 1 .. Len(t) + 1 /\ k \in 1 - 1 .. Len(t) /\ L \in k .. Len(t)
    BY <1>5, <1>8, <1>9
  <2>2. SubSeq(t, 1, k) \o SubSeq(t, k + 1, L) = SubSeq(t, 1, L)
    BY <1>2, <2>1, ConcatAdjacentSubSeq
  <2>3. SubSeq(t, 1, L) = t
    BY <1>2, SubSeqFull
  <2> QED
    BY <1>10, <2>2, <2>3
<1> HIDE DEF number
<1>13. number.ok /\ FromNat(Len(any.value)) = number.value /\ any.value \o any.rest = number.rest
  BY <1>3, <1>9, <1>11, <1>12
<1> QED
  BY <1>13 DEF any, number, GetVarint32

\* Varints and length-prefixed slices of any length below 2^30 come back as they were
\* encoded, the loop and the cascade write the same bytes, VarintLength counts them, and
\* nothing is read from an encoding that was cut off.
THEOREM CodingComesBack == Spec => []CodingExact
<1>1. InputOK => VarintsExact
  <2> SUFFICES ASSUME InputOK
               PROVE  VarintsExact
    OBVIOUS
  <2> DEFINE Exact(v, width, code) ==
               /\ GetVarint(code \o input, width) = [ok |-> TRUE, value |-> v, rest |-> input]
               /\ Len(code) = VarintLength(v)
               /\ \A n \in 0 .. Len(code) - 1 : ~ GetVarint(SubSeq(code, 1, n), width).ok
  <2>1. input \in Seq(Byte)
    BY DEF InputOK
  <2>2. ~ NotDecoded.ok
    BY DEF NotDecoded
  <2>3. ASSUME NEW width \in {32, 64}, NEW v, v \subseteq 0 .. width - 1, v \in Word64
        PROVE  Exact(v, width, Varint(v))
    <3> DEFINE code == Varint(v)
    <3>1. GetVarint(code \o input, width) = [ok |-> TRUE, value |-> v, rest |-> input]
      BY <2>1, <2>3, VarintDecoded, ZenonT(40)
    <3>2. Len(code) = VarintLength(v) /\ Len(code) = Groups(v)
      BY <2>3, VarintBytes, VarintLengthIs
    <3>3. \A n \in 0 .. Groups(v) - 1 : GetVarint(SubSeq(code, 1, n), width) = NotDecoded
      BY <2>3, VarintCut
    <3> HIDE DEF code
    <3>4. \A n \in 0 .. Len(code) - 1 : ~ GetVarint(SubSeq(code, 1, n), width).ok
      BY <2>2, <3>2, <3>3, ZenonT(40)
    <3>5. Exact(v, width, code)
      BY <3>1, <3>2, <3>4
    <3> QED
      BY <3>5 DEF code
  <2> HIDE DEF Exact
  <2>4. Exact(AsWord(input, 64), 64, EncodeVarint64(AsWord(input, 64)))
    <3> DEFINE v == AsWord(input, 64)
    <3>1. 64 \in Nat /\ 64 \in {32, 64} /\ 64 - 1 = 63
      OBVIOUS
    <3>2. v \subseteq 0 .. 64 - 1
      BY <2>1, <3>1, AsWordType, ZenonT(40)
    <3> HIDE DEF v
    <3>3. v \in Word64
      BY <3>1, <3>2 DEF Word64
    <3>4. EncodeVarint64(v) = Varint(v)
      BY <3>3, EncodedVarint64
    <3>5. Exact(v, 64, Varint(v))
      BY <2>3, <3>1, <3>2, <3>3
    <3>6. Exact(v, 64, EncodeVarint64(v))
      BY <3>4, <3>5
    <3> QED
      BY <3>6 DEF v
  <2>5. Exact(AsWord(input, 32), 32, EncodeVarint32(AsWord(input, 32)))
    <3> DEFINE v == AsWord(input, 32)
    <3>1. 32 \in Nat /\ 32 \in {32, 64} /\ 32 - 1 = 31
      OBVIOUS
    <3>2. v \subseteq 0 .. 32 - 1
      BY <2>1, <3>1, AsWordType
    <3> HIDE DEF v
    <3>3. v \in Word32
      BY <3>1, <3>2 DEF Word32
    <3>4. EncodeVarint32(v) = Varint(v) /\ v \in Word64
      BY <3>3, EncodedVarint32, GroupsOf32
    <3>5. Exact(v, 32, Varint(v))
      BY <2>3, <3>1, <3>2, <3>4
    <3>6. Exact(v, 32, EncodeVarint32(v))
      BY <3>4, <3>5
    <3> QED
      BY <3>6 DEF v
  <2> QED
    BY <2>4, <2>5 DEF VarintsExact, Exact
<1>2. InputOK => SlicesExact
  <2> SUFFICES ASSUME InputOK
               PROVE  SlicesExact
    OBVIOUS
  <2> DEFINE code == PutLengthPrefixedSlice(input)
             long == PutLengthPrefixedSlice(LongSlice)
             first == GetLengthPrefixedSlice(code \o long)
             second == GetLengthPrefixedSlice(first.rest)
             any == GetLengthPrefixedSlice(input)
             number == GetVarint32(input)
  <2>1. input \in Seq(Byte) /\ Len(input) \in Nat /\ Len(input) < 2^30
    BY LenProperties DEF InputOK
  <2>2. 2^30 = 1073741824 /\ 2^31 = 2147483648
    BY SMT
  <2>3. LongSlice \in Seq(Byte) /\ Len(LongSlice) = 130
    <3>1. LongSlice \in [1 .. 130 -> Byte] /\ 130 \in Nat
      BY DEF LongSlice, Byte
    <3> QED
      BY <3>1, FunctionIsSeq, ZenonT(40)
  <2>4. Len(input) < 2^31 /\ Len(LongSlice) < 2^31
    BY <2>1, <2>2, <2>3
  <2>5. long \in Seq(Byte) /\ Len(long) \in Nat /\ Len(long) <= 140
    <3> DEFINE w == FromNat(Len(LongSlice))
    <3>1. /\ long = Varint(w) \o LongSlice
          /\ Varint(w) \in Seq(Byte) /\ Len(Varint(w)) = Groups(w) /\ Groups(w) \in 1 .. 10
      BY <2>3, <2>4, PrefixOfSlice, ZenonT(40)
    <3> HIDE DEF w, long
    <3>2. long \in Seq(Byte) /\ Len(long) = Len(Varint(w)) + Len(LongSlice)
      BY <2>3, <3>1, ByteStrings, ZenonT(40)
    <3>3. Len(long) = Groups(w) + 130 /\ Groups(w) \in 1 .. 10
      BY <2>3, <3>1, <3>2
    <3> QED
      BY <3>2, <3>3
  <2> HIDE DEF long, code
  <2>6. first = [ok |-> TRUE, value |-> input, rest |-> long]
    <3>1. Len(input) + Len(long) < 2^31
      BY <2>1, <2>2, <2>5
    <3> QED
      BY <2>1, <2>5, <3>1, SliceComesBack DEF code
  <2> HIDE DEF first
  <2>7. first.ok /\ first.value = input /\ first.rest = long
    BY <2>6
  <2>8. second = [ok |-> TRUE, value |-> LongSlice, rest |-> <<>>]
    <3>1. <<>> \in Seq(Byte) /\ Len(<<>>) = 0
      OBVIOUS
    <3>2. Len(LongSlice) + Len(<<>>) < 2^31
      BY <2>2, <2>3, <3>1
    <3>3. GetLengthPrefixedSlice(long \o <<>>) = [ok |-> TRUE, value |-> LongSlice, rest |-> <<>>]
      <4> DEFINE none == <<>>
                 slice == LongSlice
      <4>1. none \in Seq(Byte) /\ slice \in Seq(Byte) /\ Len(slice) + Len(none) < 2^31
        BY <2>3, <3>1, <3>2
      <4> HIDE DEF none, slice
      <4>2. GetLengthPrefixedSlice(PutLengthPrefixedSlice(slice) \o none) = [ok |-> TRUE, value |-> slice, rest |-> none]
        BY <4>1, SliceComesBack
      <4> QED
        BY <4>2 DEF long, none, slice
    <3>4. long \o <<>> = long
      BY <2>5
    <3> QED
      BY <2>7, <3>3, <3>4, Zenon
  <2> HIDE DEF second
  <2>9. second.ok /\ second.value = LongSlice /\ second.rest = <<>>
    BY <2>8
  <2>10. ~ NotDecoded.ok
    BY DEF NotDecoded
  <2>11. \A n \in 0 .. Len(code) - 1 : ~ GetLengthPrefixedSlice(SubSeq(code, 1, n)).ok
    <3>1. ASSUME NEW n \in 0 .. Len(code) - 1 PROVE GetLengthPrefixedSlice(SubSeq(code, 1, n)) = NotDecoded
      BY <2>1, <2>4, SliceCut DEF code
    <3> QED
      BY <2>10, <3>1, Zenon
  <2>12. any.ok => number.ok /\ FromNat(Len(any.value)) = number.value /\ any.value \o any.rest = number.rest
    <3>1. ASSUME any.ok PROVE any # NotDecoded
      BY <2>10, <3>1, Zenon
    <3>2. any # NotDecoded =>
            number.ok /\ FromNat(Len(any.value)) = number.value /\ any.value \o any.rest = number.rest
      BY <2>1, AnySlice
    <3> HIDE DEF any, number
    <3> QED
      BY <3>1, <3>2, Zenon
  <2> HIDE DEF any, number
  <2>13. /\ first.ok /\ first.value = input
         /\ second.ok /\ second.value = LongSlice /\ second.rest = <<>>
         /\ \A n \in 0 .. Len(code) - 1 : ~ GetLengthPrefixedSlice(SubSeq(code, 1, n)).ok
         /\ any.ok => number.ok /\ FromNat(Len(any.value)) = number.value /\ any.value \o any.rest = number.rest
    BY <2>7, <2>9, <2>11, <2>12, Zenon
  <2> QED
    BY <2>13, Zenon DEF SlicesExact, code, long, first, second, any, number
<1>3. InputOK => CodingExact
  BY <1>1, <1>2 DEF CodingExact
<1> QED
  BY <1>3, InputInvariant, PTL
================================================================================
