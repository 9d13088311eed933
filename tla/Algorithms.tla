----------------------------- MODULE Algorithms -----------------------------
(***************************************************************************)
(* The algorithms on bytes, run on every input up to a bound: a state is   *)
(* an input, and each step makes it longer by one byte.  Which bytes, and  *)
(* how many of them from which beginning, depends on the subject.          *)
(***************************************************************************)
EXTENDS Crc32c, BloomFilter, Random, Logging

CONSTANTS
    Subjects,
    Beginnings(_),      \* of a subject: the inputs to start from, each with its bound
    Alphabet(_)         \* of a subject: the bytes that are added

\* The inputs are strings of bytes, and their lengths, a few added up, within FromNat's range.
ASSUME InputAssumption ==
    \A s \in Subjects :
        /\ \A b \in Beginnings(s) :
            b.bytes \in Seq(Byte) /\ b.room \in Nat /\ Len(b.bytes) + b.room < 2^30
        /\ Alphabet(s) \subseteq Byte

VARIABLES subject, input, room      \* room: how many bytes may still be added

vars == <<subject, input, room>>

Init ==
    /\ subject \in Subjects
    /\ \E b \in Beginnings(subject) : input = b.bytes /\ room = b.room

AddByte ==
    /\ room > 0
    /\ \E b \in Alphabet(subject) : input' = Append(input, b)
    /\ room' = room - 1
    /\ UNCHANGED subject

\* All inputs have been tried.
Done == room = 0 /\ UNCHANGED vars

Next == AddByte \/ Done

Spec == Init /\ [][Next]_vars

(***************************************************************************)
(* Properties.                                                             *)
(***************************************************************************)
\* The number whose bytes the input is, the missing ones zero.
AsWord(s, width) == UNION {Shl(s[i], 8 * (i - 1), width) : i \in 1 .. Len(s)}

\* A varint decoder gets back what was encoded and leaves what follows, at both widths;
\* it accepts no proper prefix of an encoding, so that a torn one is not taken for another
\* number; and VarintLength, with which MemTable::Add computes the size of its buffer,
\* is exact.
VarintsExact ==
    LET Exact(v, width, code) ==
            /\ GetVarint(code \o input, width) = [ok |-> TRUE, value |-> v, rest |-> input]
            /\ Len(code) = VarintLength(v)
            /\ \A n \in 0 .. Len(code) - 1 : ~ GetVarint(SubSeq(code, 1, n), width).ok
    IN  subject = "coding" =>
        /\ Exact(AsWord(input, 64), 64, EncodeVarint64(AsWord(input, 64)))
        /\ Exact(AsWord(input, 32), 32, EncodeVarint32(AsWord(input, 32)))

\* A slice of more than 127 bytes, whose length takes two.
LongSlice == [i \in 1 .. 130 |-> {}]

\* Slices one behind the other come back one by one, however long they are; of a string
\* that was cut off, or that is no encoding at all, no slice reaches past the end.
SlicesExact ==
    LET code == PutLengthPrefixedSlice(input)
        first == GetLengthPrefixedSlice(code \o PutLengthPrefixedSlice(LongSlice))
        second == GetLengthPrefixedSlice(first.rest)
        any == GetLengthPrefixedSlice(input)
        number == GetVarint32(input)
    IN  subject = "coding" =>
        /\ first.ok /\ first.value = input
        /\ second.ok /\ second.value = LongSlice /\ second.rest = <<>>
        /\ \A n \in 0 .. Len(code) - 1 : ~ GetLengthPrefixedSlice(SubSeq(code, 1, n)).ok
        /\ any.ok => number.ok /\ FromNat(Len(any.value)) = number.value /\ any.value \o any.rest = number.rest

\* Numbers and slices come back as they were encoded, from any string that starts with
\* them, and from no other.
CodingExact == VarintsExact /\ SlicesExact

\* Every internal key that ParseInternalKey accepts is the encoding of what it returns;
\* and an encoding is parsed to what was encoded, for every user key, exactly if the
\* sequence number is below 2^56, which MemTable::Add, unlike PackSequenceAndType, does
\* not assert.
InternalKeysExact ==
    LET parsed == ParseInternalKey(input)
        seq == AsWord(input, 64)
        Parsed(type) == ParseInternalKey(AppendInternalKey(input, seq, type))
    IN  subject = "coding" =>
        /\ parsed.ok => AppendInternalKey(parsed.user_key, parsed.sequence, parsed.type) = input
        /\ \A type \in {{}, {0}} :
            Parsed(type) = [ok |-> TRUE, user_key |-> input, sequence |-> seq, type |-> type] <=> Fits(seq, 56)

\* The CRC by its definition: bit after bit, the lowest of a byte first.
CrcBitByBit(s) ==
    LET go[n \in 1 .. Len(s) + 1, l \in Word32] == IF n > Len(s) THEN l ELSE go[n + 1, Advance(Xor(l, s[n]), 8)]
    IN  Xor(go[1, kCRC32Xor], kCRC32Xor)

\* Extend, with its strides, is the division by the polynomial, wherever the data lies in
\* memory and however much of it there is.
CrcIsDivision ==
    subject = "crc" => \A address \in 0 .. 3 : Crc(input, address) = CrcBitByBit(input)

\* The checksum that the log writer stores for a record, from the precomputed one of the
\* type and from data that lies anywhere, masked, is the one the reader computes over type
\* and data in its block.
ReaderAcceptsWriter ==
    LET type == input[1]
        data == Tail(input)
    IN  subject = "crc" =>
        \A a, b \in {0, 3} : CrcMatches(StoredCrc(type, data, a), type, data, b)

\* The filter that InternalFilterPolicy makes of internal keys, behind an earlier one in the
\* same string, matches every one of their user keys at any sequence number.
NoFalseNegatives ==
    LET users == [i \in 1 .. Len(input) + 1 |-> SubSeq(input, i, Len(input))]
        keys == [i \in 1 .. Len(users) |-> AppendInternalKey(users[i], FromNat(i), {0})]
        earlier == <<{0}, {7}>>
        Filter(bits) ==
            LET dst == InternalCreateFilter(keys, bits, earlier) IN SubSeq(dst, Len(earlier) + 1, Len(dst))
    IN  subject = "bloom" =>
        \A bits \in {1, 13} :
            LET filter == Filter(bits)
            IN  \A i \in 1 .. Len(users) : InternalKeyMayMatch(AppendInternalKey(users[i], 0 .. 55, {0}), filter)

\* The remainder of a division by M, bit after bit.
Remainder(w) ==
    LET after[n \in 0 .. 48] ==
            IF n = 0 THEN {}
            ELSE LET r == Shl(after[n - 1], 1, 48) \cup (IF 48 - n \in w THEN {0} ELSE {})
                 IN  IF Less(r, M) THEN r ELSE Minus(r, M, 48)
    IN  after[48]

\* Next is the multiplication modulo M = 2^31 - 1, from every seed, and never reaches one of
\* the two seeds that it would not leave.
NextIsProductModM ==
    LET seed == Seed(AsWord(input, 32))
        next == NextSeed(seed)
    IN  subject = "random" =>
        /\ next = Remainder(Times(seed, A, 64))
        /\ next # {} /\ next # M

\* The digits the input starts with, and their value if no width limits it.
LeadingDigits(s) ==
    LET ends == {n \in 0 .. Len(s) : \A i \in 1 .. n : s[i] \in Digits}
    IN  CHOOSE n \in ends : \A m \in ends : m <= n

DecimalValue(s) ==
    LET after[n \in 0 .. Len(s)] ==
            IF n = 0 THEN 0 ELSE 10 * after[n - 1] + ToNat(s[n]) - 48
    IN  after[Len(s)]

\* ConsumeDecimalNumber takes all leading digits and nothing else, and says no, leaving the
\* input alone, exactly if there are none or their value does not fit.
DecimalExact ==
    LET n == LeadingDigits(input)
        value == DecimalValue(SubSeq(input, 1, n))
    IN  subject = "text" =>
        ConsumeDecimalNumber(input) =
            IF value > kMaxUint64 THEN [ok |-> FALSE, value |-> 0, rest |-> input]
            ELSE [ok |-> n > 0, value |-> value, rest |-> SubSeq(input, n + 1, Len(input))]

\* A message of any length goes to the file whole, behind its header, and the line ends
\* with one newline more only if it does not end with one already.
LinesWhole ==
    LET line == Header \o input
    IN  subject = "text" =>
        Logv(input) = IF line[Len(line)] = Newline THEN line ELSE Append(line, Newline)
=============================================================================
