------------------------------- MODULE Crc32c -------------------------------
(***************************************************************************)
(* util/crc32c.cc and .h: the checksum of the log's records, four bytes at *)
(* a time in four interleaved strides, and its masking.  Extend is modelled*)
(* after its static variable has been initialised, to false; how that goes *)
(* is the subject of module Crc32cInit.                                    *)
(***************************************************************************)
EXTENDS Coding

kCRC32Xor == 0 .. 31

\* The polynomial 0x82f63b78 (the bits reversed), and the division by it of one bit.
Polynomial == {3, 4, 5, 6, 8, 9, 11, 12, 13, 17, 18, 20, 21, 22, 23, 25, 31}

DivideBit(l) == IF 0 \in l THEN Xor(Polynomial, Shr(l, 1)) ELSE Shr(l, 1)

Advance(l, bits) ==
    LET go[n \in 0 .. bits, w \in Word32] == IF n = 0 THEN w ELSE go[n - 1, DivideBit(w)]
    IN  go[bits, l]

\* The tables of the source hold what a byte becomes 8 bits later, and, for the strides,
\* what a byte of the word 16 bytes before has become: table i is for byte 3 - i of it.
kByteExtensionTable == [c \in Byte |-> Advance(c, 8)]

\* STEP1: one byte.
Step1(l, b) == Xor(kByteExtensionTable[Xor(Low(l, 8), b)], Shr(l, 8))

\* Byte after byte.
Steps1(crc, s) ==
    LET go[n \in 1 .. Len(s) + 1, l \in Word32] == IF n > Len(s) THEN l ELSE go[n + 1, Step1(l, s[n])]
    IN  go[1, crc]

kStrideExtensionTable == [i \in 0 .. 3 |-> [c \in Byte |-> Steps1(c, [n \in 1 .. 13 + i |-> {}])]]

\* The n-th word of s, from 0.
ReadUint32LE(s, n) == DecodeFixed32(SubSeq(s, 4 * n + 1, 4 * n + 4))

\* STEP4: the next word of a stride.
Step4(crc, word) ==
    LET ByteOf(i) == Low(Shr(crc, 8 * i), 8)
    IN  Xor(word, Xor(Xor(kStrideExtensionTable[3][ByteOf(0)], kStrideExtensionTable[2][ByteOf(1)]),
                      Xor(kStrideExtensionTable[1][ByteOf(2)], kStrideExtensionTable[0][ByteOf(3)])))

\* Mutant: the strides are not rotated.
NextWordInPlace(c, word) == <<Step4(c[1], word), c[2], c[3], c[4]>>

\* A word after the swaths: the strides take turns.
NextWord(c, word) == <<c[2], c[3], c[4], Step4(c[1], word)>>

\* The four strides after all words of s, which has at least 16 bytes: first the swaths of
\* STEP16, then word by word.
Strides(crc, s) ==
    LET swaths == Len(s) \div 16
        first == <<Xor(ReadUint32LE(s, 0), crc), ReadUint32LE(s, 1), ReadUint32LE(s, 2), ReadUint32LE(s, 3)>>
        swath[n \in 1 .. swaths, c \in Seq(Word32)] ==
            IF n = swaths THEN c ELSE swath[n + 1, [k \in 1 .. 4 |-> Step4(c[k], ReadUint32LE(s, 4 * n - 1 + k))]]
        single[n \in 4 * swaths .. Len(s) \div 4, c \in Seq(Word32)] ==
            IF n = Len(s) \div 4 THEN c ELSE single[n + 1, NextWord(c, ReadUint32LE(s, n))]
    IN  single[4 * swaths, swath[1, first]]

\* STEP4W: a stride joins those before it.
Step4W(l, word) == Steps1(Xor(word, l), <<{}, {}, {}, {}>>)

\* Extend the checksum by data, whose address is a multiple of 4 plus address.
Extend(crc, data, address) ==
    LET x == (4 - address) % 4
        aligned == IF x <= Len(data) THEN x ELSE 0      \* RoundUp may be past the end
        rest == SubSeq(data, aligned + 1, Len(data))
        l == Steps1(Xor(crc, kCRC32Xor), SubSeq(data, 1, aligned))
        c == Strides(l, rest)
        combined == Step4W(Step4W(Step4W(Step4W({}, c[1]), c[2]), c[3]), c[4])
        tail == SubSeq(rest, 4 * (Len(rest) \div 4) + 1, Len(rest))
    IN  Xor(IF Len(rest) >= 16 THEN Steps1(combined, tail) ELSE Steps1(l, rest), kCRC32Xor)

Crc(data, address) == Extend({}, data, address)

kMaskDelta == {3, 4, 6, 7, 9, 11, 13, 14, 15, 17, 23, 25, 29, 31}      \* 0xa282ead8

\* Rotated right by 15, plus the delta.
Mask(crc) == Plus(Shr(crc, 15) \cup Shl(crc, 17, 32), kMaskDelta, 32)

\* Mutant: rotated the same way again.
UnmaskSameWay(masked_crc) ==
    LET rot == Minus(masked_crc, kMaskDelta, 32) IN Shr(rot, 15) \cup Shl(rot, 17, 32)

Unmask(masked_crc) ==
    LET rot == Minus(masked_crc, kMaskDelta, 32) IN Shr(rot, 17) \cup Shl(rot, 15, 32)

(***************************************************************************)
(* The checksum in the header of a physical record.                        *)
(***************************************************************************)
\* EmitPhysicalRecord: type_crc_ of the type, extended by the data.
StoredCrc(type, data, address) == EncodeFixed32(Mask(Extend(Crc(<<type>>, 0), data, address)))

\* ReadPhysicalRecord: the checksum of type and data, which follow each other in the block.
CrcMatches(stored, type, data, address) == Unmask(DecodeFixed32(stored)) = Crc(<<type>> \o data, address)
=============================================================================
