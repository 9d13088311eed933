------------------------------- MODULE Coding -------------------------------
(***************************************************************************)
(* util/coding.cc and .h: integers and slices as bytes, and back; and the  *)
(* internal keys of db/dbformat.cc, made of them.  What the code appends   *)
(* to a string or stores behind a pointer is the value of an operator; a   *)
(* decoder gives whether it succeeds, the value, and the input left.       *)
(***************************************************************************)
EXTENDS Words

(***************************************************************************)
(* Fixed length, little endian.                                            *)
(***************************************************************************)
EncodeFixed32(v) == [i \in 1 .. 4 |-> Low(Shr(v, 8 * (i - 1)), 8)]

EncodeFixed64(v) == [i \in 1 .. 8 |-> Low(Shr(v, 8 * (i - 1)), 8)]

DecodeFixed32(s) == UNION {Shl(s[i], 8 * (i - 1), 32) : i \in 1 .. 4}

DecodeFixed64(s) == UNION {Shl(s[i], 8 * (i - 1), 64) : i \in 1 .. 8}

(***************************************************************************)
(* Variable length: seven bits a byte, the eighth says that more follow.   *)
(***************************************************************************)
Fits(v, bits) == v \subseteq 0 .. bits - 1

\* The cascade of EncodeVarint32 picks the number of bytes.
EncodeVarint32(v) ==
    LET n == CHOOSE n \in 1 .. 5 : (n < 5 => Fits(v, 7 * n)) /\ \A m \in 1 .. n - 1 : ~ Fits(v, 7 * m)
    IN  [i \in 1 .. n |-> Low(Shr(v, 7 * (i - 1)) \cup (IF i < n THEN {7} ELSE {}), 8)]

\* The loop of EncodeVarint64.
EncodeVarint64(v) ==
    LET rest[w \in Word64] ==
            IF Fits(w, 7) THEN <<w>> ELSE <<Low(w \cup {7}, 8)>> \o rest[Shr(w, 7)]
    IN  rest[v]

VarintLength(v) ==
    LET len[w \in Word64] == IF Fits(w, 7) THEN 1 ELSE 1 + len[Shr(w, 7)]
    IN  len[v]

NotDecoded == [ok |-> FALSE, value |-> {}, rest |-> <<>>]

\* Mutant: the loop ends one byte early, at shift < 28 and shift < 63.
GetVarintShort(s, width) ==
    LET most == IF width = 32 THEN 4 ELSE 9
        stops == {i \in 1 .. Len(s) : i <= most /\ 7 \notin s[i]}
        n == CHOOSE i \in stops : \A j \in stops : i <= j
    IN  IF stops = {} THEN NotDecoded
        ELSE [ok |-> TRUE, value |-> UNION {Shl(Low(s[i], 7), 7 * (i - 1), width) : i \in 1 .. n},
              rest |-> SubSeq(s, n + 1, Len(s))]

\* GetVarint32Ptr with its fallback, and GetVarint64Ptr: up to the first byte without the
\* eighth bit, if there is one among the first 5 or 10; higher bits are shifted out.
GetVarint(s, width) ==
    LET most == IF width = 32 THEN 5 ELSE 10
        stops == {i \in 1 .. Len(s) : i <= most /\ 7 \notin s[i]}
        n == CHOOSE i \in stops : \A j \in stops : i <= j
    IN  IF stops = {} THEN NotDecoded
        ELSE [ok |-> TRUE, value |-> UNION {Shl(Low(s[i], 7), 7 * (i - 1), width) : i \in 1 .. n},
              rest |-> SubSeq(s, n + 1, Len(s))]

GetVarint32(s) == GetVarint(s, 32)

GetVarint64(s) == GetVarint(s, 64)

(***************************************************************************)
(* Slices with their length in front.                                      *)
(***************************************************************************)
PutLengthPrefixedSlice(s) == EncodeVarint32(FromNat(Len(s))) \o s

GetLengthPrefixedSlice(s) ==
    LET got == GetVarint32(s)
        size == Len(got.rest)
        len == ToNat(got.value)
    IN  IF got.ok /\ ~ Less(FromNat(size), got.value)
        THEN [ok |-> TRUE, value |-> SubSeq(got.rest, 1, len), rest |-> SubSeq(got.rest, len + 1, size)]
        ELSE NotDecoded

(***************************************************************************)
(* Internal keys.                                                          *)
(***************************************************************************)
\* (seq << 8) | type in 64 bits.
PackSequenceAndType(seq, type) == Shl(seq, 8, 64) \cup type

AppendInternalKey(user_key, seq, type) == user_key \o EncodeFixed64(PackSequenceAndType(seq, type))

ExtractUserKey(internal_key) == SubSeq(internal_key, 1, Len(internal_key) - 8)

\* Mutant: the type is not checked.
ParseInternalKeyAnyType(s) ==
    LET num == DecodeFixed64(SubSeq(s, Len(s) - 7, Len(s)))
    IN  IF Len(s) < 8 THEN [ok |-> FALSE]
        ELSE [ok |-> TRUE, user_key |-> ExtractUserKey(s), sequence |-> Shr(num, 8), type |-> Low(num, 1)]

\* Types above kTypeValue are refused.
ParseInternalKey(s) ==
    LET num == DecodeFixed64(SubSeq(s, Len(s) - 7, Len(s)))
    IN  IF Len(s) < 8 \/ ~ Fits(Low(num, 8), 1) THEN [ok |-> FALSE]
        ELSE [ok |-> TRUE, user_key |-> ExtractUserKey(s), sequence |-> Shr(num, 8), type |-> Low(num, 8)]
=============================================================================
