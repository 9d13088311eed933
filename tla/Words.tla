------------------------------- MODULE Words -------------------------------
(***************************************************************************)
(* Unsigned integers of C++ (uint8_t, uint32_t, uint64_t) as the set of    *)
(* the positions of their one bits: the width is exact, and "|", "&" and   *)
(* "^" are set operations.  A string of bytes is a sequence of such sets.  *)
(***************************************************************************)
EXTENDS Integers, Sequences, FiniteSets

Byte == SUBSET (0 .. 7)
Word32 == SUBSET (0 .. 31)
Word64 == SUBSET (0 .. 63)

\* The n low bits: a conversion to a narrower type.
Low(w, n) == {i \in w : i < n}

\* w >> n and, in a type of so many bits, w << n.
Shr(w, n) == {i - n : i \in {j \in w : j >= n}}
Shl(w, n, width) == {i + n : i \in {j \in w : j + n < width}}

Xor(v, w) == (v \ w) \cup (w \ v)

\* A position gets a carry from the last position below it where both have a one and
\* between which and it there is no pair of zeros.
Plus(v, w, width) ==
    LET both == v \cap w
        one == v \cup w
        Carry(i) == \E j \in both : j < i /\ \A k \in j + 1 .. i - 1 : k \in one
    IN  {i \in 0 .. width - 1 : (i \in Xor(v, w)) # Carry(i)}

\* v - w = ~(~v + w)
Minus(v, w, width) ==
    LET Not(x) == (0 .. width - 1) \ x
    IN  Not(Plus(Not(v), w, width))

\* v * w: the sum of v shifted to the positions of w.
Times(v, w, width) ==
    LET go[i \in 0 .. width, sum \in SUBSET (0 .. width - 1)] ==
            IF i = width THEN sum
            ELSE go[i + 1, IF i \in w THEN Plus(sum, Shl(v, i, width), width) ELSE sum]
    IN  go[0, {}]

\* The highest position where they differ decides.
Less(v, w) ==
    \E i \in w \ v : \A j \in Xor(v, w) : j <= i

\* The word of a small number, and the number of a small word.
FromNat(n) == {i \in 0 .. 30 : 2^i <= n /\ (n \div 2^i) % 2 = 1}

ToNat(w) ==
    LET sum[n \in 0 .. 31] == IF n = 0 THEN 0 ELSE sum[n - 1] + (IF n - 1 \in w THEN 2^(n - 1) ELSE 0)
    IN  sum[31]
=============================================================================
