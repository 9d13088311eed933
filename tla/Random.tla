------------------------------- MODULE Random -------------------------------
(***************************************************************************)
(* util/random.h: seed_ = (seed_ * A) % M without a division.              *)
(***************************************************************************)
EXTENDS Words

M == 0 .. 30                        \* 2^31 - 1
A == {0, 1, 2, 5, 7, 8, 14}         \* 16807

\* The constructor: the two seeds that Next would never leave are replaced.
Seed(s) ==
    LET seed_ == s \cap M IN IF seed_ = {} \/ seed_ = M THEN {0} ELSE seed_

\* Mutant: the bit that the first reduction may carry out is forgotten.
NextSeedOneReduction(seed_) ==
    LET product == Times(seed_, A, 64) IN Low(Plus(Shr(product, 31), product \cap M, 64), 31)

\* Next: (product >> 31) + (product & M), less M if that is larger.
NextSeed(seed_) ==
    LET product == Times(seed_, A, 64)
        sum == Low(Plus(Shr(product, 31), product \cap M, 64), 32)
    IN  IF Less(M, sum) THEN Minus(sum, M, 32) ELSE sum
=============================================================================
