--------------------------- MODULE MCAlgorithms ---------------------------
(***************************************************************************)
(* Algorithms for TLC: bytes at the boundaries of each subject.            *)
(***************************************************************************)
EXTENDS Algorithms

Zeros(n) == [i \in 1 .. n |-> {}]
Ones(n) == [i \in 1 .. n |-> 0 .. 7]
Counting(n) == [i \in 1 .. n |-> FromNat((37 * i) % 256)]

From(start, n) == [bytes |-> start, room |-> n]

\* A quotient of 1 and 16807 modulo 2^31 - 1: from there Next needs its second reduction.
RareSeed == <<FromNat(72), FromNat(114), FromNat(231)>>

MCBeginnings(s) ==
    CASE s = "coding" -> {From(<<>>, 5), From(<<{7}, {0}>> \o Zeros(2), 5), From(Ones(6), 5)}
      [] s = "crc" -> {From(<<{0}>>, 4), From(Counting(15), 5), From(Ones(17), 4), From(Counting(34), 5)}
      [] s = "bloom" -> {From(<<>>, 5)}
      [] s = "random" -> {From(<<>>, 4), From(RareSeed, 1)}
      [] s = "text" -> {From(<<>>, 5)}

MCAlphabet(s) ==
    CASE s = "coding" -> {{}, {0}, {7}, 0 .. 6, 0 .. 7}
      [] s = "crc" -> {{}, {7}, 0 .. 6}
      [] s = "bloom" -> {{}, {0, 7}, 0 .. 7}
      [] s = "random" -> {{}, {0}, {7}, FromNat(83), 0 .. 6, 0 .. 7}
      [] s = "text" -> {Digit(0), Digit(2), Digit(5), Digit(6), {7}, Newline}

MCHeader == <<{5}, {5}>>
===========================================================================
