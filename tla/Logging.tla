------------------------------ MODULE Logging ------------------------------
(***************************************************************************)
(* util/logging.cc, ConsumeDecimalNumber, and the two passes over a buffer *)
(* with which PosixLogger::Logv (util/posix_logger.h) writes a line.       *)
(***************************************************************************)
EXTENDS Words

CONSTANTS
    kMaxUint64,             \* 2^64 - 1 in the code
    kStackBufferSize,       \* 512 in the code
    Header                  \* what Logv writes in front: time and thread

ASSUME LoggingAssumption ==
    /\ kMaxUint64 \in Nat \ {0}
    /\ kStackBufferSize \in Nat
    /\ Header \in Seq(Byte) /\ Len(Header) < kStackBufferSize

\* The characters '0' to '9' and '\n'.
Digit(d) == FromNat(48 + d)
Digits == {Digit(d) : d \in 0 .. 9}
Newline == FromNat(10)

\* Mutant: the last digit is not looked at, so the largest numbers wrap.
OverflowsByQuotient(value, d) == value > kMaxUint64 \div 10

\* The overflow check, before the digit d is added.
Overflows(value, d) ==
    \/ value > kMaxUint64 \div 10
    \/ value = kMaxUint64 \div 10 /\ d > kMaxUint64 % 10

\* The digits at the start of the input are consumed, unless the number overflows.
ConsumeDecimalNumber(in) ==
    LET DigitAt(n) == CHOOSE d \in 0 .. 9 : in[n] = Digit(d)
        At(loop, value, digits) == [loop |-> loop, value |-> value, digits |-> digits]
        after[n \in 0 .. Len(in)] ==        \* after the n-th character
            IF n = 0 THEN At("goes on", 0, 0)
            ELSE LET p == after[n - 1]
                 IN  IF p.loop # "goes on" THEN p
                     ELSE IF in[n] \notin Digits THEN At("break", p.value, p.digits)
                     ELSE IF Overflows(p.value, DigitAt(n)) THEN At("return false", p.value, p.digits)
                     ELSE At("goes on", (10 * p.value + DigitAt(n)) % (kMaxUint64 + 1), n)
        last == after[Len(in)]
    IN  IF last.loop = "return false" THEN [ok |-> FALSE, value |-> 0, rest |-> in]
        ELSE [ok |-> last.digits # 0, value |-> last.value, rest |-> SubSeq(in, last.digits + 1, Len(in))]

(***************************************************************************)
(* Logv.                                                                   *)
(***************************************************************************)
\* Mutant: room is asked for the line only.
SecondBufferSizeTight(line) == Len(line)

SecondBufferSize(line) == Len(line) + 2

\* snprintf into a buffer of this size: what of the line is in it, before the final 0.
Printed(line, size) == SubSeq(line, 1, size - 1)

\* What is written to the file: the buffer up to its last character, then a newline if
\* that is none.  A line that does not fit even the second time is cut off.
Logv(message) ==
    LET line == Header \o message
        short == Len(line) < kStackBufferSize - 1
        size == IF short THEN kStackBufferSize ELSE SecondBufferSize(line)
        text == IF Len(line) >= size - 1 THEN Printed(line, size) ELSE line
    IN  IF text[Len(text)] = Newline THEN text ELSE Append(text, Newline)
=============================================================================
