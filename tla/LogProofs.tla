----------------------------- MODULE LogProofs -----------------------------
(***************************************************************************)
(* Proofs about the log that one session writes, for every kBlockSize, all *)
(* sizes of records and every point at which the session ends: reading it  *)
(* from the start reports nothing (NoFalseAlarm), and returns the records  *)
(* added, whole, in order and each at its offset, up to the last one that  *)
(* is whole in the file (RoundTrip).                                       *)
(*                                                                         *)
(* The invariant tells which part of which record each physical record is. *)
(* For functions own and off from offsets: the physical record at p has    *)
(* the bytes of record own[p] after its first off[p] (PartAt); where one   *)
(* ends, the next part begins, behind the trailer of the block if there is *)
(* no room for a header (After, Expects). The Writer adds the part that is *)
(* next (WriterAt); wherever the file is cut, what is left is the          *)
(* beginning of such a file (CutWritten); and the Reader is at an end in   *)
(* it, with the bytes so far of the record wanted in scratch (ReaderAt).   *)
(***************************************************************************)
EXTENDS Log, SequenceTheorems, TLAPS

(***************************************************************************)
(* The layout of the file.                                                 *)
(***************************************************************************)
\* The cells from offset p to the end of its block.
Room(p) == kBlockSize - (p % kBlockSize)

\* Where the physical record after an end at p begins.
Follow(p) == IF Room(p) < kHeaderSize THEN p + Room(p) ELSE p

ByteCells == {Byte(r, k) : r \in Nat, k \in Nat}

Cells == {Crc(t, d) : t \in RecordTypes, d \in Seq(ByteCells)} \cup {Length(n) : n \in Nat}
         \cup {Type(t) : t \in RecordTypes} \cup ByteCells \cup {Zero}

\* The offsets of the physical records, and what is there.
Starts(f) == {p \in 0 .. Len(f) - 1 : f[p + 1].is = "crc"}

TypeAt(f, p) == f[p + 1].of[1]

DataAt(f, p) == f[p + 1].of[2]

EndAt(f, p) == p + kHeaderSize + Len(DataAt(f, p))

Continues(t) == t \in {"Middle", "Last"}

GoesOn(t) == t \in {"First", "Middle"}

\* n bytes of record r after the first a.
Part(r, a, n) == [k \in 1 .. n |-> Byte(r, a + k)]

\* The cells of the physical record at p, as far as they are in the file.
CellsAt(f, p) ==
    /\ p + 2 <= Len(f) => f[p + 2] = Length(Len(DataAt(f, p)))
    /\ p + 3 <= Len(f) => f[p + 3] = Type(TypeAt(f, p))
    /\ \A k \in 1 .. Len(DataAt(f, p)) :
          p + kHeaderSize + k <= Len(f) => f[p + kHeaderSize + k] = DataAt(f, p)[k]

\* It is the part of record r after its first a bytes.
PartAt(f, p, s, r, a) ==
    /\ TypeAt(f, p) \in RecordTypes
    /\ Len(DataAt(f, p)) \in Nat
    /\ kHeaderSize + Len(DataAt(f, p)) <= Room(p)
    /\ r \in 1 .. Len(s) /\ a \in Nat
    /\ DataAt(f, p) = Part(r, a, Len(DataAt(f, p)))
    /\ ~ Continues(TypeAt(f, p)) => a = 0 /\ s[r].start = p
    /\ ~ GoesOn(TypeAt(f, p)) => a + Len(DataAt(f, p)) = s[r].size

\* After an end at p comes the part of record r after its first a bytes, if anything, and it
\* continues a record if one is open.
Expects(f, p, open, r, a, own, off) ==
    Follow(p) < Len(f) =>
        /\ Follow(p) \in Starts(f)
        /\ Continues(TypeAt(f, Follow(p))) <=> open
        /\ own[Follow(p)] = r /\ off[Follow(p)] = a

After(f, p, own, off) ==
    IF GoesOn(TypeAt(f, p))
    THEN Expects(f, EndAt(f, p), TRUE, own[p], off[p] + Len(DataAt(f, p)), own, off)
    ELSE Expects(f, EndAt(f, p), FALSE, own[p] + 1, 0, own, off)

\* The file is the beginning of what one session writes of the records s; own and off say
\* which part of which record each physical record is.
Written(f, s, own, off) ==
    /\ Expects(f, 0, FALSE, 1, 0, own, off)
    /\ \A p \in Starts(f) : CellsAt(f, p) /\ PartAt(f, p, s, own[p], off[p]) /\ After(f, p, own, off)
    /\ \A p, q \in Starts(f) : p < q => EndAt(f, p) <= q

LEMMA RemainderOfSum ==
    ASSUME NEW m \in Nat \ {0}, NEW p \in Nat, NEW n \in Nat, n < m - (p % m)
    PROVE  (p + n) % m = (p % m) + n
<1> DEFINE q == p \div m
           x == p % m
<1>1. p = m * q + x /\ q \in Nat /\ x \in 0 .. m - 1
  OBVIOUS
<1>2. \A y \in 0 .. m - 1 : (m * q + y) % m = y
  BY <1>1
<1> HIDE DEF q, x
<1>3. p + n = m * q + (x + n) /\ x + n \in 0 .. m - 1
  BY <1>1 DEF x
<1> QED
  BY <1>2, <1>3 DEF x

LEMMA RoomFacts ==
    ASSUME NEW p \in Nat
    PROVE  /\ Room(p) \in 1 .. kBlockSize
           /\ \A n \in Nat : n < Room(p) => Room(p + n) = Room(p) - n
           /\ Room(p + Room(p)) = kBlockSize
           /\ Room(0) = kBlockSize
<1>0. kBlockSize \in Nat \ {0}
  BY LogAssumption DEF kHeaderSize
<1>1. p % kBlockSize \in 0 .. kBlockSize - 1 /\ 0 % kBlockSize = 0
  BY <1>0
<1>2. (p + (kBlockSize - (p % kBlockSize))) % kBlockSize = 0
  BY <1>0
<1>3. ASSUME NEW n \in Nat, n < kBlockSize - (p % kBlockSize)
      PROVE  (p + n) % kBlockSize = (p % kBlockSize) + n
  BY <1>0, <1>3, RemainderOfSum
<1> DEFINE x == p % kBlockSize
<1>4. Room(p) = kBlockSize - x /\ x \in 0 .. kBlockSize - 1
  BY <1>1 DEF Room
<1>5. Room(0) = kBlockSize
  BY <1>0, <1>1 DEF Room
<1>6. Room(p + Room(p)) = kBlockSize
  BY <1>0, <1>2 DEF Room
<1>7. ASSUME NEW n \in Nat, n < Room(p) PROVE Room(p + n) = Room(p) - n
  <2>1. (p + n) % kBlockSize = x + n
    BY <1>3, <1>4, <1>7
  <2>2. Room(p + n) = kBlockSize - (x + n)
    BY <2>1 DEF Room
  <2> HIDE DEF x
  <2> QED
    BY <1>0, <1>4, <2>2
<1> HIDE DEF x
<1> QED
  BY <1>0, <1>4, <1>5, <1>6, <1>7

LEMMA FollowFacts ==
    ASSUME NEW p \in Nat
    PROVE  /\ Follow(p) \in Nat /\ Follow(p) >= p /\ Follow(0) = 0
           /\ Room(p) >= kHeaderSize => Follow(p) = p
           /\ Room(p) < kHeaderSize => Follow(p) = p + Room(p)
<1>1. Room(p) \in 1 .. kBlockSize /\ Room(0) = kBlockSize
  BY RoomFacts
<1> QED
  BY <1>1, LogAssumption DEF Follow, kHeaderSize

LEMMA CellKinds ==
    /\ \A t, d : Crc(t, d).is = "crc" /\ Crc(t, d).of[1] = t /\ Crc(t, d).of[2] = d
    /\ \A n : Length(n).is = "length" /\ Length(n).of = n
    /\ \A t : Type(t).is = "type" /\ Type(t).of = t
    /\ \A r, k : Byte(r, k).is = "byte"
    /\ Zero.is = "zero"
BY DEF Crc, Length, Type, Byte, Zero

LEMMA CellSet ==
    /\ \A t \in RecordTypes, d \in Seq(ByteCells) : Crc(t, d) \in Cells
    /\ \A n \in Nat : Length(n) \in Cells
    /\ \A t \in RecordTypes : Type(t) \in Cells
    /\ ByteCells \subseteq Cells
    /\ Zero \in Cells
BY DEF Cells

\* g is f with, at the offset at, a physical record more.
Grown(f, g, at, t, d) ==
    /\ g \in Seq(Cells)
    /\ Len(g) = at + kHeaderSize + Len(d)
    /\ Starts(g) = Starts(f) \cup {at}
    /\ \A p \in 1 .. Len(f) : g[p] = f[p]
    /\ TypeAt(g, at) = t /\ DataAt(g, at) = d
    /\ CellsAt(g, at)

LEMMA Growth ==
    ASSUME NEW f \in Seq(Cells), NEW m \in Nat, NEW t \in RecordTypes, NEW d \in Seq(ByteCells)
    PROVE  Grown(f, f \o Zeros(m) \o (Header(t, d) \o d), Len(f) + m, t, d)
<1> DEFINE z == Zeros(m)
           h == Header(t, d)
           g == f \o z \o (h \o d)
           at == Len(f) + m
           n == Len(d)
<1>1. z \in Seq(Cells) /\ Len(z) = m /\ \A i \in 1 .. m : z[i] = Zero
  BY CellSet DEF Zeros
<1>2. n \in Nat /\ Len(f) \in Nat /\ \A k \in 1 .. n : d[k] \in ByteCells
  OBVIOUS
<1>3. h \in Seq(Cells) /\ Len(h) = 3 /\ h[1] = Crc(t, d) /\ h[2] = Length(n) /\ h[3] = Type(t)
  <2>1. Crc(t, d) \in Cells /\ Length(n) \in Cells /\ Type(t) \in Cells
    BY <1>2, CellSet
  <2> QED
    BY <2>1 DEF Header
<1>4. d \in Seq(Cells)
  BY <1>2, CellSet
<1> HIDE DEF z, h, n
<1>5. /\ h \o d \in Seq(Cells) /\ Len(h \o d) = 3 + Len(d)
      /\ \A i \in 1 .. 3 + Len(d) : (h \o d)[i] = IF i <= 3 THEN h[i] ELSE d[i - 3]
  <2>1. h \in Seq(Cells) /\ Len(h) = 3
    BY <1>3
  <2>2. /\ h \o d \in Seq(Cells) /\ Len(h \o d) = Len(h) + Len(d)
        /\ \A i \in 1 .. Len(h) + Len(d) : (h \o d)[i] = IF i <= Len(h) THEN h[i] ELSE d[i - Len(h)]
    BY <1>4, <2>1, ConcatProperties
  <2> QED
    BY <2>1, <2>2
<1>6. /\ f \o z \in Seq(Cells) /\ Len(f \o z) = at
      /\ \A i \in 1 .. at : (f \o z)[i] = IF i <= Len(f) THEN f[i] ELSE z[i - Len(f)]
  BY <1>1, ConcatProperties
<1> DEFINE e == h \o d
           b == f \o z
<1>7. g = b \o e
  BY DEF z, h
<1> HIDE DEF e, b, g
<1>8. /\ g \in Seq(Cells) /\ Len(g) = at + (3 + n)
      /\ \A i \in 1 .. at + (3 + n) : g[i] = IF i <= at THEN b[i] ELSE e[i - at]
  <2>1. b \in Seq(Cells) /\ e \in Seq(Cells) /\ Len(b) = at /\ Len(e) = 3 + n
    BY <1>5, <1>6 DEF b, e, n
  <2> QED
    BY <1>7, <2>1, ConcatProperties
<1>9. \A i \in 1 .. Len(f) : g[i] = f[i]
  BY <1>2, <1>6, <1>8 DEF b
<1>10. \A i \in Len(f) + 1 .. at : g[i] = Zero
  BY <1>1, <1>2, <1>6, <1>8 DEF b
<1>11. g[at + 1] = Crc(t, d) /\ g[at + 2] = Length(n) /\ g[at + 3] = Type(t)
  <2>1. e[1] = h[1] /\ e[2] = h[2] /\ e[3] = h[3]
    BY <1>2, <1>5 DEF e
  <2>2. g[at + 1] = e[1] /\ g[at + 2] = e[2] /\ g[at + 3] = e[3]
    <3>1. \A i \in 1 .. 3 : at + i \in 1 .. at + (3 + n) /\ ~ (at + i <= at) /\ (at + i) - at = i
      BY <1>2
    <3> HIDE DEF at
    <3>2. \A i \in 1 .. 3 : g[at + i] = e[i]
      BY <1>8, <3>1
    <3> QED
      BY <3>2
  <2> QED
    BY <1>3, <2>1, <2>2
<1>12. \A k \in 1 .. n : g[at + 3 + k] = d[k]
  <2> SUFFICES ASSUME NEW k \in 1 .. n PROVE g[at + 3 + k] = d[k]
    OBVIOUS
  <2>1. 3 + k \in 1 .. 3 + n /\ ~ (3 + k <= 3) /\ (3 + k) - 3 = k
    BY <1>2
  <2>2. at + 3 + k \in 1 .. at + (3 + n) /\ ~ (at + 3 + k <= at) /\ (at + 3 + k) - at = 3 + k
    BY <1>2
  <2>3. g[at + 3 + k] = e[3 + k]
    BY <1>8, <2>2
  <2>4. e[3 + k] = d[k]
    BY <1>5, <2>1 DEF e, n
  <2> QED
    BY <2>3, <2>4
<1>13. Starts(g) = Starts(f) \cup {at}
  <2>1. ASSUME NEW p \in Starts(g) PROVE p \in Starts(f) \cup {at}
    <3>1. p \in 0 .. at + 2 + n /\ g[p + 1].is = "crc"
      BY <1>2, <1>8 DEF Starts
    <3>2. CASE p < Len(f)
      BY <1>2, <1>9, <3>1, <3>2 DEF Starts
    <3>3. CASE Len(f) <= p /\ p < at
      BY <1>2, <1>10, <3>1, <3>3, CellKinds
    <3>4. CASE p = at + 1 \/ p = at + 2
      BY <1>2, <1>11, <3>1, <3>4, CellKinds
    <3>5. CASE p > at + 2
      <4>1. p - at - 2 \in 1 .. n /\ p + 1 = at + 3 + (p - at - 2)
        BY <1>2, <3>1, <3>5
      <4>2. g[p + 1] \in ByteCells
        BY <1>2, <1>12, <4>1
      <4> QED
        BY <3>1, <4>2, CellKinds DEF ByteCells
    <3> QED
      BY <1>2, <3>1, <3>2, <3>3, <3>4, <3>5
  <2>2. ASSUME NEW p \in Starts(f) PROVE p \in Starts(g)
    BY <1>2, <1>8, <1>9 DEF Starts
  <2>3. at \in Starts(g)
    BY <1>2, <1>8, <1>11, CellKinds DEF Starts
  <2> QED
    BY <2>1, <2>2, <2>3
<1>14. TypeAt(g, at) = t /\ DataAt(g, at) = d
  BY <1>11, CellKinds DEF TypeAt, DataAt
<1>15. CellsAt(g, at)
  BY <1>11, <1>12, <1>14 DEF CellsAt, kHeaderSize, n
<1>16. Grown(f, g, at, t, d)
  BY <1>2, <1>8, <1>9, <1>13, <1>14, <1>15 DEF Grown, kHeaderSize, n
<1> QED
  BY <1>16 DEF g, z, h

(***************************************************************************)
(* A physical record more, and a file cut short.                           *)
(***************************************************************************)
\* Every record that is whole in the file has its last physical record there.
Whole(f, s, own) ==
    \A r \in 1 .. Len(s) : s[r].end # -1 =>
        \E p \in Starts(f) :
            /\ own[p] = r /\ ~ GoesOn(TypeAt(f, p))
            /\ EndAt(f, p) = s[r].end /\ s[r].end <= Len(f)

\* Records begin in the order in which they were added.
Ordered(s) == \A r, q \in 1 .. Len(s) : r < q => s[q].start = -1 \/ s[r].start < s[q].start

\* s2 is s with more of the records begun.
SameRecords(s, s2) ==
    /\ Len(s2) = Len(s)
    /\ \A r \in 1 .. Len(s) : s2[r].size = s[r].size /\ (s2[r].start = s[r].start \/ s[r].start = -1)

\* The next physical record may be one of type t, of record r after its first a bytes.
MayFollow(f, p, own, off, t, r, a) ==
    IF GoesOn(TypeAt(f, p)) THEN Continues(t) /\ r = own[p] /\ a = off[p] + Len(DataAt(f, p))
    ELSE ~ Continues(t) /\ r = own[p] + 1 /\ a = 0

LEMMA PartKept ==
    ASSUME NEW f, NEW g, NEW p \in Nat, f[p + 1] = g[p + 1], NEW s, NEW s2, SameRecords(s, s2), NEW r, NEW a,
           PartAt(f, p, s, r, a)
    PROVE  PartAt(g, p, s2, r, a)
<1>1. TypeAt(g, p) = TypeAt(f, p) /\ DataAt(g, p) = DataAt(f, p)
  BY DEF TypeAt, DataAt
<1>2. r \in 1 .. Len(s) /\ Len(s2) = Len(s) /\ s2[r].size = s[r].size /\ (s2[r].start = s[r].start \/ s[r].start = -1)
  BY DEF PartAt, SameRecords
<1>3. p # -1
  OBVIOUS
<1> QED
  BY <1>1, <1>2, <1>3 DEF PartAt

\* The physical record of type t with data d, of record r after its first a bytes, may come
\* after all that is in f.
MayCome(f, own, off, t, r, a) ==
    /\ \A p \in Starts(f) : \/ EndAt(f, p) = Len(f) /\ MayFollow(f, p, own, off, t, r, a)
                            \/ Follow(EndAt(f, p)) < Len(f)
    /\ Len(f) = 0 => ~ Continues(t) /\ r = 1 /\ a = 0

\* own2 is own with a value more.
More(own, own2, at, r) == own \in [Nat -> Nat] /\ own2 = [own EXCEPT ![at] = r]

LEMMA GrowthWritten ==
    ASSUME NEW f, Len(f) \in Nat, NEW g, NEW t, NEW d, NEW r, NEW a, NEW s, NEW s2,
           NEW own, NEW off, NEW own2, NEW off2, NEW at, at = Follow(Len(f)),
           Grown(f, g, at, t, d), More(own, own2, at, r), More(off, off2, at, a),
           Written(f, s, own, off), SameRecords(s, s2), PartAt(g, at, s2, r, a), MayCome(f, own, off, t, r, a)
    PROVE  Written(g, s2, own2, off2)
<1>0. /\ \A p \in Starts(f) : \/ EndAt(f, p) = Len(f) /\ MayFollow(f, p, own, off, t, r, a)
                             \/ Follow(EndAt(f, p)) < Len(f)
      /\ Len(f) = 0 => ~ Continues(t) /\ r = 1 /\ a = 0
  BY DEF MayCome
<1>1. Len(f) \in Nat /\ at \in Nat /\ at >= Len(f)
  BY FollowFacts
<1>2. /\ \A p \in Nat : p < Len(f) => own2[p] = own[p] /\ off2[p] = off[p]
      /\ own2[at] = r /\ off2[at] = a
  BY <1>1 DEF More
<1>3. \A p \in Starts(f) : p \in Nat /\ p < Len(f) /\ p # at /\ g[p + 1] = f[p + 1]
  <2> SUFFICES ASSUME NEW p \in Starts(f) PROVE p \in Nat /\ p < Len(f) /\ p # at /\ g[p + 1] = f[p + 1]
    OBVIOUS
  <2>1. p \in 0 .. Len(f) - 1
    BY DEF Starts
  <2>2. p \in Nat /\ p < Len(f) /\ p # at /\ p + 1 \in 1 .. Len(f)
    BY <1>1, <2>1
  <2>3. \A i \in 1 .. Len(f) : g[i] = f[i]
    BY DEF Grown
  <2> QED
    BY <2>2, <2>3
<1>4. \A p \in Starts(f) : TypeAt(g, p) = TypeAt(f, p) /\ DataAt(g, p) = DataAt(f, p) /\ EndAt(g, p) = EndAt(f, p)
  BY <1>3 DEF TypeAt, DataAt, EndAt
<1>5. /\ \A p \in Starts(f) : /\ EndAt(f, p) \in Nat /\ EndAt(f, p) > p
                              /\ Len(DataAt(f, p)) \in Nat /\ own[p] \in Nat /\ off[p] \in Nat
      /\ Len(d) \in Nat /\ Len(g) = at + kHeaderSize + Len(d) /\ TypeAt(g, at) = t /\ DataAt(g, at) = d
      /\ EndAt(g, at) = Len(g) /\ Starts(g) = Starts(f) \cup {at} /\ CellsAt(g, at)
      /\ \A p \in 1 .. Len(f) : g[p] = f[p]
      /\ Len(g) > Len(f) /\ Len(g) \in Nat /\ Len(g) > at
  <2>1. \A p \in Starts(f) : Len(DataAt(f, p)) \in Nat
    BY DEF Written, PartAt
  <2>2. Len(d) \in Nat
    BY DEF Grown, PartAt
  <2>3. \A p \in Starts(f) : EndAt(f, p) \in Nat /\ EndAt(f, p) > p
    BY <1>3, <2>1 DEF EndAt, kHeaderSize
  <2>4. \A p \in Starts(f) : own[p] \in Nat /\ off[p] \in Nat
    BY <1>3 DEF More
  <2>5. /\ Len(g) = at + kHeaderSize + Len(d) /\ TypeAt(g, at) = t /\ DataAt(g, at) = d
        /\ Starts(g) = Starts(f) \cup {at} /\ CellsAt(g, at) /\ \A p \in 1 .. Len(f) : g[p] = f[p]
    BY DEF Grown
  <2>6. EndAt(g, at) = Len(g)
    BY <2>5 DEF EndAt
  <2>7. Len(g) > Len(f) /\ Len(g) \in Nat /\ Len(g) > at
    BY <1>1, <2>2, <2>5 DEF kHeaderSize
  <2> QED
    BY <2>1, <2>2, <2>3, <2>4, <2>5, <2>6, <2>7
<1>6. ASSUME NEW p, NEW open, NEW q, NEW b, p \in Nat, Follow(p) < Len(f), Expects(f, p, open, q, b, own, off)
      PROVE  Expects(g, p, open, q, b, own2, off2)
  <2>1. Follow(p) \in Starts(f) /\ (Continues(TypeAt(f, Follow(p))) <=> open) /\ own[Follow(p)] = q /\ off[Follow(p)] = b
    BY <1>6 DEF Expects
  <2>2. TypeAt(g, Follow(p)) = TypeAt(f, Follow(p)) /\ own2[Follow(p)] = q /\ off2[Follow(p)] = b /\ Follow(p) \in Starts(g)
    BY <1>2, <1>3, <1>4, <1>5, <2>1
  <2> QED
    BY <2>1, <2>2 DEF Expects
<1>7. Expects(g, 0, FALSE, 1, 0, own2, off2)
  <2>0. Follow(0) = 0
    BY FollowFacts
  <2>1. CASE Len(f) = 0
    <3>1. at = 0 /\ ~ Continues(TypeAt(g, 0)) /\ own2[0] = 1 /\ off2[0] = 0 /\ 0 \in Starts(g)
      BY <1>0, <1>2, <1>5, <2>0, <2>1
    <3> QED
      BY <2>0, <3>1 DEF Expects
  <2>2. CASE Len(f) # 0
    <3>1. Follow(0) < Len(f)
      BY <1>1, <2>0, <2>2
    <3>2. Expects(f, 0, FALSE, 1, 0, own, off)
      BY DEF Written
    <3> QED
      BY <1>6, <3>1, <3>2
  <2> QED
    BY <2>1, <2>2
<1>8. ASSUME NEW p \in Starts(f) PROVE CellsAt(g, p) /\ PartAt(g, p, s2, own2[p], off2[p]) /\ After(g, p, own2, off2)
  <2>0. CellsAt(f, p) /\ PartAt(f, p, s, own[p], off[p]) /\ After(f, p, own, off)
    BY DEF Written
  <2>1. p \in Nat /\ p < Len(f) /\ own2[p] = own[p] /\ off2[p] = off[p] /\ g[p + 1] = f[p + 1]
    BY <1>2, <1>3
  <2>2. PartAt(g, p, s2, own2[p], off2[p])
    BY <2>0, <2>1, PartKept
  <2>3. EndAt(f, p) <= Len(f)
    <3>1. CASE EndAt(f, p) = Len(f)
      BY <1>1, <3>1
    <3>2. CASE Follow(EndAt(f, p)) < Len(f)
      <4>1. EndAt(f, p) \in Nat
        BY <1>5
      <4>2. Follow(EndAt(f, p)) \in Nat /\ Follow(EndAt(f, p)) >= EndAt(f, p)
        BY <4>1, FollowFacts
      <4> QED
        BY <1>1, <3>2, <4>1, <4>2
    <3> QED
      BY <1>0, <3>1, <3>2
  <2>4. CellsAt(g, p)
    <3> DEFINE n == Len(DataAt(f, p))
    <3>1. n \in Nat /\ p + kHeaderSize + n <= Len(f) /\ DataAt(g, p) = DataAt(f, p) /\ TypeAt(g, p) = TypeAt(f, p)
      BY <1>4, <1>5, <2>3 DEF EndAt
    <3>2. \A i \in 1 .. Len(f) : g[i] = f[i]
      BY <1>5
    <3>3. /\ p + 2 \in 1 .. Len(f) /\ p + 3 \in 1 .. Len(f) /\ p + 2 <= Len(f) /\ p + 3 <= Len(f)
          /\ \A k \in 1 .. n : p + kHeaderSize + k \in 1 .. Len(f) /\ p + kHeaderSize + k <= Len(f)
      BY <1>1, <2>1, <3>1 DEF kHeaderSize
    <3> HIDE DEF n
    <3>4. g[p + 2] = f[p + 2] /\ g[p + 3] = f[p + 3] /\ \A k \in 1 .. n : g[p + kHeaderSize + k] = f[p + kHeaderSize + k]
      BY <3>2, <3>3
    <3>5. /\ f[p + 2] = Length(n) /\ f[p + 3] = Type(TypeAt(f, p))
          /\ \A k \in 1 .. n : f[p + kHeaderSize + k] = DataAt(f, p)[k]
      BY <2>0, <3>3 DEF CellsAt, n
    <3> QED
      BY <3>1, <3>4, <3>5 DEF CellsAt, n
  <2>5. After(g, p, own2, off2)
    <3>0. EndAt(f, p) \in Nat /\ TypeAt(g, p) = TypeAt(f, p) /\ DataAt(g, p) = DataAt(f, p) /\ EndAt(g, p) = EndAt(f, p)
      BY <1>4, <1>5
    <3>1. CASE Follow(EndAt(f, p)) < Len(f)
      BY <1>6, <2>0, <2>1, <3>0, <3>1 DEF After
    <3>2. CASE EndAt(f, p) = Len(f) /\ MayFollow(f, p, own, off, t, r, a)
      <4>1. Follow(EndAt(g, p)) = at /\ at \in Starts(g)
        BY <1>5, <3>0, <3>2
      <4>2. CASE GoesOn(TypeAt(f, p))
        <5>1. Continues(t) /\ r = own[p] /\ a = off[p] + Len(DataAt(f, p))
          BY <3>2, <4>2 DEF MayFollow
        <5>2. Expects(g, EndAt(g, p), TRUE, own2[p], off2[p] + Len(DataAt(g, p)), own2, off2)
          BY <1>2, <1>5, <2>1, <3>0, <4>1, <5>1 DEF Expects
        <5> QED
          BY <3>0, <4>2, <5>2 DEF After
      <4>3. CASE ~ GoesOn(TypeAt(f, p))
        <5>1. ~ Continues(t) /\ r = own[p] + 1 /\ a = 0
          BY <3>2, <4>3 DEF MayFollow
        <5>2. Expects(g, EndAt(g, p), FALSE, own2[p] + 1, 0, own2, off2)
          BY <1>2, <1>5, <2>1, <3>0, <4>1, <5>1 DEF Expects
        <5> QED
          BY <3>0, <4>3, <5>2 DEF After
      <4> QED
        BY <4>2, <4>3
    <3> QED
      BY <1>0, <3>1, <3>2
  <2> QED
    BY <2>2, <2>4, <2>5
<1>9. CellsAt(g, at) /\ PartAt(g, at, s2, own2[at], off2[at]) /\ After(g, at, own2, off2)
  <2>1. ~ (Follow(EndAt(g, at)) < Len(g))
    <3>1. Follow(Len(g)) >= Len(g) /\ Follow(Len(g)) \in Nat
      BY <1>5, FollowFacts
    <3> QED
      BY <1>5, <3>1
  <2> QED
    BY <1>2, <1>5, <2>1 DEF After, Expects
<1>10. ASSUME NEW p \in Starts(g), NEW q \in Starts(g), p < q PROVE EndAt(g, p) <= q
  <2>1. CASE p \in Starts(f) /\ q \in Starts(f)
    BY <1>4, <1>10, <2>1 DEF Written
  <2>2. CASE p \in Starts(f) /\ q = at
    <3>0. EndAt(f, p) \in Nat /\ EndAt(g, p) = EndAt(f, p)
      BY <1>4, <1>5, <2>2
    <3>1. CASE EndAt(f, p) = Len(f)
      BY <1>1, <2>2, <3>0, <3>1
    <3>2. CASE Follow(EndAt(f, p)) < Len(f)
      <4>1. Follow(EndAt(f, p)) \in Nat /\ Follow(EndAt(f, p)) >= EndAt(f, p)
        BY <3>0, FollowFacts
      <4> QED
        BY <1>1, <2>2, <3>0, <3>2, <4>1
    <3> QED
      BY <1>0, <2>2, <3>1, <3>2
  <2>3. CASE p = at
    <3>1. q # at /\ q \in Starts(f)
      BY <1>1, <1>5, <1>10, <2>3
    <3> QED
      BY <1>1, <1>3, <1>10, <2>3, <3>1
  <2> QED
    BY <1>5, <2>1, <2>2, <2>3
<1> QED
  BY <1>5, <1>7, <1>8, <1>9, <1>10 DEF Written

\* g is the first n cells of f.
IsCut(f, g, n) ==
    /\ g \in Seq(Cells) /\ Len(g) = n
    /\ Starts(g) = {p \in Starts(f) : p < n}
    /\ \A p \in Starts(g) : TypeAt(g, p) = TypeAt(f, p) /\ EndAt(g, p) = EndAt(f, p)

LEMMA CutWritten ==
    ASSUME NEW f \in Seq(Cells), NEW n \in 0 .. Len(f), NEW g, g = SubSeq(f, 1, n), NEW s, NEW s2, SameRecords(s, s2),
           NEW own \in [Nat -> Nat], NEW off \in [Nat -> Nat], Written(f, s, own, off)
    PROVE  Written(g, s2, own, off) /\ IsCut(f, g, n)
<1>1. g \in Seq(Cells) /\ Len(g) = n /\ \A i \in 1 .. n : g[i] = f[i]
  <2>1. \A i \in 1 .. n : f[i] \in Cells
    OBVIOUS
  <2>2. SubSeq(f, 1, n) \in Seq(Cells) /\ Len(SubSeq(f, 1, n)) = (IF 1 <= n THEN n - 1 + 1 ELSE 0)
        /\ \A i \in 1 .. n - 1 + 1 : SubSeq(f, 1, n)[i] = f[1 + i - 1]
    BY <2>1, SubSeqProperties
  <2>3. n - 1 + 1 = n /\ \A i \in 1 .. n : 1 + i - 1 = i
    OBVIOUS
  <2>4. Len(SubSeq(f, 1, n)) = n
    BY <2>2
  <2> QED
    BY <2>2, <2>3, <2>4
<1>2. Starts(g) = {p \in Starts(f) : p < n}
  <2>1. ASSUME NEW p \in Starts(g) PROVE p \in Starts(f) /\ p < n
    <3>1. p \in 0 .. n - 1 /\ g[p + 1].is = "crc"
      BY <1>1 DEF Starts
    <3>2. p + 1 \in 1 .. n /\ p \in 0 .. Len(f) - 1
      BY <3>1
    <3> QED
      BY <1>1, <3>1, <3>2 DEF Starts
  <2>2. ASSUME NEW p \in Starts(f), p < n PROVE p \in Starts(g)
    <3>1. p \in 0 .. n - 1 /\ p + 1 \in 1 .. n /\ f[p + 1].is = "crc"
      BY <2>2 DEF Starts
    <3> QED
      BY <1>1, <3>1 DEF Starts
  <2> QED
    BY <2>1, <2>2
<1>3. \A p \in Starts(g) : /\ p \in Nat /\ p < n /\ p \in Starts(f) /\ g[p + 1] = f[p + 1]
  <2> SUFFICES ASSUME NEW p \in Starts(g) PROVE p \in Nat /\ p < n /\ p \in Starts(f) /\ g[p + 1] = f[p + 1]
    OBVIOUS
  <2>1. p \in 0 .. n - 1
    BY <1>1 DEF Starts
  <2>2. p \in Nat /\ p < n /\ p + 1 \in 1 .. n
    BY <2>1
  <2> QED
    BY <1>1, <1>2, <2>2
<1>4. \A p \in Starts(g) : TypeAt(g, p) = TypeAt(f, p) /\ DataAt(g, p) = DataAt(f, p) /\ EndAt(g, p) = EndAt(f, p)
  BY <1>3 DEF TypeAt, DataAt, EndAt
<1>5. ASSUME NEW p \in Nat, NEW open, NEW q, NEW b, Expects(f, p, open, q, b, own, off)
      PROVE  Expects(g, p, open, q, b, own, off)
  <2> SUFFICES ASSUME Follow(p) < n
               PROVE  /\ Follow(p) \in Starts(g) /\ (Continues(TypeAt(g, Follow(p))) <=> open)
                      /\ own[Follow(p)] = q /\ off[Follow(p)] = b
    BY <1>1 DEF Expects
  <2>1. Follow(p) < Len(f)
    BY FollowFacts
  <2>2. /\ Follow(p) \in Starts(f) /\ (Continues(TypeAt(f, Follow(p))) <=> open)
        /\ own[Follow(p)] = q /\ off[Follow(p)] = b
    BY <1>5, <2>1 DEF Expects
  <2>3. Follow(p) \in Starts(g)
    BY <1>2, <2>2
  <2> QED
    BY <1>4, <2>2, <2>3
<1>6. Expects(g, 0, FALSE, 1, 0, own, off)
  BY <1>5 DEF Written
<1>7. ASSUME NEW p \in Starts(g) PROVE CellsAt(g, p) /\ PartAt(g, p, s2, own[p], off[p]) /\ After(g, p, own, off)
  <2>0. CellsAt(f, p) /\ PartAt(f, p, s, own[p], off[p]) /\ After(f, p, own, off) /\ p \in Nat /\ g[p + 1] = f[p + 1]
        /\ p < n
    BY <1>3 DEF Written
  <2>1. PartAt(g, p, s2, own[p], off[p])
    BY <2>0, PartKept
  <2>2. TypeAt(g, p) = TypeAt(f, p) /\ DataAt(g, p) = DataAt(f, p) /\ EndAt(g, p) = EndAt(f, p)
    BY <1>4
  <2>3. Len(DataAt(f, p)) \in Nat /\ EndAt(f, p) \in Nat
    BY <2>0 DEF PartAt, EndAt, kHeaderSize
  <2>4. CellsAt(g, p)
    <3>1. \A i \in Nat : i > 0 /\ i <= Len(g) => i <= Len(f) /\ g[i] = f[i]
      <4> SUFFICES ASSUME NEW i \in Nat, i > 0, i <= Len(g) PROVE i <= Len(f) /\ g[i] = f[i]
        OBVIOUS
      <4>1. i \in 1 .. n /\ i <= Len(f)
        BY <1>1
      <4> QED
        BY <1>1, <4>1
    <3>2. p + 2 \in Nat /\ p + 2 > 0 /\ p + 3 \in Nat /\ p + 3 > 0
          /\ \A k \in 1 .. Len(DataAt(f, p)) : p + kHeaderSize + k \in Nat /\ p + kHeaderSize + k > 0
      BY <2>0, <2>3 DEF kHeaderSize
    <3> QED
      BY <2>0, <2>2, <3>1, <3>2 DEF CellsAt
  <2>5. After(g, p, own, off)
    BY <1>5, <2>0, <2>2, <2>3 DEF After
  <2> QED
    BY <2>1, <2>4, <2>5
<1>8. ASSUME NEW p \in Starts(g), NEW q \in Starts(g), p < q PROVE EndAt(g, p) <= q
  BY <1>3, <1>4, <1>8 DEF Written
<1> QED
  BY <1>1, <1>2, <1>4, <1>6, <1>7, <1>8 DEF Written, IsCut

(***************************************************************************)
(* The Writer: what an iteration of AddRecord emits.                       *)
(***************************************************************************)
Records == [size : Nat, start : Int, end : Int, ok : BOOLEAN]

\* The Writer is inside a record of which a part is in the file.
Open == phase = "adding" /\ added[Current].start # -1

\* The record whose next part the Writer will emit.
Coming == IF phase = "adding" THEN Current ELSE Current + 1

\* The physical record at p is the last one.
LastAt(p, own, off) ==
    /\ EndAt(file, p) = Len(file)
    /\ IF GoesOn(TypeAt(file, p)) THEN Open /\ own[p] = Current /\ off[p] + Len(DataAt(file, p)) = done
       ELSE ~ Open /\ own[p] + 1 = Coming

\* The record that is being added.
Adding == Current > 0 /\ done \in 0 .. added[Current].size /\ added[Current].end = -1 /\ (~ Open => done = 0)

WriterAt(own, off) ==
    /\ block_offset_ \in 0 .. kBlockSize
    /\ Room(Len(file)) = IF block_offset_ = kBlockSize THEN kBlockSize ELSE kBlockSize - block_offset_
    /\ Len(file) = 0 => ~ Open /\ Coming = 1
    /\ \A p \in Starts(file) : LastAt(p, own, off) \/ Follow(EndAt(file, p)) < Len(file)
    /\ \A r \in 1 .. Len(added) : added[r].start < Len(file)
    /\ phase = "adding" => Adding

FileInv(own, off) ==
    /\ own \in [Nat -> Nat] /\ off \in [Nat -> Nat]
    /\ file \in Seq(Cells) /\ added \in Seq(Records)
    /\ Written(file, added, own, off) /\ Whole(file, added, own) /\ Ordered(added)

\* What an iteration of AddRecord does: a physical record of type t with the next n bytes at
\* the offset at; e is the record then.
Emitted(at, m, n, t, e) ==
    /\ m \in Nat /\ at = Len(file) + m /\ at = Follow(Len(file))
    /\ n \in Nat /\ kHeaderSize + n <= Room(at) /\ done + n <= added[Current].size
    /\ t \in RecordTypes /\ (Continues(t) <=> Open) /\ (GoesOn(t) <=> done + n # added[Current].size)
    /\ file' = file \o Zeros(m) \o (Header(t, Part(Current, done, n)) \o Part(Current, done, n))
    /\ added' = [added EXCEPT ![Current] = e]
    /\ e \in Records /\ e.size = added[Current].size
    /\ e.start = (IF added[Current].start = -1 THEN at ELSE added[Current].start)
    /\ e.end = (IF GoesOn(t) THEN added[Current].end ELSE at + kHeaderSize + n)
    /\ done' = done + n
    /\ phase' = (IF GoesOn(t) THEN "adding" ELSE "idle")
    /\ block_offset_' \in 0 .. kBlockSize
    /\ Room(at + kHeaderSize + n) = IF block_offset_' = kBlockSize THEN kBlockSize ELSE kBlockSize - block_offset_'

\* The next physical record, with at most l bytes, is to begin after m cells of trailer, at
\* offset in its block, and gets n bytes.
Placed(x, b, l, offset, m, n) ==
    /\ Room(x) = IF b = kBlockSize THEN kBlockSize ELSE kBlockSize - b
    /\ offset = IF kBlockSize - b < kHeaderSize THEN 0 ELSE b
    /\ m = IF kBlockSize - b < kHeaderSize THEN kBlockSize - b ELSE 0
    /\ n = Smaller(l, kBlockSize - offset - kHeaderSize)

LEMMA BlockPlace ==
    ASSUME NEW x \in Nat, NEW b \in 0 .. kBlockSize, NEW l \in Nat, NEW offset, NEW m, NEW n,
           Placed(x, b, l, offset, m, n)
    PROVE  /\ m \in Nat /\ x + m = Follow(x)
           /\ n \in Nat /\ n <= l /\ kHeaderSize + n <= Room(x + m)
           /\ offset + kHeaderSize + n \in 0 .. kBlockSize
           /\ Room(x + m + kHeaderSize + n) = IF offset + kHeaderSize + n = kBlockSize THEN kBlockSize
                                              ELSE kBlockSize - (offset + kHeaderSize + n)
<1>0. kBlockSize \in Nat /\ kBlockSize > 3
  BY LogAssumption DEF kHeaderSize
<1> USE DEF Placed
<1>1. m \in Nat /\ offset \in Nat /\ kBlockSize - offset >= 3
  BY <1>0 DEF kHeaderSize
<1>2. x + m = Follow(x) /\ Room(x + m) = kBlockSize - offset
  <2>1. CASE ~ (kBlockSize - b < kHeaderSize)
    <3>1. m = 0 /\ b # kBlockSize /\ Room(x) = kBlockSize - b /\ offset = b /\ ~ (kBlockSize - b < 3)
      BY <1>0, <2>1 DEF kHeaderSize
    <3> QED
      BY <1>0, <3>1 DEF Follow, kHeaderSize
  <2>2. CASE kBlockSize - b < kHeaderSize /\ b = kBlockSize
    <3>1. m = 0 /\ Room(x) = kBlockSize /\ offset = 0
      BY <1>0, <2>2
    <3> QED
      BY <1>0, <3>1 DEF Follow, kHeaderSize
  <2>3. CASE kBlockSize - b < kHeaderSize /\ b # kBlockSize
    <3>1. m = Room(x) /\ offset = 0 /\ Room(x) < 3
      BY <1>0, <2>3 DEF kHeaderSize
    <3>2. Room(x + Room(x)) = kBlockSize
      BY RoomFacts
    <3> QED
      BY <1>0, <3>1, <3>2 DEF Follow, kHeaderSize
  <2> QED
    BY <2>1, <2>2, <2>3
<1>3. n \in Nat /\ n <= l /\ n <= kBlockSize - offset - 3
  BY <1>0, <1>1 DEF Smaller, kHeaderSize
<1>4. kHeaderSize + n <= Room(x + m) /\ offset + kHeaderSize + n \in 0 .. kBlockSize
  BY <1>0, <1>1, <1>2, <1>3 DEF kHeaderSize
<1>5. Room(x + m + kHeaderSize + n) = IF offset + kHeaderSize + n = kBlockSize THEN kBlockSize
                                      ELSE kBlockSize - (offset + kHeaderSize + n)
  <2> DEFINE y == x + m
             k == kHeaderSize + n
  <2>1. y \in Nat /\ k \in Nat /\ k <= Room(y) /\ Room(y) = kBlockSize - offset /\ x + m + kHeaderSize + n = y + k
        /\ offset + kHeaderSize + n = offset + k
    BY <1>1, <1>2, <1>3, <1>4 DEF kHeaderSize
  <2> HIDE DEF y, k
  <2>2. (k < Room(y) => Room(y + k) = Room(y) - k) /\ Room(y + Room(y)) = kBlockSize
    BY <2>1, RoomFacts
  <2> QED
    BY <1>0, <1>1, <2>1, <2>2
<1> QED
  BY <1>1, <1>2, <1>3, <1>4, <1>5

LEMMA EmitGives ==
    ASSUME file \in Seq(Cells), added \in Seq(Records), NEW own, NEW off, WriterAt(own, off), EmitPhysicalRecord
    PROVE  \E at, m, n, t, e : Emitted(at, m, n, t, e)
<1> DEFINE x == Len(file)
           b == block_offset_
           a == added[Current]
           l == a.size - done
           offset == IF kBlockSize - b < kHeaderSize THEN 0 ELSE b
           m == IF kBlockSize - b < kHeaderSize THEN kBlockSize - b ELSE 0
           n == Smaller(l, kBlockSize - offset - kHeaderSize)
           t == IF a.start = -1 THEN (IF l = n THEN "Full" ELSE "First") ELSE (IF l = n THEN "Last" ELSE "Middle")
           d == Part(Current, done, n)
           at == x + m
<1>1. /\ phase = "adding" /\ x \in Nat /\ b \in 0 .. kBlockSize /\ Current \in 1 .. Len(added) /\ a \in Records
      /\ done \in Nat /\ l \in Nat
  <2>1. phase = "adding" /\ b \in 0 .. kBlockSize
    BY DEF EmitPhysicalRecord, WriterAt
  <2>2. Current > 0 /\ done \in 0 .. a.size
    BY <2>1 DEF WriterAt, Adding
  <2>3. Current \in 1 .. Len(added) /\ a \in Records
    BY <2>2 DEF Current
  <2>4. a.size \in Nat
    BY <2>3 DEF Records
  <2> QED
    BY <2>1, <2>2, <2>3, <2>4
<1>2. Room(x) = IF b = kBlockSize THEN kBlockSize ELSE kBlockSize - b
  BY DEF WriterAt
<1>3. /\ m \in Nat /\ x + m = Follow(x)
      /\ n \in Nat /\ n <= l /\ kHeaderSize + n <= Room(x + m)
      /\ offset + kHeaderSize + n \in 0 .. kBlockSize
      /\ Room(x + m + kHeaderSize + n) = IF offset + kHeaderSize + n = kBlockSize THEN kBlockSize
                                         ELSE kBlockSize - (offset + kHeaderSize + n)
  <2>1. Placed(x, b, l, offset, m, n)
    BY <1>2 DEF Placed
  <2>2. x \in Nat /\ b \in 0 .. kBlockSize /\ l \in Nat
    BY <1>1
  <2> HIDE DEF x, b, l, n, m, offset
  <2> QED
    BY <2>1, <2>2, BlockPlace
<1>4. Zeros(0) = <<>>
  BY DEF Zeros
<1>5. /\ Iteration.trailer = Zeros(m) /\ Iteration.record = Header(t, d) \o d
      /\ Iteration.length = n /\ Iteration.end = (l = n) /\ Iteration.next = offset + kHeaderSize + n
  BY <1>4 DEF Iteration, Part
<1>6. t \in RecordTypes /\ (Continues(t) <=> Open) /\ (GoesOn(t) <=> ~ (l = n))
  BY <1>1 DEF RecordTypes, Continues, GoesOn, Open
<1>7. l = n <=> done + n = a.size
  <2>1. a.size \in Nat
    BY <1>1 DEF Records
  <2>2. n \in Nat /\ done \in Nat
    BY <1>1, <1>3
  <2> HIDE DEF n, a
  <2> QED
    BY <2>1, <2>2
<1> DEFINE w == Header(t, d) \o d
           e == [a EXCEPT !.start = IF a.start = -1 THEN at ELSE a.start,
                          !.end = IF l = n THEN at + Len(w) ELSE a.end,
                          !.ok = (l = n)]
<1>8. /\ file' = file \o Zeros(m) \o w /\ block_offset_' = offset + kHeaderSize + n /\ done' = done + n
      /\ phase' = IF l = n THEN "idle" ELSE "adding"
      /\ added' = [added EXCEPT ![Current] = e]
  <2> HIDE DEF n, m, t, w, offset
  <2>1. Emit(Iteration.trailer, Iteration.record, TRUE)
    BY DEF EmitPhysicalRecord
  <2>2. Iteration.record = w /\ Len(Zeros(m)) = m
    BY <1>3, <1>5 DEF w, Zeros
  <2>3. /\ file' = file \o Zeros(m) \o w /\ block_offset_' = offset + kHeaderSize + n /\ done' = done + n
        /\ phase' = IF l = n THEN "idle" ELSE "adding"
    BY <1>5, <2>1, <2>2 DEF Emit
  <2>4. added' = [added EXCEPT ![Current].start = IF @ = -1 THEN Len(file) + Len(Iteration.trailer) ELSE @,
                               ![Current].end = IF Iteration.end /\ Iteration.record = Iteration.record
                                   THEN Len(file) + Len(Iteration.trailer) + Len(Iteration.record) ELSE @,
                               ![Current].ok = TRUE /\ Iteration.end]
    BY <2>1 DEF Emit
  <2>5. Iteration.end = (l = n) /\ Len(Iteration.trailer) = m
    BY <1>5, <2>2
  <2> DEFINE T == Iteration.trailer
             R == Iteration.record
             E == Iteration.end
  <2>6. added' = [added EXCEPT ![Current] = e]
    <3>1. E = (l = n) /\ Len(T) = m /\ R = w
      BY <2>2, <2>5
    <3> DEFINE X == E /\ R = R
               Y == TRUE /\ E
    <3>2. X = (l = n) /\ Y = (l = n)
      BY <3>1
    <3>3. added' = [added EXCEPT ![Current].start = IF @ = -1 THEN Len(file) + Len(T) ELSE @,
                                 ![Current].end = IF X THEN Len(file) + Len(T) + Len(R) ELSE @,
                                 ![Current].ok = Y]
      BY <2>4
    <3>4. Current \in 1 .. Len(added) /\ Len(file) \in Nat
      BY <1>1
    <3> HIDE DEF X, Y, T, R, E
    <3>5. added' = [added EXCEPT ![Current].start = IF @ = -1 THEN at ELSE @,
                                 ![Current].end = IF l = n THEN at + Len(w) ELSE @,
                                 ![Current].ok = (l = n)]
      BY <3>1, <3>2, <3>3
    <3> QED
      BY <3>4, <3>5
  <2> QED
    BY <2>3, <2>6
<1>9. Len(w) = 3 + n
  <2>1. d \in Seq(ByteCells) /\ Len(d) = n
    <3> HIDE DEF n
    <3>1. \A k \in 1 .. n : Byte(Current, done + k) \in ByteCells
      <4> SUFFICES ASSUME NEW k \in 1 .. n PROVE Byte(Current, done + k) \in ByteCells
        OBVIOUS
      <4>1. Current \in Nat /\ done + k \in Nat
        BY <1>1, <1>3
      <4> QED
        BY <4>1 DEF ByteCells
    <3> QED
      BY <1>3, <3>1 DEF Part
  <2> HIDE DEF d, n, t
  <2>2. Len(Header(t, d)) = 3 /\ Header(t, d) \in Seq({Crc(t, d), Length(Len(d)), Type(t)})
    BY DEF Header
  <2> DEFINE S == {Crc(t, d), Length(Len(d)), Type(t)} \cup ByteCells
  <2>3. Header(t, d) \in Seq(S) /\ d \in Seq(S)
    BY <2>1, <2>2
  <2> HIDE DEF S
  <2>4. Len(Header(t, d) \o d) = Len(Header(t, d)) + Len(d)
    BY <2>3, ConcatProperties
  <2> QED
    BY <2>1, <2>2, <2>4 DEF w
<1>10. e \in Records /\ e.size = a.size /\ e.start = (IF a.start = -1 THEN at ELSE a.start)
       /\ e.end = (IF l = n THEN at + kHeaderSize + n ELSE a.end)
  <2>1. at + Len(w) = at + kHeaderSize + n /\ at \in Int /\ at + Len(w) \in Int
    <3>1. x \in Nat /\ m \in Nat /\ n \in Nat
      BY <1>1, <1>3
    <3> HIDE DEF n, m, w, x
    <3> QED
      BY <1>9, <3>1 DEF kHeaderSize
  <2> HIDE DEF n, m, w, at, l, a
  <2> QED
    BY <1>1, <2>1 DEF Records
<1> HIDE DEF e, n, m, w, t, offset, l
<1>11. Emitted(at, m, n, t, e)
  <2>1. done + n <= a.size
    <3>1. a.size \in Nat
      BY <1>1 DEF Records
    <3> QED
      BY <1>1, <1>3, <3>1 DEF l
  <2>2. m \in Nat /\ at = Len(file) + m /\ at = Follow(Len(file)) /\ n \in Nat /\ kHeaderSize + n <= Room(at)
    BY <1>3
  <2>3. file' = file \o Zeros(m) \o (Header(t, Part(Current, done, n)) \o Part(Current, done, n))
    BY <1>8 DEF w
  <2>4. /\ block_offset_' \in 0 .. kBlockSize
        /\ Room(at + kHeaderSize + n) = IF block_offset_' = kBlockSize THEN kBlockSize ELSE kBlockSize - block_offset_'
    BY <1>3, <1>8
  <2>5. done' = done + n /\ phase' = (IF GoesOn(t) THEN "adding" ELSE "idle")
    BY <1>6, <1>8
  <2>6. e \in Records /\ e.size = a.size /\ e.start = (IF a.start = -1 THEN at ELSE a.start)
        /\ e.end = (IF GoesOn(t) THEN a.end ELSE at + kHeaderSize + n)
    BY <1>6, <1>10
  <2>7. t \in RecordTypes /\ (Continues(t) <=> Open) /\ (GoesOn(t) <=> done + n # a.size)
    BY <1>6, <1>7
  <2>8. added' = [added EXCEPT ![Current] = e]
    BY <1>8
  <2> HIDE DEF at
  <2> QED
    BY <2>1, <2>2, <2>3, <2>4, <2>5, <2>6, <2>7, <2>8 DEF Emitted
<1> QED
  BY <1>11

(***************************************************************************)
(* The Writer's actions.                                                   *)
(***************************************************************************)
LEMMA EmitKeeps ==
    ASSUME NEW own, NEW off, FileInv(own, off), WriterAt(own, off), EmitPhysicalRecord
    PROVE  \E own2, off2 : FileInv(own2, off2)' /\ WriterAt(own2, off2)'
<1>1. /\ own \in [Nat -> Nat] /\ off \in [Nat -> Nat] /\ file \in Seq(Cells) /\ added \in Seq(Records)
      /\ Written(file, added, own, off) /\ Whole(file, added, own) /\ Ordered(added)
  BY DEF FileInv
<1>2. PICK at, m, n, t, e : Emitted(at, m, n, t, e)
  BY <1>1, EmitGives
<1> DEFINE d == Part(Current, done, n)
<1>0. PICK own2, off2 : own2 = [own EXCEPT ![at] = Current] /\ off2 = [off EXCEPT ![at] = done]
  OBVIOUS
<1>3. phase = "adding" /\ Adding /\ Coming = Current
  BY DEF EmitPhysicalRecord, WriterAt, Coming
<1>4. /\ m \in Nat /\ at = Len(file) + m /\ at = Follow(Len(file)) /\ n \in Nat /\ kHeaderSize + n <= Room(at)
      /\ t \in RecordTypes /\ (Continues(t) <=> Open) /\ (GoesOn(t) <=> done + n # added[Current].size)
      /\ added' = [added EXCEPT ![Current] = e] /\ e \in Records /\ e.size = added[Current].size
      /\ e.start = (IF added[Current].start = -1 THEN at ELSE added[Current].start)
      /\ e.end = (IF GoesOn(t) THEN added[Current].end ELSE at + kHeaderSize + n)
      /\ done' = done + n /\ phase' = (IF GoesOn(t) THEN "adding" ELSE "idle")
      /\ done + n <= added[Current].size
  BY <1>2 DEF Emitted
<1>5. Current \in 1 .. Len(added) /\ Current = Len(added) /\ done \in Nat /\ Len(file) \in Nat /\ Current \in Nat
      /\ added[Current].size \in Nat /\ added[Current].start \in Int /\ added[Current].end = -1
      /\ (~ Open => done = 0) /\ (Open <=> added[Current].start # -1) /\ added[Current].start < Len(file)
  <2>1. Current \in 1 .. Len(added) /\ done \in 0 .. added[Current].size /\ added[Current].end = -1 /\ (~ Open => done = 0)
    BY <1>1, <1>3 DEF Adding, Current
  <2>2. added[Current] \in Records
    BY <1>1, <2>1
  <2>3. added[Current].start < Len(file)
    BY <2>1 DEF WriterAt
  <2>4. Open <=> added[Current].start # -1
    BY <1>3 DEF Open
  <2> QED
    <3>1. added[Current].size \in Nat /\ added[Current].start \in Int
      BY <2>2 DEF Records
    <3>2. Current = Len(added) /\ Len(file) \in Nat
      BY <1>1 DEF Current
    <3>3. done \in Nat /\ Current \in Nat
      BY <2>1, <3>1
    <3> QED
      BY <2>1, <2>3, <2>4, <3>1, <3>2, <3>3
<1>6. d \in Seq(ByteCells) /\ Len(d) = n
  <2>1. \A k \in 1 .. n : Byte(Current, done + k) \in ByteCells
    <3> SUFFICES ASSUME NEW k \in 1 .. n PROVE Byte(Current, done + k) \in ByteCells
      OBVIOUS
    <3>1. Current \in Nat /\ done + k \in Nat
      BY <1>4, <1>5
    <3> QED
      BY <3>1 DEF ByteCells
  <2> QED
    BY <1>4, <2>1 DEF Part
<1>7. Grown(file, file', at, t, d)
  <2>1. file' = file \o Zeros(m) \o (Header(t, d) \o d)
    BY <1>2 DEF Emitted
  <2>2. Grown(file, file \o Zeros(m) \o (Header(t, d) \o d), Len(file) + m, t, d)
    <3> HIDE DEF d
    <3> QED
      BY <1>1, <1>4, <1>6, Growth
  <2> QED
    BY <1>4, <2>1, <2>2
<1>8. /\ Len(added') = Len(added) /\ added' \in Seq(Records) /\ added'[Current] = e
      /\ \A r \in 1 .. Len(added) : r # Current => added'[r] = added[r]
  BY <1>1, <1>4, <1>5
<1>9. SameRecords(added, added')
  BY <1>4, <1>5, <1>8 DEF SameRecords
<1>10. /\ file' \in Seq(Cells) /\ Len(file') = at + kHeaderSize + n /\ Starts(file') = Starts(file) \cup {at}
       /\ \A p \in 1 .. Len(file) : file'[p] = file[p]
       /\ TypeAt(file', at) = t /\ DataAt(file', at) = d /\ EndAt(file', at) = Len(file')
  <2>1. /\ file' \in Seq(Cells) /\ Len(file') = at + kHeaderSize + Len(d) /\ Starts(file') = Starts(file) \cup {at}
        /\ \A p \in 1 .. Len(file) : file'[p] = file[p]
        /\ TypeAt(file', at) = t /\ DataAt(file', at) = d
    BY <1>7 DEF Grown
  <2> HIDE DEF d
  <2> QED
    BY <1>6, <2>1 DEF EndAt
<1>11. at \in Nat /\ at >= Len(file) /\ Len(file') \in Nat /\ Len(file') > at
  <2>1. at = Len(file) + m /\ m \in Nat /\ n \in Nat /\ Len(file) \in Nat
    BY <1>1, <1>4
  <2>2. Len(file') = at + 3 + n
    BY <1>10 DEF kHeaderSize
  <2> HIDE DEF d
  <2> QED
    BY <2>1, <2>2
<1>12. PartAt(file', at, added', Current, done)
  <2>1. TypeAt(file', at) \in RecordTypes /\ Len(DataAt(file', at)) = n
    BY <1>4, <1>6, <1>10
  <2>2. DataAt(file', at) = Part(Current, done, Len(DataAt(file', at)))
    BY <1>6, <1>10
  <2>3. ~ Continues(TypeAt(file', at)) => done = 0 /\ added'[Current].start = at
    BY <1>4, <1>5, <1>8, <1>10
  <2>4. ~ GoesOn(TypeAt(file', at)) => done + Len(DataAt(file', at)) = added'[Current].size
    BY <1>4, <1>8, <1>10, <2>1
  <2> QED
    BY <1>4, <1>5, <1>8, <2>1, <2>2, <2>3, <2>4 DEF PartAt
<1>13. \A p \in Starts(file) : LastAt(p, own, off) \/ Follow(EndAt(file, p)) < Len(file)
  BY DEF WriterAt
<1>14. MayCome(file, own, off, t, Current, done)
  <2>1. ASSUME NEW p \in Starts(file), LastAt(p, own, off)
        PROVE  EndAt(file, p) = Len(file) /\ MayFollow(file, p, own, off, t, Current, done)
    <3>1. CASE GoesOn(TypeAt(file, p))
      BY <1>4, <2>1, <3>1 DEF LastAt, MayFollow
    <3>2. CASE ~ GoesOn(TypeAt(file, p))
      <4>1. ~ Open /\ own[p] + 1 = Current /\ EndAt(file, p) = Len(file)
        BY <1>3, <2>1, <3>2 DEF LastAt
      <4> QED
        BY <1>4, <1>5, <3>2, <4>1 DEF MayFollow
    <3> QED
      BY <3>1, <3>2
  <2>2. Len(file) = 0 => ~ Continues(t) /\ Current = 1 /\ done = 0
    BY <1>3, <1>4, <1>5 DEF WriterAt
  <2> QED
    BY <1>13, <2>1, <2>2 DEF MayCome
<1>15. More(own, own2, at, Current) /\ More(off, off2, at, done)
  BY <1>0, <1>1 DEF More
<1>16. own2 \in [Nat -> Nat] /\ off2 \in [Nat -> Nat] /\ own2[at] = Current /\ off2[at] = done
       /\ \A p \in Nat : p # at => own2[p] = own[p] /\ off2[p] = off[p]
  BY <1>0, <1>1, <1>5, <1>11
<1> HIDE DEF d
<1>17. Written(file', added', own2, off2)
  BY <1>1, <1>4, <1>5, <1>7, <1>9, <1>12, <1>14, <1>15, GrowthWritten
<1>18. \A p \in Starts(file) : /\ p \in Nat /\ p # at /\ TypeAt(file', p) = TypeAt(file, p) /\ DataAt(file', p) = DataAt(file, p)
                               /\ EndAt(file', p) = EndAt(file, p) /\ own2[p] = own[p]
  <2> SUFFICES ASSUME NEW p \in Starts(file)
               PROVE  /\ p \in Nat /\ p # at /\ TypeAt(file', p) = TypeAt(file, p) /\ DataAt(file', p) = DataAt(file, p)
                      /\ EndAt(file', p) = EndAt(file, p) /\ own2[p] = own[p]
    OBVIOUS
  <2>1. p \in 0 .. Len(file) - 1
    BY DEF Starts
  <2>2. p \in Nat /\ p # at /\ p + 1 \in 1 .. Len(file)
    BY <1>5, <1>11, <2>1
  <2> QED
    BY <1>10, <1>16, <2>2 DEF TypeAt, DataAt, EndAt
<1>19. Whole(file', added', own2)
  <2> SUFFICES ASSUME NEW r \in 1 .. Len(added), added'[r].end # -1
               PROVE  \E p \in Starts(file') : /\ own2[p] = r /\ ~ GoesOn(TypeAt(file', p))
                                               /\ EndAt(file', p) = added'[r].end /\ added'[r].end <= Len(file')
    BY <1>8 DEF Whole
  <2>1. CASE r = Current
    <3>1. ~ GoesOn(t) /\ added'[r].end = Len(file')
      BY <1>4, <1>5, <1>8, <1>10, <2>1
    <3>2. at \in Starts(file') /\ own2[at] = r /\ ~ GoesOn(TypeAt(file', at)) /\ EndAt(file', at) = added'[r].end
          /\ added'[r].end <= Len(file')
      BY <1>10, <1>11, <1>16, <2>1, <3>1
    <3> QED
      BY <3>2
  <2>2. CASE r # Current
    <3>1. added'[r] = added[r]
      BY <1>8, <2>2
    <3>2. PICK p \in Starts(file) : /\ own[p] = r /\ ~ GoesOn(TypeAt(file, p))
                                    /\ EndAt(file, p) = added[r].end /\ added[r].end <= Len(file)
      BY <1>1, <3>1 DEF Whole
    <3>3. added[r].end \in Int
      <4>1. added[r] \in Records
        BY <1>1
      <4> QED
        BY <4>1 DEF Records
    <3>4. added[r].end <= Len(file')
      BY <1>5, <1>11, <3>2, <3>3
    <3>5. p \in Starts(file') /\ own2[p] = r /\ ~ GoesOn(TypeAt(file', p)) /\ EndAt(file', p) = added'[r].end
      BY <1>10, <1>18, <3>1, <3>2
    <3> QED
      BY <3>1, <3>4, <3>5
  <2> QED
    BY <2>1, <2>2
<1>20. \A r \in 1 .. Len(added) : added[r].start < Len(file) /\ added[r].start \in Int
  <2>1. \A r \in 1 .. Len(added) : added[r] \in Records
    BY <1>1
  <2> QED
    BY <2>1 DEF WriterAt, Records
<1>21. \A r \in 1 .. Len(added) : added'[r].start \in Int /\ added'[r].start < Len(file')
  BY <1>4, <1>5, <1>8, <1>11, <1>20
<1>22. Ordered(added')
  <2> SUFFICES ASSUME NEW r \in 1 .. Len(added), NEW q \in 1 .. Len(added), r < q
               PROVE  added'[q].start = -1 \/ added'[r].start < added'[q].start
    BY <1>8 DEF Ordered
  <2>1. r # Current /\ added'[r] = added[r] /\ (added[q].start = -1 \/ added[r].start < added[q].start)
    BY <1>1, <1>5, <1>8 DEF Ordered
  <2>2. CASE q # Current
    BY <1>8, <2>1, <2>2
  <2>3. CASE q = Current /\ added[q].start # -1
    BY <1>4, <1>8, <2>1, <2>3
  <2>4. CASE q = Current /\ added[q].start = -1
    <3>1. added'[q].start = at
      BY <1>4, <1>8, <2>4
    <3> QED
      BY <1>5, <1>11, <1>20, <2>1, <3>1
  <2> QED
    BY <2>2, <2>3, <2>4
<1>23. FileInv(own2, off2)'
  BY <1>8, <1>10, <1>16, <1>17, <1>19, <1>22 DEF FileInv
<1>24. Current' = Current /\ (Open' <=> GoesOn(t)) /\ Coming' = IF GoesOn(t) THEN Current ELSE Current + 1
  <2>1. Current' = Current
    BY <1>8 DEF Current
  <2>2. added'[Current].start # -1
    BY <1>4, <1>5, <1>8, <1>11
  <2> QED
    BY <1>4, <2>1, <2>2 DEF Open, Coming
<1>25. \A p \in Starts(file') : LastAt(p, own2, off2)' \/ Follow(EndAt(file', p)) < Len(file')
  <2>1. LastAt(at, own2, off2)'
    <3>1. EndAt(file', at) = Len(file') /\ TypeAt(file', at) = t /\ Len(DataAt(file', at)) = n
      BY <1>6, <1>10
    <3>2. CASE GoesOn(t)
      <4>1. Open' /\ own2[at] = Current' /\ off2[at] + n = done'
        BY <1>4, <1>16, <1>24, <3>2
      <4> QED
        BY <3>1, <3>2, <4>1 DEF LastAt
    <3>3. CASE ~ GoesOn(t)
      <4>1. ~ Open' /\ own2[at] + 1 = Coming'
        BY <1>16, <1>24, <3>3
      <4> QED
        BY <3>1, <3>3, <4>1 DEF LastAt
    <3> QED
      BY <3>2, <3>3
  <2>2. ASSUME NEW p \in Starts(file) PROVE Follow(EndAt(file', p)) < Len(file')
    <3>1. CASE LastAt(p, own, off)
      <4>1. EndAt(file, p) = Len(file)
        BY <3>1 DEF LastAt
      <4> QED
        BY <1>4, <1>11, <1>18, <4>1
    <3>2. CASE Follow(EndAt(file, p)) < Len(file)
      <4>1. EndAt(file, p) \in Nat
        <5>1. Len(DataAt(file, p)) \in Nat
          BY <1>1 DEF Written, PartAt
        <5> QED
          BY <1>18, <5>1 DEF EndAt, kHeaderSize
      <4>2. Follow(EndAt(file, p)) \in Nat
        BY <4>1, FollowFacts
      <4> QED
        BY <1>5, <1>11, <1>18, <3>2, <4>2
    <3> QED
      BY <1>13, <3>1, <3>2
  <2> QED
    BY <1>10, <2>1, <2>2
<1>26. phase' = "adding" => Adding'
  <2> SUFFICES ASSUME phase' = "adding" PROVE Adding'
    OBVIOUS
  <2>1. GoesOn(t)
    BY <1>4
  <2>2. e.end = -1 /\ done' \in 0 .. e.size /\ added'[Current'] = e
    BY <1>4, <1>5, <1>8, <1>24, <2>1
  <2> QED
    BY <1>5, <1>24, <2>1, <2>2 DEF Adding
<1>27. WriterAt(own2, off2)'
  <2>1. /\ block_offset_' \in 0 .. kBlockSize
        /\ Room(Len(file')) = IF block_offset_' = kBlockSize THEN kBlockSize ELSE kBlockSize - block_offset_'
    BY <1>2, <1>10 DEF Emitted
  <2>2. Len(file') # 0
    BY <1>11
  <2> QED
    BY <1>8, <1>21, <1>25, <1>26, <2>1, <2>2 DEF WriterAt
<1> QED
  BY <1>23, <1>27

LEMMA AddRecordKeeps ==
    ASSUME NEW own, NEW off, FileInv(own, off), WriterAt(own, off), NEW n \in Nat, AddRecord(n)
    PROVE  FileInv(own, off)' /\ WriterAt(own, off)'
<1> DEFINE e == [size |-> n, start |-> -1, end |-> -1, ok |-> FALSE]
<1>1. /\ own \in [Nat -> Nat] /\ off \in [Nat -> Nat] /\ file \in Seq(Cells) /\ added \in Seq(Records)
      /\ Written(file, added, own, off) /\ Whole(file, added, own) /\ Ordered(added)
  BY DEF FileInv
<1>2. phase = "idle" /\ phase' = "adding" /\ added' = Append(added, e) /\ done' = 0 /\ file' = file /\ block_offset_' = block_offset_
  BY DEF AddRecord
<1>3. e \in Records
  BY DEF Records
<1>4. /\ added' \in Seq(Records) /\ Len(added') = Len(added) + 1 /\ Len(added) \in Nat /\ added'[Len(added) + 1] = e
      /\ \A r \in 1 .. Len(added) : added'[r] = added[r]
  <2> HIDE DEF e
  <2>1. added \in Seq(Records) /\ e \in Records /\ added' = Append(added, e)
    BY <1>1, <1>2, <1>3
  <2> QED
    BY <2>1, AppendProperties
<1>5. Current = Len(added) /\ Current' = Len(added) + 1 /\ added'[Current'] = e /\ ~ Open /\ ~ Open' /\ Coming' = Coming
  BY <1>2, <1>4 DEF Current, Open, Coming
<1>6. Written(file', added', own, off)
  <2>1. ASSUME NEW p \in Starts(file), PartAt(file, p, added, own[p], off[p]) PROVE PartAt(file, p, added', own[p], off[p])
    <3>1. own[p] \in 1 .. Len(added)
      BY <2>1 DEF PartAt
    <3>2. own[p] \in 1 .. Len(added') /\ added'[own[p]] = added[own[p]]
      BY <1>4, <3>1
    <3> QED
      BY <2>1, <3>2 DEF PartAt
  <2> QED
    BY <1>1, <1>2, <2>1 DEF Written
<1>7. Whole(file', added', own)
  <2> SUFFICES ASSUME NEW r \in 1 .. Len(added) + 1, added'[r].end # -1
               PROVE  \E p \in Starts(file) : /\ own[p] = r /\ ~ GoesOn(TypeAt(file, p))
                                              /\ EndAt(file, p) = added'[r].end /\ added'[r].end <= Len(file)
    BY <1>2, <1>4 DEF Whole
  <2>1. r \in 1 .. Len(added) /\ added'[r] = added[r]
    BY <1>4
  <2> QED
    BY <1>1, <2>1 DEF Whole
<1>8. Ordered(added')
  <2> SUFFICES ASSUME NEW r \in 1 .. Len(added) + 1, NEW q \in 1 .. Len(added) + 1, r < q
               PROVE  added'[q].start = -1 \/ added'[r].start < added'[q].start
    BY <1>4 DEF Ordered
  <2>1. CASE q = Len(added) + 1
    BY <1>4, <2>1
  <2>2. CASE q # Len(added) + 1
    <3>1. q \in 1 .. Len(added) /\ r \in 1 .. Len(added)
      BY <1>4, <2>2
    <3> QED
      BY <1>1, <1>4, <3>1 DEF Ordered
  <2> QED
    BY <2>1, <2>2
<1>9. FileInv(own, off)'
  BY <1>1, <1>2, <1>4, <1>6, <1>7, <1>8 DEF FileInv
<1>10. \A r \in 1 .. Len(added') : added'[r].start < Len(file')
  <2> SUFFICES ASSUME NEW r \in 1 .. Len(added) + 1 PROVE added'[r].start < Len(file)
    BY <1>2, <1>4
  <2>1. CASE r = Len(added) + 1
    <3>1. Len(file) \in Nat
      BY <1>1
    <3> QED
      BY <1>4, <2>1, <3>1
  <2>2. CASE r # Len(added) + 1
    <3>1. r \in 1 .. Len(added)
      BY <1>4, <2>2
    <3> QED
      BY <1>4, <3>1 DEF WriterAt
  <2> QED
    BY <2>1, <2>2
<1>11. \A p \in Starts(file) : LastAt(p, own, off)' <=> LastAt(p, own, off)
  BY <1>2, <1>5 DEF LastAt
<1>12. Adding'
  <2>1. e.end = -1 /\ 0 \in 0 .. e.size
    OBVIOUS
  <2> QED
    BY <1>2, <1>4, <1>5, <2>1 DEF Adding
<1>13. WriterAt(own, off)'
  <2>1. /\ block_offset_ \in 0 .. kBlockSize
        /\ Room(Len(file)) = IF block_offset_ = kBlockSize THEN kBlockSize ELSE kBlockSize - block_offset_
        /\ Len(file) = 0 => ~ Open /\ Coming = 1
        /\ \A p \in Starts(file) : LastAt(p, own, off) \/ Follow(EndAt(file, p)) < Len(file)
    BY DEF WriterAt
  <2> QED
    BY <1>2, <1>5, <1>10, <1>11, <1>12, <2>1 DEF WriterAt
<1> QED
  BY <1>9, <1>13

LEMMA EndSessionKeeps ==
    ASSUME NEW own, NEW off, FileInv(own, off), EndSession
    PROVE  FileInv(own, off)'
<1>1. /\ own \in [Nat -> Nat] /\ off \in [Nat -> Nat] /\ file \in Seq(Cells) /\ added \in Seq(Records)
      /\ Written(file, added, own, off) /\ Whole(file, added, own) /\ Ordered(added)
  BY DEF FileInv
<1>2. PICK n \in 0 .. Len(file) :
        /\ file' = SubSeq(file, 1, n)
        /\ added' = [r \in 1 .. Len(added) |-> IF added[r].end <= n THEN added[r] ELSE [added[r] EXCEPT !.end = -1]]
  BY DEF EndSession
<1>3. \A r \in 1 .. Len(added) : added[r] \in Records
  BY <1>1
<1>4. \A r \in 1 .. Len(added) : /\ added'[r] \in Records /\ added'[r].size = added[r].size /\ added'[r].start = added[r].start
                                 /\ added'[r].end = -1 \/ (added'[r].end = added[r].end /\ added[r].end <= n)
  <2> SUFFICES ASSUME NEW r \in 1 .. Len(added)
               PROVE  /\ added'[r] \in Records /\ added'[r].size = added[r].size /\ added'[r].start = added[r].start
                      /\ added'[r].end = -1 \/ (added'[r].end = added[r].end /\ added[r].end <= n)
    OBVIOUS
  <2>1. added'[r] = IF added[r].end <= n THEN added[r] ELSE [added[r] EXCEPT !.end = -1]
    BY <1>2
  <2>2. added[r] \in Records
    BY <1>3
  <2>3. CASE added[r].end <= n
    BY <2>1, <2>2, <2>3
  <2>4. CASE ~ (added[r].end <= n)
    BY <2>1, <2>2, <2>4 DEF Records
  <2> QED
    BY <2>3, <2>4
<1>5. added' \in Seq(Records) /\ Len(added') = Len(added)
  <2>1. Len(added) \in Nat
    BY <1>1
  <2>2. added' \in [1 .. Len(added) -> Records]
    BY <1>2, <1>4
  <2> QED
    BY <2>1, <2>2
<1>6. SameRecords(added, added')
  BY <1>4, <1>5 DEF SameRecords
<1>7. /\ Written(file', added', own, off) /\ file' \in Seq(Cells) /\ Len(file') = n
      /\ Starts(file') = {p \in Starts(file) : p < n}
      /\ \A p \in Starts(file') : TypeAt(file', p) = TypeAt(file, p) /\ EndAt(file', p) = EndAt(file, p)
  <2>1. file' = SubSeq(file, 1, n) /\ n \in 0 .. Len(file)
    BY <1>2
  <2>2. Written(file', added', own, off) /\ IsCut(file, file', n)
    BY <1>1, <1>6, <2>1, CutWritten
  <2> QED
    BY <2>2 DEF IsCut
<1>8. Whole(file', added', own)
  <2> SUFFICES ASSUME NEW r \in 1 .. Len(added), added'[r].end # -1
               PROVE  \E p \in Starts(file') : /\ own[p] = r /\ ~ GoesOn(TypeAt(file', p))
                                               /\ EndAt(file', p) = added'[r].end /\ added'[r].end <= Len(file')
    BY <1>5 DEF Whole
  <2>1. added'[r].end = added[r].end /\ added[r].end <= n /\ added[r].end # -1
    BY <1>4
  <2>2. PICK p \in Starts(file) : own[p] = r /\ ~ GoesOn(TypeAt(file, p)) /\ EndAt(file, p) = added[r].end
    BY <1>1, <2>1 DEF Whole
  <2>3. p < n
    <3>1. p \in Nat /\ Len(DataAt(file, p)) \in Nat
      BY <1>1 DEF Written, PartAt, Starts
    <3> QED
      BY <2>1, <2>2, <3>1 DEF EndAt, kHeaderSize
  <2>4. p \in Starts(file')
    BY <1>7, <2>3
  <2> QED
    BY <1>7, <2>1, <2>2, <2>4
<1>9. Ordered(added')
  BY <1>1, <1>4, <1>5 DEF Ordered
<1> QED
  BY <1>1, <1>5, <1>7, <1>8, <1>9 DEF FileInv

(***************************************************************************)
(* The Reader: where it is in the file.                                    *)
(***************************************************************************)
\* The record ReadRecord is to return next, and how much of it is in scratch.
Wanted == Len(returned) + 1

Had == IF in_fragmented_record THEN Len(scratch) ELSE 0

\* The records that end in a physical record before x have been returned.
Passed(x, own) ==
    \A p \in Starts(file) : p < x /\ ~ GoesOn(TypeAt(file, p)) => own[p] < Wanted

\* All whole records have been returned.
AllPassed(own) ==
    \A p \in Starts(file) : EndAt(file, p) <= Len(file) /\ ~ GoesOn(TypeAt(file, p)) => own[p] < Wanted

\* buffer_ is the rest of a block from from on, or of the file.
BufferAt ==
    /\ from \in Nat /\ end_of_buffer_offset_ \in Nat
    /\ from <= end_of_buffer_offset_ /\ end_of_buffer_offset_ <= Len(file)
    /\ end_of_buffer_offset_ <= from + Room(from)
    /\ IF eof_ THEN end_of_buffer_offset_ = Len(file) ELSE Room(end_of_buffer_offset_) = kBlockSize

\* scratch is the beginning of the record wanted.
Assembly ==
    /\ in_fragmented_record \in BOOLEAN
    /\ in_fragmented_record =>
        /\ Wanted \in 1 .. Len(added)
        /\ prospective_record_offset = added[Wanted].start /\ added[Wanted].start # -1
        /\ Len(scratch) \in Nat /\ scratch = Part(Wanted, 0, Len(scratch))

\* ReadPhysicalRecord has returned the physical record at p.
PendingAt(p, own, off) ==
    /\ EndAt(file, p) = from
    /\ fragment = [type |-> TypeAt(file, p), data |-> DataAt(file, p)]
    /\ own[p] = Wanted /\ off[p] = Had
    /\ Continues(TypeAt(file, p)) <=> in_fragmented_record
    /\ Passed(p, own)

ReadyAt(own, off) ==
    /\ fragment = None
    /\ Expects(file, from, in_fragmented_record, Wanted, Had, own, off)
    /\ Passed(from, own)

ReaderAt(own, off) ==
    /\ BufferAt /\ Assembly /\ resyncing_ = FALSE
    /\ \/ ReadyAt(own, off)
       \/ fragment.type = "Eof" /\ AllPassed(own)
       \/ \E p \in Starts(file) : PendingAt(p, own, off)

\* The records returned are the first ones added.
ComeBack ==
    /\ returned \in Seq([data : Seq(ByteCells), offset : Int])
    /\ \A j \in 1 .. Len(returned) :
        /\ j \in 1 .. Len(added) /\ added[j].start # -1
        /\ returned[j] = [data |-> Payload(j), offset |-> added[j].start]

\* The Reader has not begun.
ReaderNew ==
    /\ from = 0 /\ end_of_buffer_offset_ = 0 /\ eof_ = FALSE /\ resyncing_ = FALSE
    /\ fragment = None /\ in_fragmented_record = FALSE /\ last_record_offset_ = 0
    /\ returned = <<>>

LEMMA StartFacts ==
    ASSUME NEW own, NEW off, FileInv(own, off), NEW p \in Starts(file)
    PROVE  /\ p \in Nat /\ p < Len(file) /\ Len(DataAt(file, p)) \in Nat
           /\ EndAt(file, p) = p + 3 + Len(DataAt(file, p)) /\ EndAt(file, p) \in Nat
           /\ 3 + Len(DataAt(file, p)) <= Room(p)
           /\ CellsAt(file, p) /\ PartAt(file, p, added, own[p], off[p]) /\ After(file, p, own, off)
           /\ own[p] \in Nat /\ off[p] \in Nat
<1>1. CellsAt(file, p) /\ PartAt(file, p, added, own[p], off[p]) /\ After(file, p, own, off)
  BY DEF FileInv, Written
<1>2. p \in Nat /\ p < Len(file)
  <2>1. Len(file) \in Nat
    BY DEF FileInv
  <2> QED
    BY <2>1 DEF Starts
<1>3. own[p] \in Nat /\ off[p] \in Nat
  BY <1>2 DEF FileInv
<1> QED
  BY <1>1, <1>2, <1>3 DEF PartAt, EndAt, kHeaderSize

\* No physical record begins where there is no room for a header.
LEMMA NoStartInTrailer ==
    ASSUME NEW own, NEW off, FileInv(own, off), NEW x \in Nat, Room(x) < 3, NEW p \in Starts(file), p >= x
    PROVE  p >= x + Room(x)
<1> SUFFICES ASSUME p < x + Room(x) PROVE FALSE
  <2>1. p \in Nat /\ Room(x) \in Nat
    BY StartFacts, RoomFacts
  <2> QED
    BY <2>1
<1>1. p \in Nat /\ Room(p) >= 3 /\ Len(DataAt(file, p)) \in Nat /\ Room(p) \in Nat
  <2>1. p \in Nat
    BY StartFacts
  <2>2. Room(p) \in 1 .. kBlockSize /\ kBlockSize \in Nat
    BY <2>1, RoomFacts, LogAssumption
  <2>3. Len(DataAt(file, p)) \in Nat /\ 3 + Len(DataAt(file, p)) <= Room(p)
    BY StartFacts
  <2> QED
    BY <2>1, <2>2, <2>3
<1> DEFINE k == p - x
<1>2. k \in Nat /\ k < Room(x) /\ p = x + k /\ Room(x) \in Nat
  <2>1. Room(x) \in 1 .. kBlockSize /\ kBlockSize \in Nat
    BY RoomFacts, LogAssumption
  <2> QED
    BY <1>1, <2>1
<1>3. Room(x + k) = Room(x) - k
  BY <1>2, RoomFacts
<1> QED
  BY <1>1, <1>2, <1>3

LEMMA SkipKeeps ==
    ASSUME NEW own, NEW off, FileInv(own, off), ReaderNew, initial_offset_ = 0, SkipToInitialBlock
    PROVE  ReaderAt(own, off)'
<1>1. UNCHANGED <<from, end_of_buffer_offset_, eof_, fragment, resyncing_, in_fragmented_record, returned, file, scratch, added,
                  prospective_record_offset>>
  <2>1. ~ (last_record_offset_ < initial_offset_)
    BY DEF ReaderNew
  <2> QED
    BY <2>1 DEF SkipToInitialBlock, logical, writer
<1>2. Len(file) \in Nat /\ Room(0) = kBlockSize /\ kBlockSize \in Nat
  BY RoomFacts, LogAssumption DEF FileInv
<1>3. Wanted' = 1 /\ Had' = 0
  BY <1>1 DEF Wanted, Had, ReaderNew
<1>4. Passed(0, own)'
  BY <1>1, StartFacts DEF Passed
<1>5. Expects(file', from', in_fragmented_record', Wanted', Had', own, off)
  <2>1. Expects(file, 0, FALSE, 1, 0, own, off)
    BY DEF FileInv, Written
  <2> QED
    BY <1>1, <1>3, <2>1 DEF ReaderNew
<1>6. ReadyAt(own, off)'
  BY <1>1, <1>4, <1>5 DEF ReadyAt, ReaderNew
<1>7. BufferAt'
  BY <1>1, <1>2 DEF BufferAt, ReaderNew
<1>8. Assembly' /\ resyncing_' = FALSE
  BY <1>1 DEF Assembly, ReaderNew
<1> QED
  BY <1>6, <1>7, <1>8 DEF ReaderAt

\* What ReadPhysicalRecord leaves alone.
ReadingFile ==
    UNCHANGED <<file, added, resyncing_, in_fragmented_record, returned, scratch, prospective_record_offset>>

LEMMA ReadingKeeps ==
    ASSUME NEW own, NEW off, ReadingFile, Assembly
    PROVE  /\ Assembly' /\ Wanted' = Wanted /\ Had' = Had
           /\ \A x : Passed(x, own)' <=> Passed(x, own)
           /\ AllPassed(own)' <=> AllPassed(own)
BY DEF ReadingFile, Assembly, Wanted, Had, Passed, AllPassed

LEMMA ReadBlockKeeps ==
    ASSUME NEW own, NEW off, FileInv(own, off), ReaderAt(own, off), ReadBlock
    PROVE  ReaderAt(own, off)'
<1> DEFINE E == end_of_buffer_offset_
           n == Smaller(kBlockSize, Len(file) - Smaller(Len(file), E))
<1>1. /\ fragment = None /\ E - from < 3 /\ ~ eof_ /\ from' = E /\ end_of_buffer_offset_' = E + n /\ eof_' = (n < kBlockSize)
      /\ fragment' = fragment
  BY DEF ReadBlock, Ready, BufferSize, kHeaderSize
<1>2. ReadingFile
  BY DEF ReadBlock, ReadingFile, writer, logical
<1>3. /\ from \in Nat /\ E \in Nat /\ from <= E /\ E <= Len(file) /\ E <= from + Room(from) /\ Room(E) = kBlockSize
      /\ Len(file) \in Nat /\ kBlockSize \in Nat /\ kBlockSize > 3
  BY <1>1, LogAssumption DEF ReaderAt, BufferAt, FileInv, kHeaderSize
<1>4. ReadyAt(own, off)
  <2>1. fragment.type # "Eof"
    BY <1>1 DEF None
  <2>2. ASSUME NEW p \in Starts(file), PendingAt(p, own, off) PROVE FALSE
    <3>1. TypeAt(file, p) \in RecordTypes
      BY StartFacts DEF PartAt
    <3> QED
      BY <1>1, <2>2, <3>1 DEF PendingAt, None, RecordTypes
  <2> QED
    BY <2>1, <2>2 DEF ReaderAt
<1>5. Follow(from) = E /\ Follow(E) = E /\ (from = E \/ (Room(from) < 3 /\ E = from + Room(from)))
  <2>1. Follow(E) = E
    BY <1>3 DEF Follow, kHeaderSize
  <2>2. CASE from # E
    <3> DEFINE k == E - from
    <3>1. k \in Nat /\ k > 0 /\ E = from + k /\ k <= Room(from) /\ Room(from) \in 1 .. kBlockSize
      BY <1>3, <2>2, RoomFacts
    <3>2. k < Room(from) => Room(from + k) = Room(from) - k
      BY <1>3, <3>1, RoomFacts
    <3>3. k = Room(from)
      BY <1>3, <3>1, <3>2
    <3> QED
      BY <1>1, <1>3, <2>1, <3>1, <3>3 DEF Follow, kHeaderSize
  <2> QED
    BY <2>1, <2>2
<1>6. Passed(E, own)
  <2> SUFFICES ASSUME NEW p \in Starts(file), p < E, ~ GoesOn(TypeAt(file, p)) PROVE own[p] < Wanted
    BY DEF Passed
  <2>1. p \in Nat
    BY StartFacts
  <2>2. p < from
    <3>1. CASE from = E
      BY <3>1
    <3>2. CASE Room(from) < 3 /\ E = from + Room(from)
      BY <1>3, <2>1, <3>2, NoStartInTrailer
    <3> QED
      BY <1>5, <3>1, <3>2
  <2> QED
    BY <1>4, <2>2 DEF ReadyAt, Passed
<1>7. Expects(file, E, in_fragmented_record, Wanted, Had, own, off)
  BY <1>4, <1>5 DEF ReadyAt, Expects
<1>8. n \in Nat /\ n <= kBlockSize /\ E + n <= Len(file) /\ (n < kBlockSize => E + n = Len(file))
  BY <1>3 DEF Smaller
<1> HIDE DEF n
<1>9. BufferAt'
  <2>1. from' = E /\ end_of_buffer_offset_' = E + n /\ eof_' = (n < kBlockSize) /\ file' = file
    BY <1>1, <1>2 DEF ReadingFile
  <2>2. n = kBlockSize => Room(E + n) = kBlockSize
    BY <1>3, RoomFacts
  <2>3. E + n \in Nat /\ E <= E + n /\ E + n <= E + Room(E)
    BY <1>3, <1>8
  <2>4. IF n < kBlockSize THEN E + n = Len(file) ELSE Room(E + n) = kBlockSize
    BY <1>3, <1>8, <2>2
  <2> HIDE DEF E
  <2> QED
    BY <1>3, <1>8, <2>1, <2>3, <2>4 DEF BufferAt
<1>10. Assembly' /\ Wanted' = Wanted /\ Had' = Had /\ resyncing_' = FALSE /\ file' = file
       /\ in_fragmented_record' = in_fragmented_record
  <2>1. Assembly /\ resyncing_ = FALSE
    BY DEF ReaderAt
  <2>2. Assembly' /\ Wanted' = Wanted /\ Had' = Had
    BY <1>2, <2>1, ReadingKeeps
  <2> QED
    BY <1>2, <2>1, <2>2 DEF ReadingFile
<1>11. ReadyAt(own, off)'
  <2>1. from' = E /\ fragment' = None
    BY <1>1
  <2>2. \A p \in Starts(file') : p < from' /\ ~ GoesOn(TypeAt(file', p)) => own[p] < Wanted'
    BY <1>6, <1>10, <2>1 DEF Passed
  <2>3. Expects(file', from', in_fragmented_record', Wanted', Had', own, off)
    BY <1>7, <1>10, <2>1
  <2> QED
    BY <2>1, <2>2, <2>3 DEF ReadyAt, Passed
<1> QED
  BY <1>9, <1>10, <1>11 DEF ReaderAt

(***************************************************************************)
(* ReadPhysicalRecord.                                                     *)
(***************************************************************************)
LEMMA CellIsCrc ==
    ASSUME NEW c \in Cells, c.is = "crc"
    PROVE  \E t, d : c = Crc(t, d)
<1>1. CASE c \in {Crc(t, d) : t \in RecordTypes, d \in Seq(ByteCells)}
  BY <1>1
<1>2. CASE c \in {Length(n) : n \in Nat}
  <2>1. PICK n \in Nat : c = Length(n)
    BY <1>2
  <2> QED
    BY <2>1, CellKinds
<1>3. CASE c \in {Type(t) : t \in RecordTypes}
  <2>1. PICK t \in RecordTypes : c = Type(t)
    BY <1>3, Zenon
  <2> QED
    BY <2>1, CellKinds
<1>4. CASE c \in ByteCells
  <2>1. PICK r \in Nat, k \in Nat : c = Byte(r, k)
    BY <1>4 DEF ByteCells
  <2> QED
    BY <2>1, CellKinds
<1>5. CASE c = Zero
  BY <1>5, CellKinds
<1> QED
  BY <1>1, <1>2, <1>3, <1>4, <1>5 DEF Cells

\* At a physical record to be read, ReadPhysicalRecord has returned nothing yet.
LEMMA ReadyGives ==
    ASSUME NEW own, NEW off, FileInv(own, off), ReaderAt(own, off), fragment = None
    PROVE  ReadyAt(own, off)
<1>1. fragment.type # "Eof"
  BY DEF None
<1>2. ASSUME NEW p \in Starts(file), PendingAt(p, own, off) PROVE FALSE
  <2>1. TypeAt(file, p) \in RecordTypes
    BY StartFacts DEF PartAt
  <2> QED
    BY <1>2, <2>1 DEF PendingAt, None, RecordTypes
<1> QED
  BY <1>1, <1>2 DEF ReaderAt

\* ReadPhysicalRecord returns kEof once nothing whole is left.
LEMMA EofKeeps ==
    ASSUME NEW own, NEW off, FileInv(own, off), ReaderAt(own, off), ReadingFile, UNCHANGED <<end_of_buffer_offset_, eof_>>,
           from' = end_of_buffer_offset_, fragment' = [type |-> "Eof", data |-> <<>>], AllPassed(own)
    PROVE  ReaderAt(own, off)'
<1>1. /\ from \in Nat /\ end_of_buffer_offset_ \in Nat
      /\ from <= end_of_buffer_offset_ /\ end_of_buffer_offset_ <= Len(file)
      /\ IF eof_ THEN end_of_buffer_offset_ = Len(file) ELSE Room(end_of_buffer_offset_) = kBlockSize
  BY DEF ReaderAt, BufferAt
<1>2. Room(end_of_buffer_offset_) \in Nat
  <2>1. Room(end_of_buffer_offset_) \in 1 .. kBlockSize /\ kBlockSize \in Nat
    BY <1>1, RoomFacts, LogAssumption
  <2> QED
    BY <2>1
<1>3. BufferAt'
  BY <1>1, <1>2 DEF BufferAt, ReadingFile
<1>4. Assembly' /\ (AllPassed(own)' <=> AllPassed(own)) /\ resyncing_' = FALSE
  <2>1. Assembly /\ resyncing_ = FALSE
    BY DEF ReaderAt
  <2> QED
    BY <2>1, ReadingKeeps DEF ReadingFile
<1>5. fragment'.type = "Eof"
  OBVIOUS
<1> QED
  BY <1>3, <1>4, <1>5 DEF ReaderAt

LEMMA ReadEofKeeps ==
    ASSUME NEW own, NEW off, FileInv(own, off), ReaderAt(own, off), ReadEof
    PROVE  ReaderAt(own, off)'
<1>1. /\ fragment = None /\ end_of_buffer_offset_ - from < 3 /\ eof_ /\ from' = end_of_buffer_offset_
      /\ fragment' = [type |-> "Eof", data |-> <<>>] /\ UNCHANGED <<end_of_buffer_offset_, eof_>>
  BY DEF ReadEof, Ready, BufferSize, kHeaderSize, ReturnPhysical
<1>2. ReadingFile
  BY DEF ReadEof, ReadingFile, writer, logical
<1>3. from \in Nat /\ Len(file) \in Nat /\ Len(file) - from < 3
  BY <1>1 DEF ReaderAt, BufferAt, FileInv
<1>4. ReadyAt(own, off)
  BY <1>1, ReadyGives
<1>5. AllPassed(own)
  <2> SUFFICES ASSUME NEW p \in Starts(file), EndAt(file, p) <= Len(file), ~ GoesOn(TypeAt(file, p)) PROVE own[p] < Wanted
    BY DEF AllPassed
  <2>1. p \in Nat /\ Len(DataAt(file, p)) \in Nat /\ EndAt(file, p) = p + 3 + Len(DataAt(file, p))
    BY StartFacts
  <2>2. p < from
    BY <1>3, <2>1
  <2> QED
    BY <1>4, <2>2 DEF ReadyAt, Passed
<1> QED
  BY <1>1, <1>2, <1>5, EofKeeps

LEMMA ReadPhysicalRecordKeeps ==
    ASSUME NEW own, NEW off, FileInv(own, off), ReaderAt(own, off), initial_offset_ = 0, ReadPhysicalRecord
    PROVE  ReaderAt(own, off)' /\ reports' = reports
<1> DEFINE E == end_of_buffer_offset_
           n == Len(DataAt(file, from))
           t == TypeAt(file, from)
           d == DataAt(file, from)
<1>1. /\ fragment = None /\ E - from >= 3
  BY DEF ReadPhysicalRecord, Ready, BufferSize, kHeaderSize
<1>2. ReadingFile /\ UNCHANGED <<end_of_buffer_offset_, eof_>>
  BY DEF ReadPhysicalRecord, ReadingFile, writer, logical
<1>3. /\ from \in Nat /\ E \in Nat /\ from <= E /\ E <= Len(file) /\ E <= from + Room(from)
      /\ IF eof_ THEN E = Len(file) ELSE Room(E) = kBlockSize
      /\ Len(file) \in Nat /\ kBlockSize \in Nat
  BY LogAssumption DEF ReaderAt, BufferAt, FileInv
<1>4. Room(from) \in 1 .. kBlockSize /\ Room(from) >= 3
  <2>1. Room(from) \in 1 .. kBlockSize
    BY <1>3, RoomFacts
  <2> QED
    BY <1>1, <1>3, <2>1
<1>5. ReadyAt(own, off)
  BY <1>1, ReadyGives
<1>6. from \in Starts(file) /\ (Continues(t) <=> in_fragmented_record) /\ own[from] = Wanted /\ off[from] = Had
  <2>1. Follow(from) = from /\ from < Len(file)
    BY <1>1, <1>3, <1>4 DEF Follow, kHeaderSize
  <2> QED
    BY <1>5, <2>1 DEF ReadyAt, Expects
<1>7. /\ n \in Nat /\ EndAt(file, from) = from + 3 + n /\ 3 + n <= Room(from) /\ CellsAt(file, from)
      /\ t \in RecordTypes /\ d = Part(own[from], off[from], n)
  BY <1>6, StartFacts DEF PartAt
<1>8. file[from + 2] = Length(n) /\ file[from + 3] = Type(t) /\ file[from + 1].is = "crc"
  BY <1>1, <1>3, <1>6, <1>7 DEF CellsAt, Starts
<1>9. LengthsOf(file[from + 2]) = {n} /\ TypesOf(file[from + 3]) = {t}
  BY <1>8, CellKinds DEF LengthsOf, TypesOf
<1>10. file[from + 1] = Crc(t, d)
  <2>1. from + 1 \in 1 .. Len(file)
    BY <1>1, <1>3
  <2>2. file[from + 1] \in Cells
    BY <2>1 DEF FileInv
  <2>3. PICK u, v : file[from + 1] = Crc(u, v)
    <3> DEFINE c == file[from + 1]
    <3>1. c \in Cells /\ c.is = "crc"
      BY <1>8, <2>2
    <3> HIDE DEF c
    <3>2. \E u, v : c = Crc(u, v)
      BY <3>1, CellIsCrc
    <3> QED
      BY <3>2 DEF c
  <2> QED
    BY <2>3, CellKinds DEF TypeAt, DataAt
<1>11. CASE 3 + n > E - from
  <2>1. eof_
    <3> SUFFICES ASSUME ~ eof_ PROVE FALSE
      OBVIOUS
    <3> DEFINE k == E - from
    <3>1. k \in Nat /\ E = from + k /\ k < Room(from) /\ k > 0 /\ Room(E) = kBlockSize
      BY <1>1, <1>3, <1>4, <1>7, <1>11
    <3>2. Room(from + k) = Room(from) - k
      BY <1>3, <3>1, RoomFacts
    <3> QED
      BY <1>4, <3>1, <3>2
  <2>2. BadLength
    BY <1>9, <1>11 DEF ReadPhysicalRecord, BufferSize, kHeaderSize
  <2>3. from' = E /\ fragment' = [type |-> "Eof", data |-> <<>>] /\ reports' = reports
    BY <2>1, <2>2 DEF BadLength, ReturnPhysical
  <2>4. AllPassed(own)
    <3> SUFFICES ASSUME NEW p \in Starts(file), EndAt(file, p) <= Len(file), ~ GoesOn(TypeAt(file, p)) PROVE own[p] < Wanted
      BY DEF AllPassed
    <3>1. p \in Nat /\ p < Len(file) /\ EndAt(file, p) \in Nat
      BY StartFacts
    <3>2. EndAt(file, from) > Len(file)
      BY <1>3, <1>7, <1>11, <2>1
    <3>3. ~ (from < p)
      <4>1. from < p => EndAt(file, from) <= p
        BY <1>6 DEF FileInv, Written
      <4> QED
        BY <1>3, <1>7, <3>1, <3>2, <4>1
    <3>4. p # from
      BY <1>3, <1>7, <3>1, <3>2
    <3>5. p < from
      BY <1>3, <3>1, <3>3, <3>4
    <3> QED
      BY <1>5, <3>5 DEF ReadyAt, Passed
  <2> QED
    BY <1>2, <2>3, <2>4, EofKeeps
<1>12. CASE ~ (3 + n > E - from)
  <2>1. SubSeq(file, from + kHeaderSize + 1, from + kHeaderSize + n) = d
    <3>1. \A i \in from + 4 .. from + 3 + n : file[i] \in Cells
      <4>1. file \in Seq(Cells) /\ from + 3 + n <= Len(file)
        BY <1>3, <1>7, <1>12 DEF FileInv
      <4> QED
        BY <1>3, <1>7, <4>1
    <3> DEFINE w == SubSeq(file, from + 4, from + 3 + n)
    <3>2. /\ w \in Seq(Cells) /\ Len(w) = (IF from + 4 <= from + 3 + n THEN (from + 3 + n) - (from + 4) + 1 ELSE 0)
          /\ \A i \in 1 .. (from + 3 + n) - (from + 4) + 1 : w[i] = file[(from + 4) + i - 1]
      BY <1>3, <1>7, <3>1, SubSeqProperties
    <3> HIDE DEF w, n
    <3>3. Len(w) = n /\ \A i \in 1 .. n : w[i] = file[from + 3 + i]
      <4>1. (from + 3 + n) - (from + 4) + 1 = n /\ \A i \in 1 .. n : (from + 4) + i - 1 = from + 3 + i
        BY <1>3, <1>7
      <4>2. Len(w) = n
        BY <1>3, <1>7, <3>2
      <4> QED
        BY <3>2, <4>1, <4>2
    <3>4. \A i \in 1 .. n : file[from + 3 + i] = d[i]
      <4>1. \A i \in 1 .. n : from + 3 + i <= Len(file)
        BY <1>3, <1>7, <1>12
      <4> QED
        BY <1>7, <4>1 DEF CellsAt, kHeaderSize, n
    <3>5. w = d
      <4>1. d = [k \in 1 .. n |-> Byte(own[from], off[from] + k)]
        BY <1>7 DEF Part
      <4>2. \A k \in 1 .. n : w[k] = d[k]
        BY <3>3, <3>4
      <4>3. w = [k \in 1 .. n |-> w[k]]
        BY <3>2, <3>3
      <4> HIDE DEF d
      <4> QED
        BY <4>1, <4>2, <4>3
    <3>6. from + kHeaderSize + 1 = from + 4 /\ from + kHeaderSize + n = from + 3 + n
      BY <1>3, <1>7 DEF kHeaderSize
    <3> QED
      BY <3>5, <3>6 DEF w
  <2>2. t # "Zero" /\ ~ (from < initial_offset_)
    BY <1>3, <1>7 DEF RecordTypes
  <2>3. from' = from + 3 + n /\ fragment' = [type |-> t, data |-> d] /\ reports' = reports
    <3> HIDE DEF n, t, d
    <3>1. \E length \in {n}, type \in {t} :
            LET data == SubSeq(file, from + kHeaderSize + 1, from + kHeaderSize + length)
            IN  IF kHeaderSize + length > BufferSize THEN BadLength
                ELSE IF type = "Zero" /\ length = 0
                THEN /\ from' = end_of_buffer_offset_
                     /\ ReturnPhysical("Bad", <<>>)
                     /\ UNCHANGED reports
                ELSE IF file[from + 1] # Crc(type, data)
                THEN /\ from' = end_of_buffer_offset_
                     /\ ReportDrop(from, 0, "checksum mismatch")
                     /\ ReturnPhysical("Bad", <<>>)
                ELSE /\ from' = from + kHeaderSize + length
                     /\ IF from < initial_offset_ THEN ReturnPhysical("Bad", <<>>) ELSE ReturnPhysical(type, data)
                     /\ UNCHANGED reports
      BY <1>9 DEF ReadPhysicalRecord
    <3>2. ~ (kHeaderSize + n > BufferSize)
      BY <1>12 DEF BufferSize, kHeaderSize
    <3>3. from' = from + kHeaderSize + n /\ ReturnPhysical(t, d) /\ UNCHANGED reports
      BY <1>10, <2>1, <2>2, <3>1, <3>2
    <3> QED
      BY <3>3 DEF ReturnPhysical, kHeaderSize
  <2>4. Assembly' /\ Wanted' = Wanted /\ Had' = Had /\ resyncing_' = FALSE
        /\ file' = file /\ in_fragmented_record' = in_fragmented_record
    <3>1. Assembly /\ resyncing_ = FALSE
      BY DEF ReaderAt
    <3> QED
      BY <1>2, <3>1, ReadingKeeps DEF ReadingFile
  <2>5. BufferAt'
    <3> DEFINE k == 3 + n
    <3>0. k \in Nat /\ k <= E - from /\ k <= Room(from) /\ from' = from + k /\ from + k \in Nat /\ from + k <= E
      BY <1>3, <1>7, <1>12, <2>3
    <3>1. (k < Room(from) => Room(from + k) = Room(from) - k) /\ Room(from + Room(from)) = kBlockSize
      BY <1>3, <3>0, RoomFacts
    <3> HIDE DEF k, n
    <3>2. E <= (from + k) + Room(from + k)
      BY <1>3, <1>4, <3>0, <3>1
    <3> QED
      BY <1>2, <1>3, <2>4, <3>0, <3>2 DEF BufferAt
  <2>6. PICK x : x = from
    OBVIOUS
  <2>7. PendingAt(x, own, off)'
    <3>1. EndAt(file', x) = from' /\ fragment' = [type |-> TypeAt(file', x), data |-> DataAt(file', x)]
      BY <1>7, <2>3, <2>4, <2>6
    <3>2. own[x] = Wanted' /\ off[x] = Had' /\ (Continues(TypeAt(file', x)) <=> in_fragmented_record')
      BY <1>6, <2>4, <2>6
    <3>3. \A p \in Starts(file') : p < x /\ ~ GoesOn(TypeAt(file', p)) => own[p] < Wanted'
      BY <1>5, <2>4, <2>6 DEF ReadyAt, Passed
    <3> QED
      BY <3>1, <3>2, <3>3 DEF PendingAt, Passed
  <2>8. x \in Starts(file')
    BY <1>6, <2>4, <2>6
  <2>9. ReaderAt(own, off)'
    BY <2>4, <2>5, <2>7, <2>8 DEF ReaderAt
  <2> QED
    BY <2>3, <2>9
<1> QED
  BY <1>11, <1>12

(***************************************************************************)
(* ReadRecord.                                                             *)
(***************************************************************************)
LEMMA PartFacts ==
    ASSUME NEW r \in Nat, NEW a \in Nat, NEW n \in Nat
    PROVE  /\ Part(r, a, n) \in Seq(ByteCells) /\ Len(Part(r, a, n)) = n
           /\ \A k \in 1 .. n : Part(r, a, n)[k] = Byte(r, a + k)
<1>1. \A k \in 1 .. n : Byte(r, a + k) \in ByteCells
  BY DEF ByteCells
<1> QED
  BY <1>1 DEF Part

\* Two parts that follow each other are one.
LEMMA PartsJoin ==
    ASSUME NEW r \in Nat, NEW a \in Nat, NEW n \in Nat
    PROVE  Part(r, 0, a) \o Part(r, a, n) = Part(r, 0, a + n)
<1> DEFINE x == Part(r, 0, a)
           y == Part(r, a, n)
           z == Part(r, 0, a + n)
<1>1. /\ x \in Seq(ByteCells) /\ Len(x) = a /\ \A k \in 1 .. a : x[k] = Byte(r, 0 + k)
  BY PartFacts
<1>2. /\ y \in Seq(ByteCells) /\ Len(y) = n /\ \A k \in 1 .. n : y[k] = Byte(r, a + k)
  BY PartFacts
<1>3. /\ z \in Seq(ByteCells) /\ Len(z) = a + n /\ \A k \in 1 .. a + n : z[k] = Byte(r, 0 + k)
  <2>1. a + n \in Nat
    OBVIOUS
  <2> QED
    BY <2>1, PartFacts
<1> HIDE DEF x, y, z
<1>4. /\ x \o y \in Seq(ByteCells) /\ Len(x \o y) = a + n
      /\ \A k \in 1 .. a + n : (x \o y)[k] = IF k <= a THEN x[k] ELSE y[k - a]
  BY <1>1, <1>2, ConcatProperties
<1>5. \A k \in 1 .. a + n : (x \o y)[k] = z[k]
  <2> SUFFICES ASSUME NEW k \in 1 .. a + n PROVE (x \o y)[k] = z[k]
    OBVIOUS
  <2>1. CASE k <= a
    BY <1>1, <1>3, <1>4, <2>1
  <2>2. CASE ~ (k <= a)
    <3>1. k - a \in 1 .. n /\ a + (k - a) = k /\ 0 + k = k
      BY <2>2
    <3>2. y[k - a] = Byte(r, k) /\ z[k] = Byte(r, k)
      BY <1>2, <1>3, <3>1
    <3> QED
      BY <1>4, <2>2, <3>2
  <2> QED
    BY <2>1, <2>2
<1>6. x \o y = z
  BY <1>3, <1>4, <1>5
<1> QED
  BY <1>6 DEF x, y, z

\* What ReadPhysicalRecord has returned is a physical record of the file.
LEMMA FragmentGives ==
    ASSUME NEW own, NEW off, FileInv(own, off), ReaderAt(own, off)
    PROVE  /\ fragment.type \in RecordTypes \cup {"None", "Eof"}
           /\ fragment.type \in RecordTypes => \E p \in Starts(file) : PendingAt(p, own, off)
           /\ fragment.type = "Eof" => AllPassed(own)
<1>1. CASE ReadyAt(own, off)
  <2>1. fragment.type = "None"
    BY <1>1 DEF ReadyAt, None
  <2> QED
    BY <2>1 DEF RecordTypes
<1>2. CASE fragment.type = "Eof" /\ AllPassed(own)
  BY <1>2 DEF RecordTypes
<1>3. CASE \E p \in Starts(file) : PendingAt(p, own, off)
  <2>1. PICK p \in Starts(file) : PendingAt(p, own, off)
    BY <1>3
  <2>2. TypeAt(file, p) \in RecordTypes
    BY StartFacts DEF PartAt
  <2>3. fragment.type = TypeAt(file, p)
    BY <2>1 DEF PendingAt
  <2> QED
    BY <1>3, <2>2, <2>3 DEF RecordTypes
<1> QED
  BY <1>1, <1>2, <1>3 DEF ReaderAt

\* The physical record at p, of the record w from its first h bytes on, with the next n.
Pending(p, w, h, n, t, d, own, off) ==
    /\ p \in Nat /\ w \in Nat /\ h \in Nat /\ n \in Nat
    /\ w = Wanted /\ h = Had /\ t = TypeAt(file, p) /\ d = DataAt(file, p) /\ n = Len(d)
    /\ fragment.type = t /\ fragment.data = d
    /\ t \in RecordTypes
    /\ from = p + 3 + n /\ RecordOffset = p
    /\ (Continues(t) <=> in_fragmented_record)
    /\ w \in 1 .. Len(added) /\ d = Part(w, h, n)
    /\ ~ Continues(t) => h = 0 /\ added[w].start = p
    /\ ~ GoesOn(t) => h + n = added[w].size
    /\ \A q \in Starts(file) : q < from /\ ~ GoesOn(TypeAt(file, q)) => own[q] < (IF GoesOn(t) THEN w ELSE w + 1)
    /\ IF GoesOn(t) THEN Expects(file, from, TRUE, w, h + n, own, off)
       ELSE Expects(file, from, FALSE, w + 1, 0, own, off)

LEMMA PendingGives ==
    ASSUME NEW own, NEW off, FileInv(own, off), NEW p \in Starts(file), PendingAt(p, own, off)
    PROVE  Pending(p, Wanted, Had, Len(DataAt(file, p)), TypeAt(file, p), DataAt(file, p), own, off)
<1> DEFINE n == Len(DataAt(file, p))
           t == TypeAt(file, p)
           d == DataAt(file, p)
<1>1. /\ p \in Nat /\ n \in Nat /\ EndAt(file, p) = p + 3 + n
      /\ PartAt(file, p, added, own[p], off[p]) /\ After(file, p, own, off) /\ own[p] \in Nat /\ off[p] \in Nat
  BY StartFacts
<1>2. /\ EndAt(file, p) = from /\ fragment.type = t /\ fragment.data = d
      /\ own[p] = Wanted /\ off[p] = Had /\ (Continues(t) <=> in_fragmented_record) /\ Passed(p, own)
  BY DEF PendingAt
<1>3. /\ t \in RecordTypes /\ Wanted \in 1 .. Len(added) /\ d = Part(Wanted, Had, n)
      /\ ~ Continues(t) => Had = 0 /\ added[Wanted].start = p
      /\ ~ GoesOn(t) => Had + n = added[Wanted].size
  BY <1>1, <1>2 DEF PartAt
<1>4. IF GoesOn(t) THEN Expects(file, from, TRUE, Wanted, Had + n, own, off)
      ELSE Expects(file, from, FALSE, Wanted + 1, 0, own, off)
  BY <1>1, <1>2 DEF After
<1>5. RecordOffset = p
  <2>1. RecordOffset = from - 3 - n
    BY <1>2 DEF RecordOffset, kHeaderSize
  <2> HIDE DEF n
  <2> QED
    BY <1>1, <1>2, <2>1
<1>6. ASSUME NEW q \in Starts(file), q < from, ~ GoesOn(TypeAt(file, q))
      PROVE  own[q] < (IF GoesOn(t) THEN Wanted ELSE Wanted + 1)
  <2>1. own[q] \in Nat /\ q \in Nat /\ Wanted \in Nat
    BY <1>1, <1>2, StartFacts
  <2>2. CASE q < p
    <3>1. own[q] < Wanted
      BY <1>2, <1>6, <2>2 DEF Passed
    <3> QED
      BY <2>1, <3>1
  <2>3. CASE q = p
    <3>1. own[q] < Wanted + 1 /\ ~ GoesOn(t)
      BY <1>2, <1>6, <2>1, <2>3
    <3> QED
      BY <3>1
  <2>4. CASE p < q
    <3>1. EndAt(file, p) <= q
      BY <2>4 DEF FileInv, Written
    <3> QED
      BY <1>1, <1>2, <1>6, <2>1, <3>1
  <2> QED
    BY <1>1, <2>1, <2>2, <2>3, <2>4
<1>7. from = p + 3 + n /\ Wanted \in Nat /\ Had \in Nat
  BY <1>1, <1>2
<1> QED
  BY <1>1, <1>2, <1>3, <1>4, <1>5, <1>6, <1>7 DEF Pending

\* What ReadRecord leaves alone.
Taking == /\ UNCHANGED <<file, added, from, end_of_buffer_offset_, eof_>>
          /\ fragment' = None /\ resyncing_' = FALSE

\* ReadRecord takes up the physical record at p.
LEMMA TakenKeeps ==
    ASSUME NEW own, NEW off, BufferAt, Taking, Assembly', NEW p, NEW w, NEW h, NEW n, NEW t, NEW d,
           Pending(p, w, h, n, t, d, own, off), in_fragmented_record' = (IF GoesOn(t) THEN TRUE ELSE FALSE),
           Wanted' = (IF GoesOn(t) THEN w ELSE w + 1), Had' = (IF GoesOn(t) THEN h + n ELSE 0)
    PROVE  ReaderAt(own, off)'
<1>1. BufferAt'
  BY DEF BufferAt, Taking
<1>2. Passed(from, own)'
  BY DEF Pending, Passed, Taking
<1>3. Expects(file, from, in_fragmented_record', Wanted', Had', own, off)
  <2>1. CASE GoesOn(t)
    <3>1. in_fragmented_record' = TRUE
      BY <2>1
    <3> QED
      BY <2>1, <3>1 DEF Pending
  <2>2. CASE ~ GoesOn(t)
    <3>1. in_fragmented_record' = FALSE
      BY <2>2
    <3> QED
      BY <2>2, <3>1 DEF Pending
  <2> QED
    BY <2>1, <2>2
<1>4. ReadyAt(own, off)'
  BY <1>2, <1>3 DEF ReadyAt, Taking
<1> QED
  BY <1>1, <1>4 DEF ReaderAt, Taking

\* ReadRecord returns the record wanted.
LEMMA ReturnKeeps ==
    ASSUME NEW own, NEW off, ReaderAt(own, off), ComeBack, Taking, added \in Seq(Records), NEW p, NEW w, NEW h, NEW n, NEW t, NEW d,
           Pending(p, w, h, n, t, d, own, off), ~ GoesOn(t), NEW c, NEW o, ReturnRecord(c, o),
           c = Payload(w), o = added[w].start, o # -1
    PROVE  ReaderAt(own, off)' /\ ComeBack'
<1>1. /\ returned' = Append(returned, [data |-> c, offset |-> o]) /\ in_fragmented_record' = FALSE
  BY DEF ReturnRecord
<1>2. /\ w = Len(returned) + 1 /\ w \in Nat /\ w \in 1 .. Len(added)
  BY DEF Pending, Wanted
<1>3. added[w] \in Records /\ added' = added
  BY <1>2 DEF Taking
<1>4. [data |-> c, offset |-> o] \in [data : Seq(ByteCells), offset : Int]
  <2>1. added[w].size \in Nat /\ added[w].start \in Int
    BY <1>3 DEF Records
  <2>2. c \in Seq(ByteCells)
    <3>1. \A k \in 1 .. added[w].size : Byte(w, k) \in ByteCells
      BY <1>2, <2>1 DEF ByteCells
    <3> QED
      BY <2>1, <3>1 DEF Payload
  <2> QED
    BY <2>1, <2>2
<1>5. /\ returned' \in Seq([data : Seq(ByteCells), offset : Int]) /\ Len(returned') = w
      /\ returned'[w] = [data |-> c, offset |-> o]
      /\ \A j \in 1 .. Len(returned) : returned'[j] = returned[j]
  BY <1>1, <1>2, <1>4, AppendProperties DEF ComeBack
<1>6. Wanted' = w + 1 /\ Had' = 0
  BY <1>1, <1>5 DEF Wanted, Had
<1>7. Assembly' /\ BufferAt
  BY <1>1 DEF Assembly, ReaderAt
<1>8. in_fragmented_record' = (IF GoesOn(t) THEN TRUE ELSE FALSE)
  BY <1>1
<1>9. ReaderAt(own, off)'
  BY <1>6, <1>7, <1>8, TakenKeeps
<1>10. \A j \in 1 .. w : /\ j \in 1 .. Len(added) /\ added[j].start # -1
                         /\ returned'[j] = [data |-> Payload(j), offset |-> added[j].start]
  <2> SUFFICES ASSUME NEW j \in 1 .. w
               PROVE  /\ j \in 1 .. Len(added) /\ added[j].start # -1
                      /\ returned'[j] = [data |-> Payload(j), offset |-> added[j].start]
    OBVIOUS
  <2>1. CASE j = w
    BY <1>2, <1>5, <2>1
  <2>2. CASE j # w
    <3>1. Len(returned) \in Nat
      BY DEF ComeBack
    <3>2. j \in 1 .. Len(returned)
      BY <1>2, <2>2, <3>1
    <3> QED
      BY <1>5, <3>2 DEF ComeBack
  <2> QED
    BY <2>1, <2>2
<1>11. ComeBack'
  BY <1>3, <1>5, <1>10 DEF ComeBack, Payload
<1> QED
  BY <1>9, <1>11

\* What the actions that take up a physical record have in common.
LEMMA TakesGives ==
    ASSUME NEW own, NEW off, FileInv(own, off), ReaderAt(own, off), NEW types, Takes(types), types \subseteq RecordTypes
    PROVE  /\ Taking /\ fragment.type \in types
           /\ \E p, w, h, n, t, d : Pending(p, w, h, n, t, d, own, off)
<1>1. Taking /\ fragment.type \in types
  BY DEF Takes, Taking, writer, physical
<1>2. PICK p \in Starts(file) : PendingAt(p, own, off)
  BY <1>1, FragmentGives
<1>3. Pending(p, Wanted, Had, Len(DataAt(file, p)), TypeAt(file, p), DataAt(file, p), own, off)
  BY <1>2, PendingGives
<1> QED
  BY <1>1, <1>3

LEMMA TakeFullKeeps ==
    ASSUME NEW own, NEW off, FileInv(own, off), ReaderAt(own, off), ComeBack, TakeFull
    PROVE  ReaderAt(own, off)' /\ ComeBack' /\ reports' = reports
<1>1. Takes({"Full"}) /\ GiveUp("partial record without end(1)") /\ ReturnRecord(fragment.data, RecordOffset)
  BY DEF TakeFull
<1>2. /\ Taking /\ fragment.type \in {"Full"}
      /\ \E p, w, h, n, t, d : Pending(p, w, h, n, t, d, own, off)
  BY <1>1, TakesGives DEF RecordTypes
<1>3. PICK p, w, h, n, t, d : Pending(p, w, h, n, t, d, own, off)
  BY <1>2
<1>4. t = "Full" /\ ~ Continues(t) /\ ~ GoesOn(t) /\ ~ in_fragmented_record
  BY <1>2, <1>3 DEF Pending, Continues, GoesOn
<1>5. reports' = reports
  BY <1>1, <1>4 DEF GiveUp
<1>6. ReturnRecord(d, p) /\ p = added[w].start /\ p # -1
  <2>1. fragment.data = d /\ RecordOffset = p /\ p = added[w].start /\ p # -1
    BY <1>3, <1>4 DEF Pending
  <2> QED
    BY <1>1, <2>1
<1>7. d = Payload(w)
  <2>1. d = Part(w, 0, n) /\ n = added[w].size /\ n \in Nat
    BY <1>3, <1>4 DEF Pending
  <2>2. \A k \in 1 .. n : 0 + k = k
    BY <2>1
  <2> QED
    BY <2>1, <2>2 DEF Part, Payload
<1>8. added \in Seq(Records)
  BY DEF FileInv
<1> QED
  BY <1>2, <1>3, <1>4, <1>5, <1>6, <1>7, <1>8, ReturnKeeps

LEMMA TakeLastKeeps ==
    ASSUME NEW own, NEW off, FileInv(own, off), ReaderAt(own, off), ComeBack, TakeLast
    PROVE  ReaderAt(own, off)' /\ ComeBack' /\ reports' = reports
<1>1. Takes({"Last"})
  BY DEF TakeLast
<1>2. /\ Taking /\ fragment.type \in {"Last"}
      /\ \E p, w, h, n, t, d : Pending(p, w, h, n, t, d, own, off)
  BY <1>1, TakesGives DEF RecordTypes
<1>3. PICK p, w, h, n, t, d : Pending(p, w, h, n, t, d, own, off)
  BY <1>2
<1>4. t = "Last" /\ ~ GoesOn(t) /\ in_fragmented_record
  BY <1>2, <1>3 DEF Pending, Continues, GoesOn
<1>5. reports' = reports /\ ReturnRecord(scratch \o fragment.data, prospective_record_offset)
  BY <1>4 DEF TakeLast
<1>6. /\ w = Wanted /\ h = Len(scratch) /\ w \in Nat /\ h \in Nat /\ n \in Nat /\ fragment.data = d
      /\ d = Part(w, h, n) /\ h + n = added[w].size
  BY <1>3, <1>4 DEF Pending, Had
<1>7. scratch = Part(w, 0, h) /\ prospective_record_offset = added[w].start /\ added[w].start # -1
  BY <1>4, <1>6 DEF ReaderAt, Assembly
<1>8. PICK c, o : c = scratch \o fragment.data /\ o = prospective_record_offset
  OBVIOUS
<1>9. c = Payload(w)
  <2>1. c = Part(w, 0, h + n)
    <3>1. Part(w, 0, h) \o Part(w, h, n) = Part(w, 0, h + n)
      BY <1>6, PartsJoin
    <3> QED
      BY <1>6, <1>7, <1>8, <3>1
  <2>2. \A k \in 1 .. h + n : 0 + k = k
    BY <1>6
  <2> QED
    BY <1>6, <2>1, <2>2 DEF Part, Payload
<1>10. ReturnRecord(c, o) /\ o = added[w].start /\ o # -1
  BY <1>5, <1>7, <1>8
<1>11. added \in Seq(Records)
  BY DEF FileInv
<1>12. ReaderAt(own, off)' /\ ComeBack'
  BY <1>2, <1>3, <1>4, <1>9, <1>10, <1>11, ReturnKeeps
<1> QED
  BY <1>5, <1>12

LEMMA TakeFirstKeeps ==
    ASSUME NEW own, NEW off, FileInv(own, off), ReaderAt(own, off), TakeFirst
    PROVE  ReaderAt(own, off)' /\ UNCHANGED <<added, returned, reports>>
<1>1. /\ Takes({"First"}) /\ GiveUp("partial record without end(2)") /\ prospective_record_offset' = RecordOffset
      /\ scratch' = fragment.data /\ in_fragmented_record' = TRUE /\ returned' = returned
  BY DEF TakeFirst
<1>2. /\ Taking /\ fragment.type \in {"First"}
      /\ \E p, w, h, n, t, d : Pending(p, w, h, n, t, d, own, off)
  BY <1>1, TakesGives DEF RecordTypes
<1>3. PICK p, w, h, n, t, d : Pending(p, w, h, n, t, d, own, off)
  BY <1>2
<1>4. t = "First" /\ ~ Continues(t) /\ GoesOn(t) /\ ~ in_fragmented_record
  BY <1>2, <1>3 DEF Pending, Continues, GoesOn
<1>5. reports' = reports /\ added' = added
  BY <1>1, <1>2, <1>4 DEF GiveUp, Taking
<1>6. /\ w \in Nat /\ w = Wanted /\ n \in Nat /\ n = Len(d) /\ d = Part(w, 0, n) /\ h = 0 /\ p = added[w].start /\ p # -1
      /\ w \in 1 .. Len(added) /\ RecordOffset = p /\ fragment.data = d /\ h + n = n
  BY <1>3, <1>4 DEF Pending
<1>7. Wanted' = w /\ Had' = h + n
  BY <1>1, <1>6 DEF Wanted, Had
<1>8. Assembly'
  BY <1>1, <1>5, <1>6, <1>7 DEF Assembly
<1>9. in_fragmented_record' = (IF GoesOn(t) THEN TRUE ELSE FALSE)
  BY <1>1, <1>4
<1>10. BufferAt
  BY DEF ReaderAt
<1>11. ReaderAt(own, off)'
  BY <1>2, <1>3, <1>4, <1>7, <1>8, <1>9, <1>10, TakenKeeps
<1> QED
  BY <1>1, <1>5, <1>11

LEMMA TakeMiddleKeeps ==
    ASSUME NEW own, NEW off, FileInv(own, off), ReaderAt(own, off), TakeMiddle
    PROVE  ReaderAt(own, off)' /\ UNCHANGED <<added, returned, reports>>
<1>1. /\ Takes({"Middle"}) /\ UNCHANGED <<in_fragmented_record, prospective_record_offset, returned>>
  BY DEF TakeMiddle
<1>2. /\ Taking /\ fragment.type \in {"Middle"}
      /\ \E p, w, h, n, t, d : Pending(p, w, h, n, t, d, own, off)
  BY <1>1, TakesGives DEF RecordTypes
<1>3. PICK p, w, h, n, t, d : Pending(p, w, h, n, t, d, own, off)
  BY <1>2
<1>4. t = "Middle" /\ GoesOn(t) /\ in_fragmented_record
  BY <1>2, <1>3 DEF Pending, Continues, GoesOn
<1>5. reports' = reports /\ added' = added /\ scratch' = scratch \o fragment.data
  BY <1>2, <1>4 DEF TakeMiddle, Taking
<1>6. /\ w = Wanted /\ h = Len(scratch) /\ w \in Nat /\ h \in Nat /\ n \in Nat /\ fragment.data = d
      /\ d = Part(w, h, n) /\ w \in 1 .. Len(added)
  BY <1>3, <1>4 DEF Pending, Had
<1>7. /\ scratch = Part(w, 0, h) /\ prospective_record_offset = added[w].start /\ added[w].start # -1
      /\ in_fragmented_record = TRUE
  BY <1>4, <1>6 DEF ReaderAt, Assembly
<1>8. scratch' = Part(w, 0, h + n) /\ Len(scratch') = h + n /\ h + n \in Nat
  <2>1. scratch' = Part(w, 0, h + n) /\ h + n \in Nat
    <3>1. Part(w, 0, h) \o Part(w, h, n) = Part(w, 0, h + n)
      BY <1>6, PartsJoin
    <3>2. h + n \in Nat
      BY <1>6
    <3> QED
      BY <1>5, <1>6, <1>7, <3>1, <3>2
  <2> QED
    BY <1>6, <2>1, PartFacts
<1>9. Wanted' = w /\ Had' = h + n
  BY <1>1, <1>4, <1>6, <1>8 DEF Wanted, Had
<1>10. Assembly'
  BY <1>1, <1>5, <1>6, <1>7, <1>8, <1>9 DEF Assembly
<1>11. in_fragmented_record' = (IF GoesOn(t) THEN TRUE ELSE FALSE)
  BY <1>1, <1>4, <1>7
<1>12. BufferAt
  BY DEF ReaderAt
<1>13. ReaderAt(own, off)'
  BY <1>2, <1>3, <1>4, <1>9, <1>10, <1>11, <1>12, TakenKeeps
<1> QED
  BY <1>1, <1>5, <1>13

(***************************************************************************)
(* The invariant and the theorems.                                         *)
(***************************************************************************)
\* One session wrote the log, and the Reader reads it from the start without a failure.
Clean == faults = 0 /\ ~ read_failed /\ initial_offset_ = 0

LogAt(own, off) ==
    /\ FileInv(own, off) /\ ComeBack /\ reports = {}
    /\ \/ phase \in {"idle", "adding"} /\ WriterAt(own, off) /\ ReaderNew
       \/ phase = "closed" /\ ReaderNew
       \/ phase = "reading" /\ ReaderAt(own, off)
       \/ phase = "end" /\ AllPassed(own)

LogInv == faults \in Nat /\ (Clean => \E own, off : LogAt(own, off))

LEMMA LogInit == Init => LogInv
<1> SUFFICES ASSUME Init, Clean PROVE \E own, off : LogAt(own, off)
  <2>1. Init => faults \in Nat
    <3>1. Init => faults = 0
      BY DEF Init
    <3> QED
      BY <3>1
  <2> QED
    BY <2>1 DEF LogInv
<1> DEFINE z == [p \in Nat |-> 0]
<1>1. /\ file = <<>> /\ added = <<>> /\ phase = "idle" /\ block_offset_ = 0 /\ returned = <<>> /\ reports = {}
      /\ faults = 0
  BY DEF Init
<1>2. z \in [Nat -> Nat] /\ file \in Seq(Cells) /\ added \in Seq(Records) /\ Len(file) = 0 /\ Len(added) = 0 /\ Starts(file) = {}
  <2>1. z \in [Nat -> Nat] /\ Len(file) = 0 /\ Len(added) = 0
    BY <1>1
  <2>2. Starts(file) = {}
    BY <2>1 DEF Starts
  <2> QED
    BY <1>1, <2>1, <2>2
<1> HIDE DEF z
<1>3. Written(file, added, z, z)
  <2>1. ~ (Follow(0) < Len(file))
    BY <1>2, FollowFacts
  <2> QED
    BY <1>2, <2>1 DEF Written, Expects
<1>4. FileInv(z, z)
  <2>1. Whole(file, added, z) /\ Ordered(added)
    BY <1>2 DEF Whole, Ordered
  <2> QED
    BY <1>2, <1>3, <2>1 DEF FileInv
<1>5. WriterAt(z, z)
  <2>1. Room(0) = kBlockSize /\ kBlockSize \in Nat /\ kBlockSize > 0
    BY RoomFacts, LogAssumption DEF kHeaderSize
  <2>2. block_offset_ \in 0 .. kBlockSize /\ Room(Len(file)) = IF block_offset_ = kBlockSize THEN kBlockSize ELSE kBlockSize - block_offset_
    BY <1>1, <1>2, <2>1
  <2>3. ~ Open /\ Coming = 1
    BY <1>1, <1>2 DEF Open, Coming, Current
  <2> QED
    BY <1>1, <1>2, <2>2, <2>3 DEF WriterAt
<1>6. ReaderNew
  <2>1. resyncing_ = FALSE
    <3>1. resyncing_ = (initial_offset_ > 0) /\ initial_offset_ = 0
      BY Zenon DEF Init, Clean
    <3>2. resyncing_ = (0 > 0)
      BY <3>1, Zenon
    <3>3. (0 > 0) = FALSE
      OBVIOUS
    <3> QED
      BY <3>2, <3>3, Zenon
  <2> QED
    BY <2>1 DEF Init, ReaderNew
<1>7. ComeBack
  BY <1>1 DEF ComeBack
<1>8. LogAt(z, z)
  BY <1>1, <1>4, <1>5, <1>6, <1>7 DEF LogAt
<1> QED
  BY <1>1, <1>8

LEMMA FileSame ==
    ASSUME NEW own, NEW off, FileInv(own, off), UNCHANGED <<file, added>>
    PROVE  FileInv(own, off)'
BY DEF FileInv

LEMMA ReaderSame ==
    ASSUME ReaderNew, UNCHANGED reader, reports = {}
    PROVE  ReaderNew' /\ ComeBack' /\ reports' = {}
<1>1. ReaderNew' /\ reports' = {}
  BY DEF ReaderNew, reader, physical, logical
<1>2. returned' = <<>>
  BY <1>1 DEF ReaderNew
<1> QED
  BY <1>1, <1>2 DEF ComeBack

LEMMA ComeBackSame ==
    ASSUME ComeBack, UNCHANGED <<added, returned>>
    PROVE  ComeBack'
BY DEF ComeBack, Payload

LEMMA CleanBefore ==
    ASSUME LogInv, Next, Clean'
    PROVE  /\ Clean /\ ~ AppendFails /\ ~ Corrupt /\ ~ Reopen /\ ~ SkipFails /\ ~ ReadFails
           /\ \E own, off : LogAt(own, off)
<1>1. faults \in Nat /\ faults' = 0 /\ ~ read_failed' /\ initial_offset_' = 0
  BY DEF LogInv, Clean
<1>2. ~ AppendFails /\ ~ Corrupt /\ ~ Reopen
  <2>1. faults' # faults + 1
    BY <1>1
  <2> QED
    BY <2>1 DEF AppendFails, Corrupt, Reopen
<1>3. ~ SkipFails /\ ~ ReadFails
  BY <1>1 DEF SkipFails, ReadFails
<1>4. UNCHANGED <<faults, read_failed, initial_offset_>>
  <2> USE DEF writer, reader
  <2>1. CASE \E n \in Sizes : AddRecord(n)
    BY <2>1 DEF AddRecord
  <2>2. CASE EmitPhysicalRecord
    BY <2>2 DEF EmitPhysicalRecord, Emit
  <2>3. CASE EndSession
    BY <2>3 DEF EndSession
  <2>4. CASE SkipToInitialBlock
    BY <2>4 DEF SkipToInitialBlock
  <2>5. CASE ReadBlock
    BY <2>5 DEF ReadBlock
  <2>6. CASE ReadEof
    BY <2>6 DEF ReadEof
  <2>7. CASE ReadPhysicalRecord
    BY <2>7 DEF ReadPhysicalRecord
  <2>8. CASE PassOver
    BY <2>8 DEF PassOver
  <2>9. CASE TakeFull \/ TakeFirst \/ TakeMiddle \/ TakeLast \/ TakeBad \/ TakeEof
    BY <2>9 DEF TakeFull, TakeFirst, TakeMiddle, TakeLast, TakeBad, TakeEof, Takes
  <2>10. CASE End
    BY <2>10 DEF End, vars
  <2> QED
    BY <1>2, <1>3, <2>1, <2>2, <2>3, <2>4, <2>5, <2>6, <2>7, <2>8, <2>9, <2>10 DEF Next
<1>5. Clean
  BY <1>1, <1>4 DEF Clean
<1> QED
  BY <1>2, <1>3, <1>5 DEF LogInv

LEMMA LogNext ==
    ASSUME LogInv, Next, Clean'
    PROVE  \E own, off : LogAt(own, off)'
<1>1. /\ Clean /\ ~ AppendFails /\ ~ Corrupt /\ ~ Reopen /\ ~ SkipFails /\ ~ ReadFails
      /\ \E own, off : LogAt(own, off)
  BY CleanBefore
<1>2. PICK own, off : LogAt(own, off)
  BY <1>1
<1>3. FileInv(own, off) /\ ComeBack /\ reports = {} /\ initial_offset_ = 0
  BY <1>1, <1>2 DEF LogAt, Clean
<1>4. /\ phase \in {"idle", "adding"} => WriterAt(own, off) /\ ReaderNew
      /\ phase = "closed" => ReaderNew
      /\ phase = "reading" => ReaderAt(own, off)
      /\ phase = "end" => AllPassed(own)
  BY <1>2 DEF LogAt
<1>5. ASSUME NEW n \in Sizes, AddRecord(n) PROVE LogAt(own, off)'
  <2>1. phase = "idle" /\ phase' = "adding" /\ UNCHANGED reader
    BY <1>5 DEF AddRecord
  <2>2. n \in Nat
    BY LogAssumption
  <2>3. FileInv(own, off)' /\ WriterAt(own, off)'
    BY <1>3, <1>4, <1>5, <2>1, <2>2, AddRecordKeeps
  <2>4. ReaderNew' /\ ComeBack' /\ reports' = {}
    BY <1>3, <1>4, <2>1, ReaderSame
  <2> QED
    BY <2>1, <2>3, <2>4 DEF LogAt
<1>6. CASE EmitPhysicalRecord
  <2>1. phase = "adding" /\ phase' \in {"idle", "adding"} /\ UNCHANGED reader
    BY <1>6 DEF EmitPhysicalRecord, Emit
  <2>2. PICK own2, off2 : FileInv(own2, off2)' /\ WriterAt(own2, off2)'
    BY <1>3, <1>4, <1>6, <2>1, EmitKeeps
  <2>3. ReaderNew' /\ ComeBack' /\ reports' = {}
    BY <1>3, <1>4, <2>1, ReaderSame
  <2>4. LogAt(own2, off2)'
    BY <2>1, <2>2, <2>3 DEF LogAt
  <2> QED
    BY <2>4
<1>7. CASE EndSession
  <2>1. phase \in {"idle", "adding"} /\ phase' = "closed" /\ UNCHANGED reader
    BY <1>7 DEF EndSession
  <2>2. FileInv(own, off)'
    BY <1>3, <1>7, EndSessionKeeps
  <2>3. ReaderNew' /\ ComeBack' /\ reports' = {}
    BY <1>3, <1>4, <2>1, ReaderSame
  <2>4. LogAt(own, off)'
    BY <2>1, <2>2, <2>3 DEF LogAt
  <2> QED
    BY <2>4
<1>8. ASSUME phase' = "reading", UNCHANGED <<file, added, returned, reports>>, ReaderAt(own, off)'
      PROVE  LogAt(own, off)'
  <2>1. FileInv(own, off)' /\ ComeBack'
    BY <1>3, <1>8, FileSame, ComeBackSame
  <2> QED
    BY <1>3, <1>8, <2>1 DEF LogAt
<1>9. CASE SkipToInitialBlock
  <2>1. phase = "closed" /\ phase' = "reading" /\ UNCHANGED <<file, added, returned, reports>>
    BY <1>9 DEF SkipToInitialBlock, writer, logical
  <2>2. ReaderAt(own, off)'
    BY <1>3, <1>4, <1>9, <2>1, SkipKeeps
  <2> QED
    BY <1>8, <2>1, <2>2
<1>10. CASE ReadBlock
  <2>1. phase = "reading" /\ phase' = "reading" /\ UNCHANGED <<file, added, returned, reports>>
    BY <1>10 DEF ReadBlock, Ready, writer, logical
  <2>2. ReaderAt(own, off)'
    BY <1>3, <1>4, <1>10, <2>1, ReadBlockKeeps
  <2> QED
    BY <1>8, <2>1, <2>2
<1>11. CASE ReadEof
  <2>1. phase = "reading" /\ phase' = "reading" /\ UNCHANGED <<file, added, returned, reports>>
    BY <1>11 DEF ReadEof, Ready, writer, logical
  <2>2. ReaderAt(own, off)'
    BY <1>3, <1>4, <1>11, <2>1, ReadEofKeeps
  <2> QED
    BY <1>8, <2>1, <2>2
<1>12. CASE ReadPhysicalRecord
  <2>1. phase = "reading" /\ phase' = "reading" /\ UNCHANGED <<file, added, returned>>
    BY <1>12 DEF ReadPhysicalRecord, Ready, writer, logical
  <2>2. ReaderAt(own, off)' /\ reports' = reports
    BY <1>3, <1>4, <1>12, <2>1, ReadPhysicalRecordKeeps
  <2> QED
    BY <1>8, <2>1, <2>2
<1>13. phase = "reading" => resyncing_ = FALSE /\ fragment.type \in RecordTypes \cup {"None", "Eof"}
  BY <1>3, <1>4, FragmentGives DEF ReaderAt
<1>14. ~ PassOver /\ ~ TakeBad
  BY <1>13 DEF PassOver, TakeBad, Takes, RecordTypes
<1>15. CASE TakeFull \/ TakeLast
  <2>1. phase = "reading" /\ phase' = "reading" /\ UNCHANGED <<file, added>>
    BY <1>15 DEF TakeFull, TakeLast, Takes, ReturnRecord, writer
  <2>2. ReaderAt(own, off)' /\ ComeBack' /\ reports' = reports
    BY <1>3, <1>4, <1>15, <2>1, TakeFullKeeps, TakeLastKeeps
  <2>3. FileInv(own, off)'
    BY <1>3, <2>1, FileSame
  <2>4. LogAt(own, off)'
    BY <1>3, <2>1, <2>2, <2>3 DEF LogAt
  <2> QED
    BY <2>4
<1>16. CASE TakeFirst \/ TakeMiddle
  <2>1. phase = "reading" /\ phase' = "reading" /\ UNCHANGED <<file, added>>
    BY <1>16 DEF TakeFirst, TakeMiddle, Takes, writer
  <2>2. ReaderAt(own, off)' /\ UNCHANGED <<added, returned, reports>>
    BY <1>3, <1>4, <1>16, <2>1, TakeFirstKeeps, TakeMiddleKeeps
  <2> QED
    BY <1>8, <2>1, <2>2
<1>17. CASE TakeEof
  <2>1. /\ phase = "reading" /\ phase' = "end" /\ fragment.type = "Eof" /\ UNCHANGED <<file, added, returned, reports>>
    BY <1>17 DEF TakeEof, Takes, writer
  <2>2. FileInv(own, off)' /\ ComeBack'
    BY <1>3, <2>1, FileSame, ComeBackSame
  <2>3. AllPassed(own)
    BY <1>3, <1>4, <2>1, FragmentGives
  <2>4. AllPassed(own)'
    BY <2>1, <2>3 DEF AllPassed, Wanted
  <2>5. LogAt(own, off)'
    BY <1>3, <2>1, <2>2, <2>4 DEF LogAt
  <2> QED
    BY <2>5
<1>18. CASE End
  <2>1. phase = "end" /\ phase' = "end" /\ UNCHANGED <<file, added, returned, reports>>
    BY <1>18 DEF End, vars, writer, reader, logical
  <2>2. FileInv(own, off)' /\ ComeBack'
    BY <1>3, <2>1, FileSame, ComeBackSame
  <2>3. AllPassed(own)'
    BY <1>4, <2>1 DEF AllPassed, Wanted
  <2>4. LogAt(own, off)'
    BY <1>3, <2>1, <2>2, <2>3 DEF LogAt
  <2> QED
    BY <2>4
<1> QED
  BY <1>1, <1>5, <1>6, <1>7, <1>9, <1>10, <1>11, <1>12, <1>14, <1>15, <1>16, <1>17, <1>18 DEF Next

\* As long as nothing has failed, the file, the Writer and the Reader agree on which part of
\* which record is where.
THEOREM LogInvariant == Spec => []LogInv
<1>1. LogInv /\ [Next]_vars => LogInv'
  <2> SUFFICES ASSUME LogInv, [Next]_vars PROVE LogInv'
    OBVIOUS
  <2>1. CASE Next
    <3>1. faults' \in Nat
      <4> USE DEF writer, reader
      <4>1. faults \in Nat
        BY DEF LogInv
      <4>2. faults' \in {faults, faults + 1}
        BY <2>1 DEF Next, AddRecord, EmitPhysicalRecord, Emit, AppendFails, EndSession, Corrupt, Reopen, SkipToInitialBlock, SkipFails,
             ReadBlock, ReadFails, ReadEof, ReadPhysicalRecord, PassOver, TakeFull, TakeFirst, TakeMiddle, TakeLast, TakeBad,
             TakeEof, Takes, End, vars
      <4> QED
        BY <4>1, <4>2
    <3>2. Clean' => \E own, off : LogAt(own, off)'
      BY <2>1, LogNext
    <3> QED
      BY <3>1, <3>2 DEF LogInv
  <2>2. CASE UNCHANGED vars
    <3>1. /\ UNCHANGED <<file, block_offset_, added, done, phase, faults, initial_offset_, from, end_of_buffer_offset_, eof_>>
          /\ UNCHANGED <<resyncing_, last_record_offset_, fragment, in_fragmented_record, scratch>>
          /\ UNCHANGED <<prospective_record_offset, returned, read_failed, reports>>
      BY <2>2 DEF vars, writer, reader, physical, logical
    <3>2. faults' \in Nat /\ (Clean' => Clean)
      BY <3>1 DEF LogInv, Clean
    <3>3. ASSUME NEW own, NEW off, LogAt(own, off) PROVE LogAt(own, off)'
      <4>1. FileInv(own, off)' /\ ComeBack'
        BY <3>1, <3>3, FileSame, ComeBackSame DEF LogAt
      <4>2. WriterAt(own, off) => WriterAt(own, off)'
        BY <3>1 DEF WriterAt, Open, Coming, Current, LastAt, Adding
      <4>3. ReaderNew => ReaderNew'
        BY <3>1 DEF ReaderNew
      <4>4. AllPassed(own) => AllPassed(own)'
        BY <3>1 DEF AllPassed, Wanted
      <4>5. ReaderAt(own, off) => ReaderAt(own, off)'
        BY <3>1, <4>4 DEF ReaderAt, BufferAt, Assembly, ReadyAt, PendingAt, Passed, Wanted, Had
      <4> QED
        BY <3>1, <3>3, <4>1, <4>2, <4>3, <4>4, <4>5 DEF LogAt
    <3> QED
      BY <3>2, <3>3 DEF LogInv
  <2> QED
    BY <2>1, <2>2
<1> QED
  BY <1>1, LogInit, PTL DEF Spec

\* A writer that died is not an error: for every block size, a log that one session wrote is
\* read from the start without a report.
THEOREM NoFalseAlarmAlways == Spec => []NoFalseAlarm
<1>1. LogInv => NoFalseAlarm
  BY DEF LogInv, LogAt, Clean, NoFalseAlarm
<1> QED
  BY <1>1, LogInvariant, PTL

\* What is read of a log that one session wrote.
RoundTrip == Clean => NoInventedRecord /\ DamageIsLocal

\* For every block size, all record sizes and wherever the session's file is cut: ReadRecord
\* returns the records added, whole, in order and at their offsets, and when it returns false
\* every record that is whole in the file has been returned.
THEOREM LogRoundTrip == Spec => []RoundTrip
<1>1. LogInv => RoundTrip
  <2> SUFFICES ASSUME LogInv, Clean PROVE NoInventedRecord /\ DamageIsLocal
    BY DEF RoundTrip
  <2>1. PICK own, off : LogAt(own, off)
    BY DEF LogInv
  <2>2. ComeBack /\ FileInv(own, off)
    BY <2>1 DEF LogAt
  <2>3. /\ Len(returned) \in Nat /\ Len(added) \in Nat
        /\ \A j \in 1 .. Len(returned) :
            /\ j \in 1 .. Len(added) /\ added[j].start # -1
            /\ returned[j].data = Payload(j) /\ returned[j].offset = added[j].start
    <3>1. Len(returned) \in Nat /\ Len(added) \in Nat
      <4>1. \E S : returned \in Seq(S)
        BY <2>2, Zenon DEF ComeBack
      <4>2. \E S : added \in Seq(S)
        BY <2>2, Zenon DEF FileInv
      <4> QED
        BY <4>1, <4>2
    <3>2. ASSUME NEW j \in 1 .. Len(returned)
          PROVE  /\ j \in 1 .. Len(added) /\ added[j].start # -1
                 /\ returned[j] = [data |-> Payload(j), offset |-> added[j].start]
      BY <2>2 DEF ComeBack
    <3>3. ASSUME NEW j \in 1 .. Len(returned)
          PROVE  returned[j].data = Payload(j) /\ returned[j].offset = added[j].start
      <4>1. PICK c, o : c = Payload(j) /\ o = added[j].start
        OBVIOUS
      <4>2. returned[j] = [data |-> c, offset |-> o]
        BY <3>2, <4>1
      <4>3. returned[j].data = c /\ returned[j].offset = o
        BY <4>2
      <4> QED
        BY <4>1, <4>3
    <3> QED
      BY <3>1, <3>2, <3>3
  <2>4. NoInventedRecord
    <3>1. ASSUME NEW j \in 1 .. Len(returned) - 1 PROVE returned[j].offset < returned[j + 1].offset
      <4>1. j \in 1 .. Len(returned) /\ j + 1 \in 1 .. Len(returned) /\ j < j + 1
        BY <2>3
      <4>2. j \in 1 .. Len(added) /\ j + 1 \in 1 .. Len(added)
        BY <2>3, <4>1
      <4>3. added[j + 1].start = -1 \/ added[j].start < added[j + 1].start
        BY <2>2, <4>1, <4>2 DEF FileInv, Ordered
      <4> QED
        BY <2>3, <4>1, <4>3
    <3> QED
      BY <2>3, <3>1 DEF NoInventedRecord
  <2>5. DamageIsLocal
    <3> SUFFICES ASSUME phase = "end", NEW r \in 1 .. Len(added), added[r].end # -1
                 PROVE  \E j \in 1 .. Len(returned) : returned[j].offset = added[r].start
      BY DEF DamageIsLocal
    <3>1. AllPassed(own)
      BY <2>1 DEF LogAt
    <3>2. PICK p \in Starts(file) : own[p] = r /\ ~ GoesOn(TypeAt(file, p)) /\ EndAt(file, p) <= Len(file)
      BY <2>2 DEF FileInv, Whole
    <3>3. r < Len(returned) + 1
      BY <3>1, <3>2 DEF AllPassed, Wanted
    <3>4. r \in 1 .. Len(returned)
      BY <2>3, <3>3
    <3> QED
      BY <2>3, <3>4
  <2> QED
    BY <2>4, <2>5
<1> QED
  BY <1>1, LogInvariant, PTL
=============================================================================
