--------------------------- MODULE MemTableProofs ---------------------------
(***************************************************************************)
(* Proofs about the in-memory table, for any set of user keys, sequence    *)
(* numbers and sizes, and any user comparator that keeps the contract of   *)
(* include/comparator.h, which IsTotalOrder states.  The contract is a     *)
(* hypothesis of the theorems and no assumption of the model: the          *)
(* repository's own bytewise comparison does not keep it.                  *)
(***************************************************************************)
EXTENDS MemTable, SequenceTheorems, FiniteSetTheorems, WellFoundedInduction, TLAPS

\* Comparator::Compare is a three-way comparison: a total order, and 0 means equal.
IsTotalOrder(cmp(_, _), Keys) ==
    /\ \A a, b \in Keys : cmp(a, b) \in Int
    /\ \A a, b \in Keys : cmp(a, b) = 0 <=> a = b
    /\ \A a, b \in Keys : cmp(a, b) < 0 <=> cmp(b, a) > 0
    /\ \A a, b, c \in Keys : cmp(a, b) < 0 /\ cmp(b, c) < 0 => cmp(a, c) < 0

ByteStrings == Seq(0 .. MaxByte)

InternalKeys == [key : UserKeys, tag : Nat]

(***************************************************************************)
(* The order of the entries.                                               *)
(***************************************************************************)
\* The least of some numbers.
LEMMA Least ==
    ASSUME NEW T, T \subseteq Nat, T # {}
    PROVE  \E x \in T : \A y \in T : x <= y
<1>1. PICK x \in T : \A y \in T : ~ (<<y, x>> \in OpToRel(<, Nat))
  BY NatLessThanWellFounded, WFMin
<1>2. \A y \in T : ~ (y < x)
  <2>1. \A y, z \in Nat : y < z => <<y, z>> \in OpToRel(<, Nat)
    BY Zenon DEF OpToRel
  <2> QED
    BY <1>1, <2>1, Zenon
<1> QED
  BY <1>2

LEMMA CompareType ==
    ASSUME IsTotalOrder(UserCompare, UserKeys), NEW a \in InternalKeys, NEW b \in InternalKeys
    PROVE  Compare(a, b) \in Int
BY DEF Compare, IsTotalOrder, InternalKeys

LEMMA CompareEqual ==
    ASSUME IsTotalOrder(UserCompare, UserKeys), NEW a \in InternalKeys, NEW b \in InternalKeys
    PROVE  Compare(a, b) = 0 <=> a = b
<1>1. a.key \in UserKeys /\ b.key \in UserKeys /\ a.tag \in Nat /\ b.tag \in Nat
  BY DEF InternalKeys
<1>2. a = b <=> a.key = b.key /\ a.tag = b.tag
  BY DEF InternalKeys
<1> QED
  BY <1>1, <1>2 DEF Compare, IsTotalOrder

LEMMA CompareOpposite ==
    ASSUME IsTotalOrder(UserCompare, UserKeys), NEW a \in InternalKeys, NEW b \in InternalKeys
    PROVE  Compare(a, b) < 0 <=> Compare(b, a) > 0
<1>1. a.key \in UserKeys /\ b.key \in UserKeys /\ a.tag \in Nat /\ b.tag \in Nat
  BY DEF InternalKeys
<1> QED
  BY <1>1 DEF Compare, IsTotalOrder

LEMMA CompareTransitive ==
    ASSUME IsTotalOrder(UserCompare, UserKeys),
           NEW a \in InternalKeys, NEW b \in InternalKeys, NEW c \in InternalKeys,
           Compare(a, b) < 0, Compare(b, c) < 0
    PROVE  Compare(a, c) < 0
<1>1. /\ a.key \in UserKeys /\ b.key \in UserKeys /\ c.key \in UserKeys
      /\ a.tag \in Nat /\ b.tag \in Nat /\ c.tag \in Nat
  BY DEF InternalKeys
<1> QED
  BY <1>1 DEF Compare, IsTotalOrder

(***************************************************************************)
(* The inductive invariant.  The list holds exactly the entries added, in  *)
(* the order of Compare (Sorted), which makes what a search passes over a  *)
(* prefix of it; an entry is the write of a sequence number, and no other  *)
(* entry of its user key is of the same write (Writes); an iterator is at  *)
(* an entry that is still in the list, which never loses one (Placed).     *)
(***************************************************************************)
TableTypes ==
    /\ table_ \in Seq(InternalKeys)
    /\ added \subseteq InternalKeys
    /\ alive \in BOOLEAN

Listed == alive => added = {table_[i] : i \in 1 .. Len(table_)}

Sorted == \A i, j \in 1 .. Len(table_) : i < j => Compare(table_[i], table_[j]) < 0

Writes ==
    /\ \A e \in added : \E q \in Sequences_, t \in ValueTypes : e.tag = PackSequenceAndType(q, t)
    /\ \A e, f \in added : e.key = f.key /\ e.tag \div 256 = f.tag \div 256 => e = f

Placed == alive /\ iter # Null => iter \in added

TableInv ==
    /\ TableTypes
    /\ Listed
    /\ Sorted
    /\ Writes
    /\ Placed

Total == IsTotalOrder(UserCompare, UserKeys)

\* Searches: the entries before a key are the first CountLess(key) of the list.
LEMMA LessIsPrefix ==
    ASSUME Total, TableTypes, Sorted, NEW key \in InternalKeys
    PROVE  /\ CountLess(key) \in 0 .. Len(table_)
           /\ \A i \in 1 .. Len(table_) : Compare(table_[i], key) < 0 <=> i <= CountLess(key)
<1> DEFINE L == Len(table_)
           T == {i \in 1 .. L + 1 : i = L + 1 \/ ~ (Compare(table_[i], key) < 0)}
           Less == {i \in 1 .. L : Compare(table_[i], key) < 0}
<1>1. L \in Nat /\ \A i \in 1 .. L : table_[i] \in InternalKeys
  BY DEF TableTypes
<1>2. PICK m \in T : \A y \in T : m <= y
  <2>1. T \subseteq Nat /\ L + 1 \in T
    BY <1>1
  <2> QED
    BY <2>1, Least, Zenon
<1>3. m \in 1 .. L + 1
  BY <1>1
<1>4. \A i \in 1 .. L : Compare(table_[i], key) < 0 <=> i <= m - 1
  <2> SUFFICES ASSUME NEW i \in 1 .. L
               PROVE  Compare(table_[i], key) < 0 <=> i <= m - 1
    OBVIOUS
  <2>1. CASE i <= m - 1
    <3>1. ~ (i \in T)
      BY <1>2, <1>3, <2>1
    <3> QED
      BY <2>1, <3>1, <1>1
  <2>2. CASE i = m
    BY <1>1, <1>3, <2>2
  <2>3. CASE i > m
    <3>1. m \in 1 .. L /\ ~ (Compare(table_[m], key) < 0)
      BY <1>1, <1>3, <2>3
    <3>2. Compare(table_[m], table_[i]) < 0
      BY <3>1, <2>3 DEF Sorted
    <3>3. ~ (Compare(table_[i], key) < 0)
      BY <1>1, <3>1, <3>2, CompareTransitive DEF Total
    <3> QED
      BY <1>3, <2>3, <3>3
  <2> QED
    BY <1>1, <1>3, <2>1, <2>2, <2>3
<1>5. Less = 1 .. m - 1
  BY <1>1, <1>3, <1>4
<1>6. Cardinality(1 .. m - 1) = m - 1
  BY <1>1, <1>3, FS_Interval
<1>7. CountLess(key) = m - 1
  BY <1>5, <1>6 DEF CountLess
<1> QED
  BY <1>1, <1>3, <1>4, <1>7

\* Two lists of entries put together.
LEMMA Joined ==
    ASSUME NEW a \in Seq(InternalKeys), NEW b \in Seq(InternalKeys)
    PROVE  /\ a \o b \in Seq(InternalKeys)
           /\ Len(a \o b) = Len(a) + Len(b)
           /\ \A i \in 1 .. Len(a) : (a \o b)[i] = a[i]
           /\ \A i \in Len(a) + 1 .. Len(a) + Len(b) : (a \o b)[i] = b[i - Len(a)]
<1>1. Len(a) \in Nat /\ Len(b) \in Nat
  OBVIOUS
<1>2. a \o b \in Seq(InternalKeys) /\ Len(a \o b) = Len(a) + Len(b)
  BY ConcatProperties
<1>3. \A i \in 1 .. Len(a) : (a \o b)[i] = a[i]
  BY <1>1, ConcatProperties
<1>4. \A i \in Len(a) + 1 .. Len(a) + Len(b) : (a \o b)[i] = b[i - Len(a)]
  BY <1>1, ConcatProperties
<1> QED
  BY <1>2, <1>3, <1>4

\* Two lists of entries with one more entry between them.
LEMMA JoinedByOne ==
    ASSUME NEW a \in Seq(InternalKeys), NEW b \in Seq(InternalKeys), NEW e \in InternalKeys
    PROVE  /\ a \o <<e>> \o b \in Seq(InternalKeys)
           /\ Len(a \o <<e>> \o b) = Len(a) + 1 + Len(b)
           /\ \A i \in 1 .. Len(a) : (a \o <<e>> \o b)[i] = a[i]
           /\ (a \o <<e>> \o b)[Len(a) + 1] = e
           /\ \A i \in Len(a) + 2 .. Len(a) + 1 + Len(b) : (a \o <<e>> \o b)[i] = b[i - (Len(a) + 1)]
<1> DEFINE c == a \o <<e>>
<1>1. Len(a) \in Nat /\ Len(b) \in Nat
  OBVIOUS
<1>2. <<e>> \in Seq(InternalKeys) /\ Len(<<e>>) = 1 /\ <<e>>[1] = e
  OBVIOUS
<1>3. c \in Seq(InternalKeys) /\ Len(c) = Len(a) + 1 /\ \A i \in 1 .. Len(a) : c[i] = a[i]
  BY <1>1, <1>2, Joined
<1>4. c[Len(a) + 1] = e
  <2>1. Len(a) + 1 \in Len(a) + 1 .. Len(a) + Len(<<e>>)
    BY <1>1, <1>2
  <2>2. c[Len(a) + 1] = <<e>>[(Len(a) + 1) - Len(a)]
    BY <1>2, <2>1, Joined, Zenon
  <2>3. (Len(a) + 1) - Len(a) = 1
    BY <1>1
  <2> QED
    BY <1>2, <2>2, <2>3, Zenon
<1> HIDE DEF c
<1>5. /\ c \o b \in Seq(InternalKeys)
      /\ Len(c \o b) = Len(c) + Len(b)
      /\ \A i \in 1 .. Len(c) : (c \o b)[i] = c[i]
      /\ \A i \in Len(c) + 1 .. Len(c) + Len(b) : (c \o b)[i] = b[i - Len(c)]
  BY <1>3, Joined
<1>6. \A i \in 1 .. Len(a) : (c \o b)[i] = a[i]
  BY <1>1, <1>3, <1>5
<1>7. (c \o b)[Len(a) + 1] = e
  BY <1>1, <1>3, <1>4, <1>5
<1>8. \A i \in Len(a) + 2 .. Len(a) + 1 + Len(b) : (c \o b)[i] = b[i - (Len(a) + 1)]
  BY <1>1, <1>3, <1>5
<1>9. /\ c \o b \in Seq(InternalKeys)
      /\ Len(c \o b) = Len(a) + 1 + Len(b)
  BY <1>1, <1>3, <1>5
<1> QED
  BY <1>6, <1>7, <1>8, <1>9, Zenon DEF c

\* An entry put into a list after its first n.
Insertion(s, n, e) == SubSeq(s, 1, n) \o <<e>> \o SubSeq(s, n + 1, Len(s))

LEMMA Inserted ==
    ASSUME NEW s \in Seq(InternalKeys), NEW e \in InternalKeys, NEW n \in 0 .. Len(s)
    PROVE  /\ Insertion(s, n, e) \in Seq(InternalKeys)
           /\ Len(Insertion(s, n, e)) = Len(s) + 1
           /\ \A i \in 1 .. n : Insertion(s, n, e)[i] = s[i]
           /\ Insertion(s, n, e)[n + 1] = e
           /\ \A i \in n + 2 .. Len(s) + 1 : Insertion(s, n, e)[i] = s[i - 1]
<1> DEFINE t == Insertion(s, n, e)
           a == SubSeq(s, 1, n)
           b == SubSeq(s, n + 1, Len(s))
<1>1. n \in Nat /\ Len(s) \in Nat /\ n <= Len(s)
  OBVIOUS
<1>2. a \in Seq(InternalKeys) /\ Len(a) = n /\ \A i \in 1 .. n : a[i] = s[i]
  OBVIOUS
<1>3. b \in Seq(InternalKeys) /\ Len(b) = Len(s) - n /\ \A i \in 1 .. Len(s) - n : b[i] = s[n + i]
  OBVIOUS
<1>4. t = a \o <<e>> \o b
  BY DEF Insertion
<1> HIDE DEF a, b, t
<1>5. /\ t \in Seq(InternalKeys)
      /\ Len(t) = Len(a) + 1 + Len(b)
      /\ \A i \in 1 .. Len(a) : t[i] = a[i]
      /\ t[Len(a) + 1] = e
      /\ \A i \in Len(a) + 2 .. Len(a) + 1 + Len(b) : t[i] = b[i - (Len(a) + 1)]
  <2>1. /\ a \o <<e>> \o b \in Seq(InternalKeys)
        /\ Len(a \o <<e>> \o b) = Len(a) + 1 + Len(b)
        /\ \A i \in 1 .. Len(a) : (a \o <<e>> \o b)[i] = a[i]
        /\ (a \o <<e>> \o b)[Len(a) + 1] = e
        /\ \A i \in Len(a) + 2 .. Len(a) + 1 + Len(b) : (a \o <<e>> \o b)[i] = b[i - (Len(a) + 1)]
    BY <1>2, <1>3, JoinedByOne, Zenon
  <2> QED
    BY <1>4, <2>1, Zenon
<1>6. ASSUME NEW i \in n + 2 .. Len(s) + 1
      PROVE  t[i] = s[i - 1]
  <2>1. /\ i \in Len(a) + 2 .. Len(a) + 1 + Len(b)
        /\ i - (Len(a) + 1) \in 1 .. Len(s) - n
        /\ n + (i - (Len(a) + 1)) = i - 1
    BY <1>1, <1>2, <1>3
  <2>2. t[i] = b[i - (Len(a) + 1)] /\ b[i - (Len(a) + 1)] = s[n + (i - (Len(a) + 1))]
    BY <1>3, <1>5, <2>1, Zenon
  <2> QED
    BY <2>1, <2>2, Zenon
<1>7. Len(a) + 1 + Len(b) = Len(s) + 1
  BY <1>1, <1>2, <1>3
<1>8. Len(t) = Len(s) + 1
  BY <1>5, <1>7, Zenon
<1>9. (\A i \in 1 .. n : t[i] = s[i]) /\ t[n + 1] = e
  BY <1>2, <1>5, Zenon
<1> QED
  BY <1>5, <1>6, <1>8, <1>9, Zenon DEF t

LEMMA TableInit ==
    ASSUME Init
    PROVE  TableInv
<1>1. table_ = <<>> /\ added = {} /\ alive = TRUE /\ iter = Null
  BY DEF Init
<1>2. table_ \in Seq(InternalKeys) /\ Len(table_) = 0
  BY <1>1
<1>3. TableTypes
  BY <1>1, <1>2 DEF TableTypes
<1>4. Listed /\ Sorted
  <2>1. \A i \in 1 .. Len(table_) : FALSE
    BY <1>2
  <2> QED
    BY <1>1, <2>1 DEF Listed, Sorted
<1>5. Writes /\ Placed
  BY <1>1 DEF Writes, Placed
<1> QED
  BY <1>3, <1>4, <1>5 DEF TableInv

\* The tag of an entry has the sequence number and the type of its write.
LEMMA TagParts ==
    ASSUME NEW q \in Nat, NEW t \in ValueTypes
    PROVE  /\ PackSequenceAndType(q, t) \in Nat
           /\ PackSequenceAndType(q, t) \div 256 = q
           /\ PackSequenceAndType(q, t) % 256 = t
BY DEF PackSequenceAndType, ValueTypes, kTypeDeletion, kTypeValue

\* Add keeps the order of the list, since the search for the new entry found its place.
LEMMA AddKeepsTable ==
    ASSUME Total, TableInv,
           NEW s \in Sequences_, NEW type \in ValueTypes, NEW k \in UserKeys, NEW v, NEW h,
           Add(s, type, k, v, h)
    PROVE  TableInv'
<1> DEFINE entry == [key |-> k, tag |-> PackSequenceAndType(s, type)]
           n == CountLess(entry)
           L == Len(table_)
<1>1. /\ alive = TRUE /\ alive' = alive /\ iter' = iter
      /\ \A e \in added : ~ (e.key = k /\ e.tag \div 256 = s)
      /\ table_' = SubSeq(table_, 1, n) \o <<entry>> \o SubSeq(table_, n + 1, L)
      /\ added' = added \cup {entry}
  <2>1. alive = TRUE
    BY DEF Add, TableInv, TableTypes
  <2>2. /\ alive' = alive /\ iter' = iter
        /\ \A e \in added : ~ (e.key = k /\ e.tag \div 256 = s)
        /\ table_' = SubSeq(table_, 1, n) \o <<entry>> \o SubSeq(table_, n + 1, L)
        /\ added' = added \cup {entry}
    BY Zenon DEF Add
  <2> QED
    BY <2>1, <2>2
<1>2. s \in Nat
  BY MemTableAssumption
<1>3. entry \in InternalKeys /\ entry.key = k /\ entry.tag = PackSequenceAndType(s, type)
  BY <1>2, TagParts DEF InternalKeys
<1>4. entry.tag \div 256 = s
  BY <1>2, <1>3, TagParts
<1> HIDE DEF entry
<1>5. /\ n \in 0 .. L
      /\ \A i \in 1 .. L : Compare(table_[i], entry) < 0 <=> i <= n
  BY <1>3, LessIsPrefix DEF TableInv
<1> HIDE DEF n
<1>6. table_ \in Seq(InternalKeys) /\ L \in Nat /\ \A i \in 1 .. L : table_[i] \in InternalKeys
  BY DEF TableInv, TableTypes
<1>7. /\ table_' \in Seq(InternalKeys)
      /\ Len(table_') = L + 1
      /\ \A i \in 1 .. n : table_'[i] = table_[i]
      /\ table_'[n + 1] = entry
      /\ \A i \in n + 2 .. L + 1 : table_'[i] = table_[i - 1]
  <2>1. table_' = Insertion(table_, n, entry)
    BY <1>1 DEF Insertion
  <2> QED
    BY <1>3, <1>5, <1>6, <2>1, Inserted
<1>8. added = {table_[i] : i \in 1 .. L}
  BY <1>1 DEF TableInv, Listed
<1>9. n \in Nat /\ n <= L
  BY <1>5, <1>6
<1>10. TableTypes'
  <2>1. added' \subseteq InternalKeys
    BY <1>1, <1>3 DEF TableInv, TableTypes
  <2> QED
    BY <1>1, <1>7, <2>1 DEF TableTypes
<1>11. Listed'
  <2>1. ASSUME NEW i \in 1 .. L
        PROVE  \E j \in 1 .. L + 1 : table_'[j] = table_[i]
    <3>1. CASE i <= n
      <4>1. i \in 1 .. n /\ i \in 1 .. L + 1
        BY <1>6, <1>9, <3>1
      <4> QED
        BY <1>7, <4>1
    <3>2. CASE i > n
      <4>1. i + 1 \in n + 2 .. L + 1 /\ i + 1 \in 1 .. L + 1 /\ (i + 1) - 1 = i
        BY <1>6, <1>9, <3>2
      <4>2. table_'[i + 1] = table_[(i + 1) - 1]
        BY <1>7, <4>1, Zenon
      <4> QED
        BY <4>1, <4>2
    <3> QED
      BY <1>9, <3>1, <3>2
  <2>2. ASSUME NEW j \in 1 .. L + 1
        PROVE  table_'[j] = entry \/ \E i \in 1 .. L : table_'[j] = table_[i]
    <3>1. j \in 1 .. n \/ j = n + 1 \/ j \in n + 2 .. L + 1
      BY <1>6, <1>9
    <3>2. CASE j \in 1 .. n
      <4>1. j \in 1 .. L
        BY <1>6, <1>9, <3>2
      <4> QED
        BY <1>7, <3>2, <4>1, Zenon
    <3>3. CASE j = n + 1
      BY <1>7, <3>3, Zenon
    <3>4. CASE j \in n + 2 .. L + 1
      <4>1. j - 1 \in 1 .. L
        BY <1>6, <1>9, <3>4
      <4> QED
        BY <1>7, <3>4, <4>1, Zenon
    <3> QED
      BY <3>1, <3>2, <3>3, <3>4, Zenon
  <2>3. n + 1 \in 1 .. L + 1
    BY <1>6, <1>9
  <2>4. added' = {table_'[j] : j \in 1 .. L + 1}
    <3>1. ASSUME NEW e \in added'
          PROVE  \E j \in 1 .. L + 1 : e = table_'[j]
      BY <1>1, <1>7, <1>8, <2>1, <2>3, Zenon
    <3>2. ASSUME NEW j \in 1 .. L + 1
          PROVE  table_'[j] \in added'
      <4>1. CASE table_'[j] = entry
        BY <1>1, <4>1, Zenon
      <4>2. CASE \E i \in 1 .. L : table_'[j] = table_[i]
        BY <1>1, <1>8, <4>2, Zenon
      <4> QED
        BY <2>2, <4>1, <4>2, Zenon
    <3> QED
      BY <3>1, <3>2, Zenon
  <2> QED
    BY <1>7, <2>4, Zenon DEF Listed
<1>12. Sorted'
  <2>1. \A i \in 1 .. n : Compare(table_[i], entry) < 0
    BY <1>5, <1>6, <1>9
  <2>2. ASSUME NEW i \in 1 .. L, i > n
        PROVE  Compare(entry, table_[i]) < 0
    <3>1. ~ (Compare(table_[i], entry) < 0)
      BY <1>5, <1>9, <2>2
    <3>2. table_[i] # entry
      BY <1>1, <1>3, <1>4, <1>8
    <3>3. Compare(table_[i], entry) \in Int /\ Compare(table_[i], entry) # 0
      BY <1>3, <1>6, <3>2, CompareType, CompareEqual DEF Total
    <3>4. Compare(table_[i], entry) > 0
      BY <3>1, <3>3
    <3> QED
      BY <1>3, <1>6, <3>4, CompareOpposite DEF Total
  <2>3. \A i, j \in 1 .. L : i < j => Compare(table_[i], table_[j]) < 0
    BY DEF TableInv, Sorted
  <2>4. ASSUME NEW i \in 1 .. L + 1, NEW j \in 1 .. L + 1, i < j
        PROVE  Compare(table_'[i], table_'[j]) < 0
    <3>1. CASE j <= n
      <4>1. /\ i \in 1 .. n /\ j \in 1 .. n /\ i \in 1 .. L /\ j \in 1 .. L
        BY <1>6, <1>9, <2>4, <3>1
      <4> QED
        BY <1>7, <2>3, <2>4, <4>1
    <3>2. CASE j = n + 1
      <4>1. i \in 1 .. n
        BY <1>9, <2>4, <3>2
      <4> QED
        BY <1>7, <2>1, <3>2, <4>1
    <3>3. CASE j > n + 1
      <4>1. j \in n + 2 .. L + 1 /\ j - 1 \in 1 .. L /\ j - 1 > n
        BY <1>6, <1>9, <3>3
      <4>2. table_'[j] = table_[j - 1]
        BY <1>7, <4>1, Zenon
      <4>3. CASE i <= n
        <5>1. i \in 1 .. n /\ i \in 1 .. L /\ i < j - 1
          BY <1>6, <1>9, <2>4, <3>3, <4>3
        <5>2. table_'[i] = table_[i]
          BY <1>7, <5>1, Zenon
        <5> QED
          BY <2>3, <4>1, <4>2, <5>1, <5>2
      <4>4. CASE i = n + 1
        <5>1. table_'[i] = entry
          BY <1>7, <4>4
        <5> QED
          BY <2>2, <4>1, <4>2, <5>1
      <4>5. CASE i > n + 1
        <5>1. i \in n + 2 .. L + 1 /\ i - 1 \in 1 .. L /\ i - 1 < j - 1
          BY <1>6, <1>9, <2>4, <4>5
        <5>2. table_'[i] = table_[i - 1]
          BY <1>7, <5>1, Zenon
        <5> QED
          BY <2>3, <4>1, <4>2, <5>1, <5>2
      <4> QED
        BY <1>9, <4>3, <4>4, <4>5
    <3> QED
      BY <1>9, <3>1, <3>2, <3>3
  <2>5. (\A i, j \in 1 .. Len(table_) : i < j => Compare(table_[i], table_[j]) < 0)'
    BY <1>7, <2>4 DEF Compare
  <2> QED
    BY <2>5 DEF Sorted
<1>13. Writes'
  <2>1. Writes
    BY DEF TableInv
  <2>2. \A e \in added' : \E q \in Sequences_, t \in ValueTypes : e.tag = PackSequenceAndType(q, t)
    BY <1>1, <1>3, <2>1, Zenon DEF Writes
  <2>3. \A e, f \in added' : e.key = f.key /\ e.tag \div 256 = f.tag \div 256 => e = f
    <3>1. \A e \in added : ~ (e.key = entry.key /\ e.tag \div 256 = entry.tag \div 256)
      <4>1. \A e \in added : ~ (e.key = k /\ e.tag \div 256 = s)
        BY <1>1
      <4> QED
        BY <1>3, <1>4, <4>1
    <3>2. \A e, f \in added : e.key = f.key /\ e.tag \div 256 = f.tag \div 256 => e = f
      BY <2>1 DEF Writes
    <3>3. ASSUME NEW e \in added', NEW f \in added', e.key = f.key, e.tag \div 256 = f.tag \div 256
          PROVE  e = f
      <4>1. (e \in added \/ e = entry) /\ (f \in added \/ f = entry)
        BY <1>1
      <4> QED
        BY <3>1, <3>2, <3>3, <4>1
    <3> QED
      BY <3>3
  <2> QED
    BY <2>2, <2>3 DEF Writes
<1>14. Placed'
  BY <1>1 DEF TableInv, Placed
<1> QED
  BY <1>10, <1>11, <1>12, <1>13, <1>14 DEF TableInv

\* The iterator moves to an entry of the list or to none.
LEMMA MoveKeepsTable ==
    ASSUME TableInv, NEW i, MoveTo(EntryAt(i))
    PROVE  TableInv'
<1>1. /\ alive /\ iter' = EntryAt(i)
      /\ table_' = table_ /\ alive' = alive /\ added' = added
  BY DEF MoveTo
<1>2. EntryAt(i) = Null \/ EntryAt(i) \in added
  BY <1>1 DEF EntryAt, TableInv, Listed
<1>3. TableTypes' /\ Listed' /\ Sorted' /\ Writes'
  BY <1>1 DEF TableInv, TableTypes, Listed, Sorted, Writes, Compare
<1>4. Placed'
  BY <1>1, <1>2 DEF Placed
<1> QED
  BY <1>3, <1>4 DEF TableInv

LEMMA UnrefKeepsTable ==
    ASSUME TableInv, Unref
    PROVE  TableInv'
<1>1. added' = added /\ iter' = iter
  BY DEF Unref
<1>2. Writes'
  BY <1>1 DEF TableInv, Writes
<1>3. added' \subseteq InternalKeys
  BY <1>1 DEF TableInv, TableTypes
<1>4. CASE refs_' > 0
  <2>1. table_' = table_ /\ alive' = TRUE
    BY <1>4 DEF Unref
  <2>2. TableTypes' /\ Sorted'
    BY <1>3, <2>1 DEF TableInv, TableTypes, Sorted, Compare
  <2>3. Listed' /\ Placed'
    <3>1. alive
      BY DEF Unref
    <3>2. Listed /\ Placed
      BY DEF TableInv
    <3> QED
      BY <1>1, <2>1, <3>1, <3>2, Zenon DEF Listed, Placed
  <2> QED
    BY <1>2, <2>2, <2>3 DEF TableInv
<1>5. CASE ~ (refs_' > 0)
  <2>1. table_' = <<>> /\ alive' = FALSE
    <3>1. table_' = <<>>
      BY <1>5 DEF Unref
    <3>2. alive' = (refs_' > 0)
      BY Zenon DEF Unref
    <3>3. (refs_' > 0) \in BOOLEAN
      OBVIOUS
    <3> QED
      BY <1>5, <3>1, <3>2, <3>3, Zenon
  <2>2. table_' \in Seq(InternalKeys) /\ Len(table_') = 0
    BY <2>1
  <2>3. \A i \in 1 .. Len(table_') : FALSE
    BY <2>2
  <2>4. TableTypes' /\ Sorted'
    BY <1>3, <2>1, <2>2, <2>3 DEF TableTypes, Sorted
  <2>5. Listed' /\ Placed'
    BY <2>1 DEF Listed, Placed
  <2> QED
    BY <1>2, <2>4, <2>5 DEF TableInv
<1> QED
  BY <1>4, <1>5

LEMMA TableStep ==
    ASSUME Total, TableInv, [Next]_vars
    PROVE  TableInv'
<1>1. ASSUME table_' = table_, alive' = alive, iter' = iter, added' = added
      PROVE  TableInv'
  BY <1>1 DEF TableInv, TableTypes, Listed, Sorted, Writes, Placed, Compare
<1>2. CASE \E s \in Sequences_, k \in UserKeys, h \in Heights :
            Add(s, kTypeDeletion, k, 0, h) \/ \E v \in ValueSizes : Add(s, kTypeValue, k, v, h)
  <2>1. kTypeDeletion \in ValueTypes /\ kTypeValue \in ValueTypes
    BY DEF ValueTypes
  <2> QED
    BY <1>2, <2>1, AddKeepsTable
<1>3. CASE \E s \in Sequences_, k \in UserKeys : Seek(k, s)
  BY <1>3, MoveKeepsTable DEF Seek, FindGreaterOrEqual
<1>4. CASE SeekToFirst
  BY <1>4, MoveKeepsTable DEF SeekToFirst
<1>5. CASE SeekToLast
  BY <1>5, MoveKeepsTable DEF SeekToLast
<1>6. CASE IterNext
  BY <1>6, MoveKeepsTable DEF IterNext
<1>7. CASE Prev
  BY <1>7, MoveKeepsTable DEF Prev, FindLessThan
<1>8. CASE Ref
  BY <1>1, <1>8 DEF Ref
<1>9. CASE Unref
  BY <1>9, UnrefKeepsTable
<1>10. CASE Deleted \/ UNCHANGED vars
  BY <1>1, <1>10 DEF Deleted, vars
<1> QED
  BY <1>2, <1>3, <1>4, <1>5, <1>6, <1>7, <1>8, <1>9, <1>10 DEF Next

\* The list holds exactly the entries added, in the order of the comparator.
THEOREM TableIsSorted == Total => (Spec => []TableInv)
<1> SUFFICES ASSUME Total
             PROVE  Spec => []TableInv
  OBVIOUS
<1>1. Init => TableInv
  BY TableInit
<1>2. TableInv /\ [Next]_vars => TableInv'
  BY TableStep
<1> QED
  BY <1>1, <1>2, PTL DEF Spec

(***************************************************************************)
(* Get.                                                                    *)
(***************************************************************************)
\* The lookup key of a snapshot is after the newer entries of the user key and not after
\* the others, and of two entries of a user key the first is the newer.
LEMMA LookupOrder ==
    ASSUME Total, TableInv, NEW k \in UserKeys, NEW s \in Sequences_, NEW e \in added
    PROVE  /\ LookupKey(k, s) \in InternalKeys
           /\ e.key = k => (Compare(e, LookupKey(k, s)) < 0 <=> ~ (e.tag \div 256 <= s))
           /\ \A f \in added : e.key = f.key /\ Compare(e, f) < 0 => f.tag <= e.tag
           /\ \A f \in added : ~ (Compare(e, LookupKey(k, s)) < 0) /\ f.key = k /\ Compare(e, f) < 0 => e.key = k
<1>1. \A f \in added : f.key \in UserKeys /\ f.tag \in Nat
  BY DEF TableInv, TableTypes, InternalKeys
<1>2. s \in Nat
  BY MemTableAssumption
<1>3. LookupKey(k, s).key = k /\ LookupKey(k, s).tag = s * 256 + 1 /\ LookupKey(k, s).tag \in Nat
  BY <1>2 DEF LookupKey, PackSequenceAndType, kValueTypeForSeek, kTypeValue
<1>4. LookupKey(k, s) \in InternalKeys
  BY <1>3 DEF LookupKey, InternalKeys
<1>5. ASSUME e.key = k
      PROVE  Compare(e, LookupKey(k, s)) < 0 <=> ~ (e.tag \div 256 <= s)
  <2>1. PICK q \in Sequences_, t \in ValueTypes : e.tag = PackSequenceAndType(q, t)
    BY DEF TableInv, Writes
  <2>2. q \in Nat /\ t \in {0, 1}
    BY MemTableAssumption DEF ValueTypes, kTypeDeletion, kTypeValue
  <2>3. e.tag = q * 256 + t /\ e.tag \div 256 = q
    BY <2>1, <2>2 DEF PackSequenceAndType
  <2>4. UserCompare(e.key, LookupKey(k, s).key) = 0
    BY <1>1, <1>3, <1>5 DEF Total, IsTotalOrder
  <2>5. Compare(e, LookupKey(k, s)) < 0 <=> e.tag > LookupKey(k, s).tag
    BY <1>1, <1>3, <2>4 DEF Compare
  <2> QED
    BY <1>2, <1>3, <2>2, <2>3, <2>5
<1>6. ASSUME NEW f \in added, e.key = f.key, Compare(e, f) < 0
      PROVE  f.tag <= e.tag
  <2>1. UserCompare(e.key, f.key) = 0
    BY <1>1, <1>6 DEF Total, IsTotalOrder
  <2> QED
    BY <1>1, <1>6, <2>1 DEF Compare
<1>7. ASSUME NEW f \in added, ~ (Compare(e, LookupKey(k, s)) < 0), f.key = k, Compare(e, f) < 0
      PROVE  e.key = k
  <2>1. UserCompare(e.key, k) \in Int /\ (UserCompare(e.key, k) = 0 <=> e.key = k)
    BY <1>1 DEF Total, IsTotalOrder
  <2>2. ~ (UserCompare(e.key, k) < 0)
    BY <1>3, <1>7, <2>1 DEF Compare
  <2>3. ~ (UserCompare(e.key, k) > 0)
    BY <1>7, <2>1 DEF Compare
  <2> QED
    BY <2>1, <2>2, <2>3
<1> QED
  BY <1>4, <1>5, <1>6, <1>7

\* What Get finds: the first entry that is not before the lookup key is the newest one the
\* snapshot sees, if it sees one, and else an entry of another user key or none.
LEMMA GetFinds ==
    ASSUME Total, TableInv, alive, NEW k \in UserKeys, NEW s \in Sequences_
    PROVE  LET e == FindGreaterOrEqual(LookupKey(k, s))
           IN  /\ Visible(k, s) = {} => e = Null \/ e.key \in UserKeys \ {k}
               /\ Visible(k, s) # {} => /\ e \in Visible(k, s)
                                        /\ \A f \in Visible(k, s) : f.tag <= e.tag
<1> DEFINE lkey == LookupKey(k, s)
           n == CountLess(lkey)
           L == Len(table_)
           e == FindGreaterOrEqual(lkey)
<1>1. added = {table_[i] : i \in 1 .. L}
  BY DEF TableInv, Listed
<1>2. lkey \in InternalKeys
  <2>1. s * 256 + 1 \in Nat
    BY MemTableAssumption
  <2> QED
    BY <2>1 DEF LookupKey, InternalKeys, PackSequenceAndType, kValueTypeForSeek, kTypeValue
<1>3. L \in Nat
  BY DEF TableInv, TableTypes
<1>4. n \in 0 .. L /\ \A i \in 1 .. L : Compare(table_[i], lkey) < 0 <=> i <= n
  BY <1>2, LessIsPrefix DEF TableInv
<1>5. \A f \in added : f.key \in UserKeys
  BY DEF TableInv, TableTypes, InternalKeys
<1>6. \A f \in added : f.key = k => (Compare(f, lkey) < 0 <=> ~ (f.tag \div 256 <= s))
  BY LookupOrder
<1> HIDE DEF lkey, n
<1>7. CASE n = L
  <2>1. e = Null
    BY <1>3, <1>7 DEF FindGreaterOrEqual, EntryAt, n
  <2>2. ASSUME NEW f \in Visible(k, s)
        PROVE  FALSE
    <3>1. f \in added /\ f.key = k /\ f.tag \div 256 <= s
      BY DEF Visible
    <3>2. PICK i \in 1 .. L : f = table_[i]
      BY <1>1, <3>1
    <3>3. Compare(f, lkey) < 0
      BY <1>3, <1>4, <1>7, <3>2
    <3> QED
      BY <1>6, <3>1, <3>3
  <2> QED
    BY <2>1, <2>2 DEF lkey
<1>8. CASE n < L
  <2>1. n + 1 \in 1 .. L /\ e = table_[n + 1]
    BY <1>3, <1>4, <1>8 DEF FindGreaterOrEqual, EntryAt, n
  <2> HIDE DEF e
  <2>2. e \in added /\ ~ (Compare(e, lkey) < 0)
    BY <1>1, <1>3, <1>4, <2>1
  <2>3. ASSUME e.key = k
        PROVE  e \in Visible(k, s)
    BY <1>6, <2>2, <2>3 DEF Visible
  <2>4. ASSUME NEW f \in Visible(k, s)
        PROVE  e.key = k /\ f.tag <= e.tag
    <3>1. f \in added /\ f.key = k /\ f.tag \div 256 <= s
      BY DEF Visible
    <3>2. PICK i \in 1 .. L : f = table_[i]
      BY <1>1, <3>1
    <3>3. i > n
      BY <1>3, <1>4, <1>6, <3>1, <3>2
    <3>4. CASE i = n + 1
      <4>1. f.tag \in Nat
        BY <3>1 DEF TableInv, TableTypes, InternalKeys
      <4> QED
        BY <2>1, <3>1, <3>2, <3>4, <4>1
    <3>5. CASE i > n + 1
      <4>1. Compare(e, f) < 0
        BY <1>3, <1>4, <2>1, <3>2, <3>5 DEF TableInv, Sorted
      <4>2. e.key = k
        BY <2>2, <3>1, <4>1, LookupOrder DEF lkey
      <4> QED
        BY <2>2, <3>1, <4>1, <4>2, LookupOrder
    <3> QED
      BY <1>3, <1>4, <3>3, <3>4, <3>5
  <2> QED
    BY <1>5, <2>2, <2>3, <2>4 DEF e, lkey
<1> QED
  BY <1>3, <1>4, <1>7, <1>8

\* Get is a read of the snapshot of its lookup key, for every set of keys and sequence
\* numbers, whatever was added before, with any comparator that is a total order.
THEOREM GetIsASnapshotRead == Total => (Spec => []GetReadsSnapshot)
<1> SUFFICES ASSUME Total
             PROVE  Spec => []GetReadsSnapshot
  OBVIOUS
<1>1. TableInv => GetReadsSnapshot
  <2> SUFFICES ASSUME TableInv, alive, NEW k \in UserKeys, NEW s \in Sequences_
               PROVE  LET outcome == Outcome(k, s)
                      IN  IF Visible(k, s) = {} THEN ~ outcome.returns
                          ELSE \E e \in Visible(k, s) :
                                  /\ \A f \in Visible(k, s) : f.tag <= e.tag
                                  /\ outcome.returns
                                  /\ IF e.tag % 256 = kTypeValue THEN outcome.status = "ok" /\ outcome.value = e
                                     ELSE outcome.status = "NotFound"
    BY DEF GetReadsSnapshot
  <2> DEFINE e == FindGreaterOrEqual(LookupKey(k, s))
  <2>1. CASE Visible(k, s) = {}
    <3>1. e = Null \/ e.key \in UserKeys \ {k}
      BY <2>1, GetFinds
    <3>2. e = Null \/ UserCompare(e.key, k) # 0
      BY <3>1 DEF Total, IsTotalOrder
    <3>3. Outcome(k, s) = [returns |-> FALSE, status |-> "ok", value |-> Null]
      BY <3>2 DEF Outcome
    <3> QED
      BY <2>1, <3>3
  <2>2. CASE Visible(k, s) # {}
    <3>1. e \in Visible(k, s) /\ \A f \in Visible(k, s) : f.tag <= e.tag
      BY <2>2, GetFinds
    <3>2. e # Null /\ UserCompare(e.key, k) = 0
      <4>1. e \in InternalKeys /\ e.key = k
        BY <3>1 DEF Visible, TableInv, TableTypes
      <4> QED
        BY <4>1 DEF InternalKeys, Null, Total, IsTotalOrder
    <3>3. Outcome(k, s) = IF e.tag % 256 = kTypeValue THEN [returns |-> TRUE, status |-> "ok", value |-> e]
                          ELSE [returns |-> TRUE, status |-> "NotFound", value |-> Null]
      BY <3>2 DEF Outcome
    <3> HIDE DEF e
    <3>4. /\ Outcome(k, s).returns
          /\ IF e.tag % 256 = kTypeValue THEN Outcome(k, s).status = "ok" /\ Outcome(k, s).value = e
             ELSE Outcome(k, s).status = "NotFound"
      BY <3>3
    <3> QED
      BY <2>2, <3>1, <3>4
  <2> QED
    BY <2>1, <2>2
<1> QED
  BY <1>1, TableIsSorted, PTL

(***************************************************************************)
(* The iterator.                                                           *)
(***************************************************************************)
\* Prev goes to the neighbour of the present entry, whatever was added since the iterator
\* got there, with any comparator that is a total order.
THEOREM PrevFindsTheNeighbour == Total => (Spec => PrevUndoesNext)
<1> SUFFICES ASSUME Total
             PROVE  Spec => PrevUndoesNext
  OBVIOUS
<1> DEFINE Step == Prev => IF iter' = Null THEN table_[1] = iter
                           ELSE \E i \in 1 .. Len(table_) - 1 : table_[i] = iter' /\ table_[i + 1] = iter
<1>1. TableInv => [Step]_vars
  <2> SUFFICES ASSUME TableInv, Prev
               PROVE  IF iter' = Null THEN table_[1] = iter
                      ELSE \E i \in 1 .. Len(table_) - 1 : table_[i] = iter' /\ table_[i + 1] = iter
    OBVIOUS
  <2> DEFINE L == Len(table_)
             n == CountLess(iter)
  <2>1. alive /\ iter # Null /\ iter' = EntryAt(n)
    BY DEF Prev, Valid, MoveTo, FindLessThan
  <2>2. iter \in added /\ added = {table_[i] : i \in 1 .. L}
    BY <2>1 DEF TableInv, Placed, Listed
  <2>3. PICK p \in 1 .. L : iter = table_[p]
    BY <2>2
  <2>4. L \in Nat /\ iter \in InternalKeys /\ \A i \in 1 .. L : table_[i] \in InternalKeys
    BY <2>2 DEF TableInv, TableTypes
  <2>5. n \in 0 .. L /\ \A i \in 1 .. L : Compare(table_[i], iter) < 0 <=> i <= n
    BY <2>4, LessIsPrefix DEF TableInv
  <2> HIDE DEF n
  <2>6. ~ (p <= n)
    <3>1. Compare(table_[p], iter) = 0
      BY <2>3, <2>4, CompareEqual DEF Total
    <3> QED
      BY <2>5, <3>1
  <2>7. \A i \in 1 .. L : i < p => i <= n
    BY <2>3, <2>5 DEF TableInv, Sorted
  <2>8. n = p - 1
    BY <2>4, <2>5, <2>6, <2>7
  <2>9. CASE p = 1
    <3>1. iter' = Null
      BY <2>1, <2>8, <2>9 DEF EntryAt
    <3> QED
      BY <2>3, <2>9, <3>1
  <2>10. CASE p > 1
    <3>1. n \in 1 .. L /\ n \in 1 .. L - 1 /\ n + 1 = p
      BY <2>4, <2>8, <2>10
    <3>2. iter' = table_[n]
      BY <2>1, <3>1 DEF EntryAt
    <3>3. iter' # Null
      <4>1. table_[n] \in InternalKeys
        BY <2>4, <3>1
      <4> QED
        BY <3>2, <4>1 DEF InternalKeys, Null
    <3> QED
      BY <2>3, <3>1, <3>2, <3>3
  <2> QED
    BY <2>9, <2>10
<1> QED
  BY <1>1, TableIsSorted, PTL DEF PrevUndoesNext

(***************************************************************************)
(* The bytewise order: at the first byte where two strings differ, or one  *)
(* string is the start of the other.                                       *)
(***************************************************************************)
Differ(a, b, i) == i <= Len(a) /\ i <= Len(b) /\ a[i] # b[i] /\ \A j \in 1 .. i - 1 : a[j] = b[j]

ByteLess(a, b) ==
    \/ \E i \in 1 .. Len(a) : Differ(a, b, i) /\ a[i] < b[i]
    \/ Len(a) < Len(b) /\ \A j \in 1 .. Len(a) : a[j] = b[j]

LEMMA ByteStringFacts ==
    ASSUME NEW a \in ByteStrings
    PROVE  Len(a) \in Nat /\ \A i \in 1 .. Len(a) : a[i] \in Nat /\ a[i] <= MaxByte
BY MemTableAssumption DEF ByteStrings

\* memcmp decides at the first difference.
LEMMA MemcmpAt ==
    ASSUME NEW a \in ByteStrings, NEW b \in ByteStrings, NEW n \in Nat, NEW i \in 1 .. n, Differ(a, b, i)
    PROVE  memcmp(a, b, n) = IF a[i] < b[i] THEN -1 ELSE 1
<1> DEFINE P(k) == a[k] # b[k] /\ \A j \in 1 .. k - 1 : a[j] = b[j]
           c == CHOOSE k \in 1 .. n : P(k)
<1>1. P(i)
  BY DEF Differ
<1>2. c \in 1 .. n /\ P(c)
  BY <1>1
<1>3. memcmp(a, b, n) = IF a[c] < b[c] THEN -1 ELSE 1
  BY <1>1 DEF memcmp
<1> HIDE DEF c
<1>4. c = i
  <2>1. ~ (c < i)
    BY <1>1, <1>2
  <2>2. ~ (i < c)
    BY <1>1, <1>2
  <2> QED
    BY <1>2, <2>1, <2>2
<1> QED
  BY <1>3, <1>4

LEMMA CompareAt ==
    ASSUME NEW a \in ByteStrings, NEW b \in ByteStrings, NEW i \in 1 .. Len(a), Differ(a, b, i)
    PROVE  ThreeWayCompare(a, b) = IF a[i] < b[i] THEN -1 ELSE 1
<1> DEFINE min == IF Len(a) > Len(b) THEN Len(b) ELSE Len(a)
<1>1. Len(a) \in Nat /\ Len(b) \in Nat /\ i <= Len(b)
  BY ByteStringFacts DEF Differ
<1>2. min \in Nat /\ i \in 1 .. min
  BY <1>1
<1> HIDE DEF min
<1>3. memcmp(a, b, min) = IF a[i] < b[i] THEN -1 ELSE 1
  BY <1>2, MemcmpAt
<1>4. a # b
  BY DEF Differ
<1>5. SliceCompare(a, b) = IF memcmp(a, b, min) # 0 THEN memcmp(a, b, min) ELSE IF Len(a) < Len(b) THEN -1 ELSE 1
  BY DEF SliceCompare, min
<1> QED
  BY <1>3, <1>4, <1>5 DEF ThreeWayCompare

LEMMA CompareStart ==
    ASSUME NEW a \in ByteStrings, NEW b \in ByteStrings, Len(a) < Len(b), \A j \in 1 .. Len(a) : a[j] = b[j]
    PROVE  ThreeWayCompare(a, b) = -1 /\ ThreeWayCompare(b, a) = 1
<1>1. Len(a) \in Nat /\ Len(b) \in Nat /\ a # b
  BY ByteStringFacts
<1>2. memcmp(a, b, Len(a)) = 0 /\ memcmp(b, a, Len(a)) = 0
  BY DEF memcmp
<1>3. SliceCompare(a, b) = -1 /\ SliceCompare(b, a) = 1
  BY <1>1, <1>2 DEF SliceCompare
<1> QED
  BY <1>1, <1>3 DEF ThreeWayCompare

\* Two different strings differ somewhere first, or one is the start of the other.
LEMMA ByteLessTotal ==
    ASSUME NEW a \in ByteStrings, NEW b \in ByteStrings, a # b
    PROVE  ByteLess(a, b) \/ ByteLess(b, a)
<1> DEFINE T == {i \in 1 .. Len(a) : i <= Len(b) /\ a[i] # b[i]}
<1>1. /\ Len(a) \in Nat /\ Len(b) \in Nat
      /\ \A i \in 1 .. Len(a) : a[i] \in Nat
      /\ \A i \in 1 .. Len(b) : b[i] \in Nat
  BY ByteStringFacts
<1>2. CASE T = {}
  <2>1. \A i \in 1 .. Len(a) : i <= Len(b) => a[i] = b[i]
    BY <1>2
  <2>2. Len(a) # Len(b)
    <3> SUFFICES ASSUME Len(a) = Len(b)
                 PROVE  a = b
      OBVIOUS
    <3>1. \A i \in 1 .. Len(a) : a[i] = b[i]
      BY <1>1, <2>1
    <3> QED
      BY <3>1, SeqEqual DEF ByteStrings
  <2>3. CASE Len(a) < Len(b)
    BY <1>1, <2>1, <2>3 DEF ByteLess
  <2>4. CASE Len(b) < Len(a)
    BY <1>1, <2>1, <2>4 DEF ByteLess
  <2> QED
    BY <1>1, <2>2, <2>3, <2>4
<1>3. CASE T # {}
  <2>1. T \subseteq Nat
    BY <1>1
  <2>2. PICK i \in T : \A y \in T : i <= y
    BY <1>3, <2>1, Least, Zenon
  <2>3. i \in 1 .. Len(a) /\ i \in 1 .. Len(b) /\ a[i] # b[i]
    BY <1>1
  <2>4. \A j \in 1 .. i - 1 : a[j] = b[j]
    <3> SUFFICES ASSUME NEW j \in 1 .. i - 1, a[j] # b[j]
                 PROVE  FALSE
      OBVIOUS
    <3>1. j \in T /\ j < i
      BY <1>1, <2>3
    <3> QED
      BY <1>1, <2>2, <2>3, <3>1
  <2>5. Differ(a, b, i) /\ Differ(b, a, i)
    BY <1>1, <2>3, <2>4 DEF Differ
  <2>6. a[i] < b[i] \/ b[i] < a[i]
    BY <1>1, <2>3
  <2> QED
    BY <2>3, <2>5, <2>6 DEF ByteLess
<1> QED
  BY <1>2, <1>3

\* The comparison is that order.
LEMMA ThreeWayIsByteLess ==
    ASSUME NEW a \in ByteStrings, NEW b \in ByteStrings
    PROVE  /\ ThreeWayCompare(a, b) \in {-1, 0, 1}
           /\ ThreeWayCompare(a, b) = 0 <=> a = b
           /\ ThreeWayCompare(a, b) = -1 <=> ByteLess(a, b)
           /\ ThreeWayCompare(a, b) = 1 <=> ByteLess(b, a)
<1>1. ASSUME NEW x \in ByteStrings, NEW y \in ByteStrings, ByteLess(x, y)
      PROVE  ThreeWayCompare(x, y) = -1 /\ ThreeWayCompare(y, x) = 1
  <2>1. CASE \E i \in 1 .. Len(x) : Differ(x, y, i) /\ x[i] < y[i]
    <3>1. PICK i \in 1 .. Len(x) : Differ(x, y, i) /\ x[i] < y[i]
      BY <2>1
    <3>2. Differ(y, x, i) /\ i \in 1 .. Len(y)
      BY <3>1, ByteStringFacts DEF Differ
    <3>3. x[i] \in Nat /\ y[i] \in Nat
      BY <3>2, ByteStringFacts
    <3>4. ThreeWayCompare(x, y) = -1
      BY <3>1, CompareAt
    <3>5. ThreeWayCompare(y, x) = 1
      BY <3>1, <3>2, <3>3, CompareAt
    <3> QED
      BY <3>4, <3>5
  <2>2. CASE Len(x) < Len(y) /\ \A j \in 1 .. Len(x) : x[j] = y[j]
    BY <2>2, CompareStart
  <2> QED
    BY <1>1, <2>1, <2>2 DEF ByteLess
<1>2. ThreeWayCompare(a, a) = 0 /\ ThreeWayCompare(b, b) = 0
  BY DEF ThreeWayCompare
<1>3. CASE a = b
  <2>1. ~ ByteLess(a, a)
    <3>1. ByteLess(a, a) => ThreeWayCompare(a, a) = -1
      BY <1>1
    <3> QED
      BY <1>2, <3>1
  <2> QED
    BY <1>2, <1>3, <2>1
<1>4. CASE a # b
  <2>1. CASE ByteLess(a, b)
    <3>1. ThreeWayCompare(a, b) = -1
      BY <1>1, <2>1
    <3>2. ByteLess(b, a) => ThreeWayCompare(a, b) = 1
      BY <1>1
    <3> QED
      BY <1>4, <2>1, <3>1, <3>2
  <2>2. CASE ByteLess(b, a)
    <3>1. ThreeWayCompare(a, b) = 1
      BY <1>1, <2>2
    <3>2. ByteLess(a, b) => ThreeWayCompare(a, b) = -1
      BY <1>1
    <3> QED
      BY <1>4, <2>2, <3>1, <3>2
  <2> QED
    BY <1>4, <2>1, <2>2, ByteLessTotal
<1> QED
  BY <1>3, <1>4

LEMMA ByteLessTransitive ==
    ASSUME NEW a \in ByteStrings, NEW b \in ByteStrings, NEW c \in ByteStrings, ByteLess(a, b), ByteLess(b, c)
    PROVE  ByteLess(a, c)
<1>1. /\ Len(a) \in Nat /\ Len(b) \in Nat /\ Len(c) \in Nat
      /\ \A i \in 1 .. Len(a) : a[i] \in Nat
      /\ \A i \in 1 .. Len(b) : b[i] \in Nat
      /\ \A i \in 1 .. Len(c) : c[i] \in Nat
  BY ByteStringFacts
<1>2. CASE Len(a) < Len(b) /\ \A j \in 1 .. Len(a) : a[j] = b[j]
  <2>1. CASE Len(b) < Len(c) /\ \A j \in 1 .. Len(b) : b[j] = c[j]
    <3>1. Len(a) < Len(c) /\ \A j \in 1 .. Len(a) : a[j] = c[j]
      BY <1>1, <1>2, <2>1
    <3> QED
      BY <3>1 DEF ByteLess
  <2>2. CASE \E i \in 1 .. Len(b) : Differ(b, c, i) /\ b[i] < c[i]
    <3>1. PICK i \in 1 .. Len(b) : Differ(b, c, i) /\ b[i] < c[i]
      BY <2>2
    <3>2. i <= Len(c) /\ \A j \in 1 .. i - 1 : b[j] = c[j]
      BY <3>1 DEF Differ
    <3>3. CASE i <= Len(a)
      <4>1. a[i] = b[i] /\ i \in 1 .. Len(a) /\ i \in 1 .. Len(c) /\ \A j \in 1 .. i - 1 : a[j] = c[j]
        BY <1>1, <1>2, <3>2, <3>3
      <4>2. a[i] < c[i] /\ a[i] # c[i]
        BY <1>1, <3>1, <4>1
      <4> QED
        BY <3>2, <3>3, <4>1, <4>2 DEF ByteLess, Differ
    <3>4. CASE i > Len(a)
      <4>1. Len(a) < Len(c) /\ \A j \in 1 .. Len(a) : a[j] = c[j]
        BY <1>1, <1>2, <3>2, <3>4
      <4> QED
        BY <4>1 DEF ByteLess
    <3> QED
      BY <1>1, <3>3, <3>4
  <2> QED
    BY <2>1, <2>2 DEF ByteLess
<1>3. CASE \E i \in 1 .. Len(a) : Differ(a, b, i) /\ a[i] < b[i]
  <2>1. PICK i \in 1 .. Len(a) : Differ(a, b, i) /\ a[i] < b[i]
    BY <1>3
  <2>2. i \in 1 .. Len(b) /\ \A j \in 1 .. i - 1 : a[j] = b[j]
    BY <1>1, <2>1 DEF Differ
  <2>3. CASE Len(b) < Len(c) /\ \A j \in 1 .. Len(b) : b[j] = c[j]
    <3>1. b[i] = c[i] /\ i \in 1 .. Len(c) /\ \A j \in 1 .. i - 1 : a[j] = c[j]
      BY <1>1, <2>2, <2>3
    <3>2. a[i] < c[i] /\ a[i] # c[i] /\ i <= Len(a) /\ i <= Len(c)
      BY <1>1, <2>1, <3>1
    <3> QED
      BY <3>1, <3>2 DEF ByteLess, Differ
  <2>4. CASE \E k \in 1 .. Len(b) : Differ(b, c, k) /\ b[k] < c[k]
    <3>1. PICK k \in 1 .. Len(b) : Differ(b, c, k) /\ b[k] < c[k]
      BY <2>4
    <3>2. k \in 1 .. Len(c) /\ \A j \in 1 .. k - 1 : b[j] = c[j]
      BY <1>1, <3>1 DEF Differ
    <3>3. PICK m \in 1 .. Len(a) : m = IF i <= k THEN i ELSE k
      BY <1>1, <2>2, <3>2
    <3>4. m \in 1 .. Len(c) /\ m <= i /\ m <= k /\ (m = i \/ m = k)
      BY <1>1, <2>2, <3>2, <3>3
    <3>5. \A j \in 1 .. m - 1 : a[j] = c[j]
      BY <1>1, <2>2, <3>2, <3>4
    <3>6. a[m] < c[m]
      <4>1. CASE m = i /\ m = k
        BY <1>1, <2>1, <2>2, <3>1, <3>2, <4>1
      <4>2. CASE m = i /\ m < k
        <5>1. b[m] = c[m]
          BY <3>2, <3>4, <4>2
        <5> QED
          BY <2>1, <4>2, <5>1
      <4>3. CASE m = k /\ m < i
        <5>1. a[m] = b[m]
          BY <2>2, <3>4, <4>3
        <5> QED
          BY <3>1, <4>3, <5>1
      <4> QED
        BY <3>4, <4>1, <4>2, <4>3
    <3>7. m <= Len(a) /\ m <= Len(c) /\ a[m] # c[m]
      BY <1>1, <3>4, <3>6
    <3> QED
      BY <3>5, <3>6, <3>7 DEF ByteLess, Differ
  <2> QED
    BY <2>3, <2>4 DEF ByteLess
<1> QED
  BY <1>2, <1>3 DEF ByteLess

\* The comparison of byte strings that is 0 for equal ones is a total order on all byte
\* strings, of any length: what include/comparator.h asks of a Comparator.
THEOREM BytewiseOrderIsTotal == IsTotalOrder(ThreeWayCompare, ByteStrings)
<1>1. \A a, b \in ByteStrings : ThreeWayCompare(a, b) \in Int
  BY ThreeWayIsByteLess
<1>2. \A a, b \in ByteStrings : ThreeWayCompare(a, b) = 0 <=> a = b
  BY ThreeWayIsByteLess
<1>3. \A a, b \in ByteStrings :
        /\ ThreeWayCompare(a, b) < 0 <=> ByteLess(a, b)
        /\ ThreeWayCompare(a, b) > 0 <=> ByteLess(b, a)
  <2> SUFFICES ASSUME NEW a \in ByteStrings, NEW b \in ByteStrings
               PROVE  /\ ThreeWayCompare(a, b) < 0 <=> ByteLess(a, b)
                      /\ ThreeWayCompare(a, b) > 0 <=> ByteLess(b, a)
    OBVIOUS
  <2>1. ThreeWayCompare(a, b) \in {-1, 0, 1}
    BY ThreeWayIsByteLess
  <2>2. ThreeWayCompare(a, b) < 0 <=> ThreeWayCompare(a, b) = -1
    BY <2>1
  <2>3. ThreeWayCompare(a, b) > 0 <=> ThreeWayCompare(a, b) = 1
    BY <2>1
  <2> QED
    BY <2>2, <2>3, ThreeWayIsByteLess
<1>4. \A a, b, c \in ByteStrings :
        ThreeWayCompare(a, b) < 0 /\ ThreeWayCompare(b, c) < 0 => ThreeWayCompare(a, c) < 0
  BY <1>3, ByteLessTransitive
<1> QED
  BY <1>1, <1>2, <1>3, <1>4 DEF IsTotalOrder

(***************************************************************************)
(* Separators.                                                             *)
(***************************************************************************)
\* The user comparator is the bytewise one, with 0 for equal keys.
Bytewise == \A a, b \in ByteStrings : UserCompare(a, b) = ThreeWayCompare(a, b)

LEMMA BytewiseLess ==
    ASSUME Bytewise, NEW a \in ByteStrings, NEW b \in ByteStrings
    PROVE  /\ UserCompare(a, b) < 0 <=> ByteLess(a, b)
           /\ UserCompare(a, b) = 0 <=> a = b
           /\ UserCompare(a, b) \in Int
<1>1. UserCompare(a, b) = ThreeWayCompare(a, b)
  BY DEF Bytewise
<1>2. UserCompare(a, b) \in {-1, 0, 1}
  BY <1>1, ThreeWayIsByteLess
<1>3. UserCompare(a, b) < 0 <=> UserCompare(a, b) = -1
  BY <1>2
<1> QED
  BY <1>1, <1>2, <1>3, ThreeWayIsByteLess

LEMMA BytewiseIsTotal ==
    ASSUME Bytewise
    PROVE  Total
<1>1. UserKeys \subseteq ByteStrings
  BY MemTableAssumption DEF ByteStrings
<1>2. IsTotalOrder(ThreeWayCompare, ByteStrings)
  BY BytewiseOrderIsTotal
<1> QED
  BY <1>1, <1>2 DEF Bytewise, Total, IsTotalOrder

LEMMA StartOfSeq ==
    ASSUME NEW S, NEW k \in Seq(S), NEW i \in 1 .. Len(k)
    PROVE  SubSeq(k, 1, i) \in Seq(S) /\ Len(SubSeq(k, 1, i)) = i /\ \A j \in 1 .. i : SubSeq(k, 1, i)[j] = k[j]
OBVIOUS

\* A string cut after its byte i, and that byte one higher, is after the string and before
\* any other that differs from it at i by more than one, and not before.
LEMMA Incremented ==
    ASSUME NEW k \in ByteStrings, NEW i \in 1 .. Len(k), k[i] < MaxByte
    PROVE  /\ Increment(k, i) \in ByteStrings
           /\ Len(Increment(k, i)) = i
           /\ Increment(k, i)[i] = k[i] + 1
           /\ \A j \in 1 .. i - 1 : Increment(k, i)[j] = k[j]
           /\ ByteLess(k, Increment(k, i))
           /\ \A l \in ByteStrings : Differ(k, l, i) /\ k[i] + 1 < l[i] => ByteLess(Increment(k, i), l)
<1> DEFINE t == SubSeq(k, 1, i)
           u == Increment(k, i)
<1>1. /\ Len(k) \in Nat /\ MaxByte \in Nat
      /\ \A j \in 1 .. Len(k) : k[j] \in Nat /\ k[j] \in 0 .. MaxByte
      /\ k[i] + 1 \in 0 .. MaxByte
  BY ByteStringFacts, MemTableAssumption
<1>2. t \in ByteStrings /\ Len(t) = i /\ \A j \in 1 .. i : t[j] = k[j]
  BY StartOfSeq DEF ByteStrings
<1>3. u = [t EXCEPT ![i] = @ + 1]
  BY DEF Increment
<1> HIDE DEF t, u
<1>4. i \in 1 .. Len(t) /\ t[i] + 1 \in 0 .. MaxByte
  BY <1>1, <1>2
<1>5. u \in ByteStrings /\ Len(u) = i /\ u[i] = k[i] + 1 /\ \A j \in 1 .. i - 1 : u[j] = k[j]
  BY <1>1, <1>2, <1>3, <1>4 DEF ByteStrings
<1>6. ByteLess(k, u)
  <2>1. Differ(k, u, i) /\ k[i] < u[i]
    BY <1>1, <1>5 DEF Differ
  <2> QED
    BY <2>1 DEF ByteLess
<1>7. ASSUME NEW l \in ByteStrings, Differ(k, l, i), k[i] + 1 < l[i]
      PROVE  ByteLess(u, l)
  <2>1. i <= Len(l) /\ \A j \in 1 .. i - 1 : k[j] = l[j]
    BY <1>7 DEF Differ
  <2>2. l[i] \in Nat
    BY <1>1, <2>1, ByteStringFacts
  <2>3. Differ(u, l, i) /\ u[i] < l[i] /\ i \in 1 .. Len(u)
    BY <1>1, <1>5, <1>7, <2>1, <2>2 DEF Differ
  <2> QED
    BY <2>3 DEF ByteLess
<1> QED
  BY <1>5, <1>6, <1>7 DEF u

\* The separator of two byte strings is a byte string, the first string itself or one that
\* is after it and before the second.
LEMMA UserSeparatorSeparates ==
    ASSUME NEW a \in ByteStrings, NEW b \in ByteStrings
    PROVE  \/ UserSeparator(a, b) = a
           \/ /\ UserSeparator(a, b) \in ByteStrings
              /\ ByteLess(a, UserSeparator(a, b))
              /\ ByteLess(UserSeparator(a, b), b)
<1> DEFINE differ == {i \in 1 .. Len(a) : i <= Len(b) /\ a[i] # b[i]}
           c == CHOOSE i \in differ : \A j \in differ : i <= j
<1> SUFFICES ASSUME differ # {}, a[c] < MaxByte, a[c] + 1 < b[c]
             PROVE  /\ Increment(a, c) \in ByteStrings
                    /\ ByteLess(a, Increment(a, c))
                    /\ ByteLess(Increment(a, c), b)
  BY DEF UserSeparator
<1>1. Len(a) \in Nat /\ Len(b) \in Nat
  BY ByteStringFacts
<1>2. c \in differ /\ \A j \in differ : c <= j
  <2>1. differ \subseteq Nat
    BY <1>1
  <2>2. \E i \in differ : \A j \in differ : i <= j
    BY <2>1, Least, Zenon
  <2> QED
    BY <2>2
<1> HIDE DEF c
<1>3. c \in 1 .. Len(a) /\ c <= Len(b) /\ a[c] # b[c]
  BY <1>2
<1>4. \A j \in 1 .. c - 1 : a[j] = b[j]
  <2> SUFFICES ASSUME NEW j \in 1 .. c - 1, a[j] # b[j]
               PROVE  FALSE
    OBVIOUS
  <2>1. j \in differ /\ j < c
    BY <1>1, <1>3
  <2> QED
    BY <1>1, <1>2, <1>3, <2>1
<1>5. Differ(a, b, c)
  BY <1>1, <1>3, <1>4 DEF Differ
<1> QED
  BY <1>3, <1>5, Incremented

LEMMA UserSuccessorSucceeds ==
    ASSUME NEW a \in ByteStrings
    PROVE  \/ UserSuccessor(a) = a
           \/ UserSuccessor(a) \in ByteStrings /\ ByteLess(a, UserSuccessor(a))
<1> DEFINE small == {i \in 1 .. Len(a) : a[i] # MaxByte}
           c == CHOOSE i \in small : \A j \in small : i <= j
<1> SUFFICES ASSUME small # {}
             PROVE  Increment(a, c) \in ByteStrings /\ ByteLess(a, Increment(a, c))
  BY DEF UserSuccessor
<1>1. Len(a) \in Nat /\ MaxByte \in Nat /\ \A i \in 1 .. Len(a) : a[i] \in Nat /\ a[i] <= MaxByte
  BY ByteStringFacts, MemTableAssumption
<1>2. c \in small
  <2>1. small \subseteq Nat
    BY <1>1
  <2>2. \E i \in small : \A j \in small : i <= j
    BY <2>1, Least, Zenon
  <2> QED
    BY <2>2
<1> HIDE DEF c
<1>3. c \in 1 .. Len(a) /\ a[c] < MaxByte
  BY <1>1, <1>2
<1> QED
  BY <1>3, Incremented

\* A shortened internal key: the key itself, or one of a larger user key.
LEMMA ShortenedKey ==
    ASSUME NEW key, NEW u
    PROVE  \/ Shortened(key, u) = key
           \/ Shortened(key, u).key = u /\ UserCompare(key.key, u) < 0 /\ u # key.key
<1>1. Len(u) < Len(key.key) /\ UserCompare(key.key, u) < 0 => Shortened(key, u).key = u
  BY DEF Shortened
<1>2. Len(u) < Len(key.key) => u # key.key
  <2>1. ASSUME u = key.key, Len(u) < Len(u)
        PROVE  FALSE
    BY <2>1
  <2> QED
    BY <2>1
<1> QED
  BY <1>1, <1>2 DEF Shortened

\* The keys that FindShortestSeparator and FindShortSuccessor make lie where they should,
\* for byte strings of any length, under the bytewise order.
THEOREM SeparatorsLieBetween == Bytewise => (Spec => []SeparatorsSeparate)
<1> SUFFICES ASSUME Bytewise
             PROVE  Spec => []SeparatorsSeparate
  OBVIOUS
<1>1. TableInv => SeparatorsSeparate
  <2> SUFFICES ASSUME TableInv
               PROVE  SeparatorsSeparate
    OBVIOUS
  <2>1. Total
    BY BytewiseIsTotal
  <2>2. /\ Len(table_) \in Nat
        /\ \A i \in 1 .. Len(table_) : table_[i] \in InternalKeys
    BY DEF TableInv, TableTypes
  <2>3. \A i \in 1 .. Len(table_) : table_[i].key \in ByteStrings /\ Compare(table_[i], table_[i]) = 0
    BY <2>1, <2>2, CompareEqual, MemTableAssumption DEF Total, InternalKeys, ByteStrings
  <2>4. ASSUME NEW i \in 1 .. Len(table_) - 1
        PROVE  LET a == table_[i]
                   b == table_[i + 1]
                   s == FindShortestSeparator(a, b)
                   u == UserSeparator(a.key, b.key)
               IN  /\ Compare(a, s) <= 0 /\ Compare(s, b) < 0
                   /\ UserCompare(a.key, b.key) < 0 => UserCompare(a.key, u) <= 0 /\ UserCompare(u, b.key) < 0
    <3> DEFINE a == table_[i]
               b == table_[i + 1]
               s == FindShortestSeparator(a, b)
               u == UserSeparator(a.key, b.key)
    <3>1. i \in 1 .. Len(table_) /\ i + 1 \in 1 .. Len(table_) /\ i < i + 1
      BY <2>2
    <3>2. a.key \in ByteStrings /\ b.key \in ByteStrings /\ Compare(a, a) = 0 /\ Compare(a, b) < 0
      BY <2>3, <3>1 DEF TableInv, Sorted
    <3>3. \/ s = a
          \/ s.key = u /\ UserCompare(a.key, u) < 0 /\ u # a.key
      BY ShortenedKey DEF FindShortestSeparator
    <3> HIDE DEF a, b, s
    <3>4. \/ u = a.key
          \/ u \in ByteStrings /\ ByteLess(a.key, u) /\ ByteLess(u, b.key)
      BY <3>2, UserSeparatorSeparates
    <3> HIDE DEF u
    <3>5. u # a.key => UserCompare(a.key, u) < 0 /\ UserCompare(u, b.key) < 0
      BY <3>2, <3>4, BytewiseLess
    <3>6. Compare(a, s) <= 0 /\ Compare(s, b) < 0
      <4>1. CASE s = a
        BY <3>2, <4>1
      <4>2. CASE s.key = u /\ u # a.key
        <5>1. UserCompare(a.key, s.key) < 0 /\ UserCompare(s.key, b.key) < 0
          BY <3>5, <4>2
        <5>2. UserCompare(a.key, s.key) \in Int /\ UserCompare(s.key, b.key) \in Int
          BY <3>2, <3>4, <4>2, BytewiseLess
        <5>3. Compare(a, s) = UserCompare(a.key, s.key) /\ Compare(s, b) = UserCompare(s.key, b.key)
          BY <5>1, <5>2 DEF Compare
        <5> QED
          BY <5>1, <5>2, <5>3
      <4> QED
        BY <3>3, <4>1, <4>2
    <3>7. ASSUME UserCompare(a.key, b.key) < 0
          PROVE  UserCompare(a.key, u) <= 0 /\ UserCompare(u, b.key) < 0
      <4>1. CASE u = a.key
        BY <3>2, <3>7, <4>1, BytewiseLess
      <4>2. CASE u # a.key
        BY <3>2, <3>4, <3>5, <4>2, BytewiseLess
      <4> QED
        BY <4>1, <4>2
    <3> QED
      BY <3>6, <3>7 DEF a, b, s, u
  <2>5. ASSUME NEW i \in 1 .. Len(table_)
        PROVE  Compare(table_[i], FindShortSuccessor(table_[i])) <= 0
    <3> DEFINE a == table_[i]
               u == UserSuccessor(a.key)
               s == FindShortSuccessor(a)
    <3>1. a.key \in ByteStrings /\ Compare(a, a) = 0
      BY <2>3
    <3>2. \/ s = a
          \/ s.key = u /\ UserCompare(a.key, u) < 0 /\ u # a.key
      BY ShortenedKey DEF FindShortSuccessor
    <3> HIDE DEF a, s
    <3>3. \/ u = a.key
          \/ u \in ByteStrings /\ ByteLess(a.key, u)
      BY <3>1, UserSuccessorSucceeds
    <3> HIDE DEF u
    <3>4. CASE s = a
      BY <3>1, <3>4 DEF a, s
    <3>5. CASE s.key = u /\ u # a.key
      <4>1. UserCompare(a.key, s.key) < 0 /\ UserCompare(a.key, s.key) \in Int
        BY <3>1, <3>3, <3>5, BytewiseLess
      <4>2. Compare(a, s) = UserCompare(a.key, s.key)
        BY <4>1 DEF Compare
      <4>3. Compare(a, s) <= 0
        BY <4>1, <4>2
      <4> QED
        BY <4>3 DEF a, s
    <3> QED
      BY <3>2, <3>4, <3>5
  <2> QED
    BY <2>4, <2>5 DEF SeparatorsSeparate
<1>2. Spec => []TableInv
  BY BytewiseIsTotal, TableIsSorted
<1> QED
  BY <1>1, <1>2, PTL

(***************************************************************************)
(* The arena.  The free bytes are the end of the current block (ArenaShape)*)
(* and all pieces of the current block lie before them (Pieces): what is   *)
(* taken next is apart from everything given out.                          *)
(***************************************************************************)
Arenas == [blocks_ : Seq(Nat), alloc_ptr_ : [block : Nat, offset : Nat],
           alloc_bytes_remaining_ : Nat, memory_usage_ : Int]

ArenaShape(a) ==
    /\ a \in Arenas
    /\ a.alloc_ptr_.block \in 0 .. Len(a.blocks_)
    /\ a.alloc_ptr_.block = 0 => a.alloc_bytes_remaining_ = 0
    /\ a.alloc_ptr_.block # 0 => a.alloc_ptr_.offset + a.alloc_bytes_remaining_ = a.blocks_[a.alloc_ptr_.block]

\* f gives what the first n blocks take.
IsUsage(f, blocks) ==
    f = [n \in 0 .. Len(blocks) |-> IF n = 0 THEN 0 ELSE f[n - 1] + blocks[n] + PointerSize]

UsageSummed(a) == \E f : IsUsage(f, a.blocks_) /\ f[Len(a.blocks_)] = a.memory_usage_

\* An allocation: the memory is in a block, beyond what the current block has given out or
\* at the start of a new one; the blocks there were stay as they are.
Fits(a, r, bytes) ==
    /\ ArenaShape(r.arena)
    /\ Len(a.blocks_) <= Len(r.arena.blocks_)
    /\ \A b \in 1 .. Len(a.blocks_) : r.arena.blocks_[b] = a.blocks_[b]
    /\ r.at.block \in 1 .. Len(r.arena.blocks_)
    /\ r.at.offset \in Nat
    /\ r.at.offset + bytes <= r.arena.blocks_[r.at.block]
    /\ \/ r.at.block = a.alloc_ptr_.block /\ r.at.offset >= a.alloc_ptr_.offset
       \/ r.at.block = Len(a.blocks_) + 1
    /\ r.arena.alloc_ptr_.block = r.at.block => r.at.offset + bytes <= r.arena.alloc_ptr_.offset
    /\ \/ r.arena.alloc_ptr_.block = a.alloc_ptr_.block /\ r.arena.alloc_ptr_.offset >= a.alloc_ptr_.offset
       \/ r.arena.alloc_ptr_.block = Len(a.blocks_) + 1

LEMMA TakeFits ==
    ASSUME NEW a, ArenaShape(a), NEW skip \in Nat, NEW bytes \in Nat \ {0}, skip + bytes <= a.alloc_bytes_remaining_
    PROVE  /\ Fits(a, TakeFromBlock(a, skip, bytes), bytes)
           /\ TakeFromBlock(a, skip, bytes).at.offset = a.alloc_ptr_.offset + skip
           /\ TakeFromBlock(a, skip, bytes).arena.blocks_ = a.blocks_
           /\ TakeFromBlock(a, skip, bytes).arena.memory_usage_ = a.memory_usage_
<1> DEFINE r == TakeFromBlock(a, skip, bytes)
           p == a.alloc_ptr_
<1>1. /\ a \in Arenas /\ p \in [block : Nat, offset : Nat] /\ a.blocks_ \in Seq(Nat)
      /\ Len(a.blocks_) \in Nat /\ \A b \in 1 .. Len(a.blocks_) : a.blocks_[b] \in Nat
      /\ p.block \in Nat /\ p.offset \in Nat /\ a.alloc_bytes_remaining_ \in Nat
  BY DEF ArenaShape, Arenas
<1>2. p.block \in 1 .. Len(a.blocks_) /\ p.offset + a.alloc_bytes_remaining_ = a.blocks_[p.block]
  BY <1>1 DEF ArenaShape
<1>3. /\ r.arena = [a EXCEPT !.alloc_ptr_.offset = @ + skip + bytes, !.alloc_bytes_remaining_ = @ - skip - bytes]
      /\ r.at = [p EXCEPT !.offset = @ + skip]
  BY DEF TakeFromBlock
<1>4. r.at.block = p.block /\ r.at.offset = p.offset + skip
  BY <1>1, <1>3
<1>5. /\ r.arena.blocks_ = a.blocks_ /\ r.arena.memory_usage_ = a.memory_usage_
      /\ r.arena.alloc_ptr_ = [p EXCEPT !.offset = p.offset + skip + bytes]
      /\ r.arena.alloc_bytes_remaining_ = a.alloc_bytes_remaining_ - skip - bytes
  BY <1>1, <1>3 DEF Arenas
<1>6. r.arena \in Arenas
  <2>1. a.alloc_bytes_remaining_ - skip - bytes \in Nat /\ p.offset + skip + bytes \in Nat
    BY <1>1
  <2>2. [p EXCEPT !.offset = p.offset + skip + bytes] \in [block : Nat, offset : Nat]
    BY <1>1, <2>1
  <2>3. r.arena = [a EXCEPT !.alloc_ptr_ = [p EXCEPT !.offset = p.offset + skip + bytes],
                            !.alloc_bytes_remaining_ = a.alloc_bytes_remaining_ - skip - bytes]
    BY <1>3
  <2> QED
    BY <1>1, <2>1, <2>2, <2>3 DEF Arenas
<1>7. /\ r.arena.alloc_ptr_.block = p.block
      /\ r.arena.alloc_ptr_.offset = p.offset + skip + bytes
  BY <1>1, <1>5
<1> HIDE DEF r, p
<1>8. ArenaShape(r.arena)
  BY <1>1, <1>2, <1>5, <1>6, <1>7 DEF ArenaShape
<1>9. Fits(a, r, bytes)
  <2>1. /\ Len(a.blocks_) <= Len(r.arena.blocks_)
        /\ \A b \in 1 .. Len(a.blocks_) : r.arena.blocks_[b] = a.blocks_[b]
        /\ r.at.block \in 1 .. Len(r.arena.blocks_)
    BY <1>1, <1>2, <1>4, <1>5
  <2>2. r.at.offset \in Nat /\ r.at.offset >= p.offset
    BY <1>1, <1>4
  <2>3. r.at.offset + bytes <= r.arena.blocks_[r.at.block]
    BY <1>1, <1>2, <1>4, <1>5
  <2>4. r.at.offset + bytes <= r.arena.alloc_ptr_.offset /\ r.arena.alloc_ptr_.offset >= p.offset
    BY <1>1, <1>4, <1>7
  <2> QED
    BY <1>4, <1>7, <1>8, <2>1, <2>2, <2>3, <2>4 DEF Fits, p
<1> QED
  BY <1>4, <1>5, <1>9 DEF r, p

LEMMA Appended ==
    ASSUME NEW s \in Seq(Nat), NEW n \in Nat
    PROVE  /\ Append(s, n) \in Seq(Nat)
           /\ Len(Append(s, n)) = Len(s) + 1
           /\ Append(s, n)[Len(s) + 1] = n
           /\ \A b \in 1 .. Len(s) : Append(s, n)[b] = s[b]
BY AppendProperties

LEMMA NewBlock ==
    ASSUME NEW a, ArenaShape(a), NEW n \in Nat
    PROVE  LET c == AllocateNewBlock(a, n)
           IN  /\ ArenaShape(c)
               /\ Len(c.blocks_) = Len(a.blocks_) + 1
               /\ c.blocks_[Len(a.blocks_) + 1] = n
               /\ \A b \in 1 .. Len(a.blocks_) : c.blocks_[b] = a.blocks_[b]
               /\ c.alloc_ptr_ = a.alloc_ptr_
               /\ UsageSummed(a) => UsageSummed(c)
<1> DEFINE c == AllocateNewBlock(a, n)
           L == Len(a.blocks_)
<1>1. /\ a \in Arenas /\ a.blocks_ \in Seq(Nat) /\ L \in Nat
      /\ a.memory_usage_ \in Int /\ a.alloc_ptr_.block \in 0 .. L
  BY DEF ArenaShape, Arenas
<1>2. PointerSize \in Nat
  BY ArenaAssumption
<1>3. c = [a EXCEPT !.blocks_ = Append(@, n), !.memory_usage_ = @ + n + PointerSize]
  BY DEF AllocateNewBlock
<1>4. /\ c.blocks_ = Append(a.blocks_, n)
      /\ c.memory_usage_ = a.memory_usage_ + n + PointerSize
      /\ c.alloc_ptr_ = a.alloc_ptr_
      /\ c.alloc_bytes_remaining_ = a.alloc_bytes_remaining_
  BY <1>1, <1>3 DEF Arenas
<1>5. /\ c.blocks_ \in Seq(Nat) /\ Len(c.blocks_) = L + 1 /\ c.blocks_[L + 1] = n
      /\ \A b \in 1 .. L : c.blocks_[b] = a.blocks_[b]
  BY <1>1, <1>4, Appended
<1>6. c \in Arenas
  <2>1. a.memory_usage_ + n + PointerSize \in Int
    BY <1>1, <1>2
  <2>2. Append(a.blocks_, n) \in Seq(Nat)
    BY <1>1, Appended
  <2>3. c = [a EXCEPT !.blocks_ = Append(a.blocks_, n), !.memory_usage_ = a.memory_usage_ + n + PointerSize]
    BY <1>3
  <2> QED
    BY <1>1, <2>1, <2>2, <2>3 DEF Arenas
<1> HIDE DEF c
<1>7. ArenaShape(c)
  BY <1>1, <1>4, <1>5, <1>6 DEF ArenaShape
<1>8. ASSUME UsageSummed(a)
      PROVE  UsageSummed(c)
  <2>1. PICK f : IsUsage(f, a.blocks_) /\ f[L] = a.memory_usage_
    BY <1>8 DEF UsageSummed
  <2> DEFINE g == [k \in 0 .. L + 1 |-> IF k = L + 1 THEN f[L] + n + PointerSize ELSE f[k]]
  <2>2. \A k \in 0 .. L : f[k] = IF k = 0 THEN 0 ELSE f[k - 1] + a.blocks_[k] + PointerSize
    BY <2>1 DEF IsUsage
  <2>3. ASSUME NEW k \in 0 .. L + 1
        PROVE  g[k] = IF k = 0 THEN 0 ELSE g[k - 1] + c.blocks_[k] + PointerSize
    <3>1. CASE k = L + 1
      <4>1. k # 0 /\ k - 1 = L /\ L \in 0 .. L + 1 /\ L # L + 1
        BY <1>1, <3>1
      <4>2. g[k] = f[L] + n + PointerSize /\ g[k - 1] = f[L]
        BY <3>1, <4>1
      <4> QED
        BY <1>5, <3>1, <4>1, <4>2
    <3>2. CASE k # L + 1
      <4>1. k \in 0 .. L
        BY <1>1, <3>2
      <4>2. g[k] = f[k]
        BY <3>2
      <4>3. CASE k = 0
        BY <2>2, <4>1, <4>2, <4>3
      <4>4. CASE k # 0
        <5>1. k \in 1 .. L /\ k - 1 \in 0 .. L + 1 /\ k - 1 # L + 1
          BY <1>1, <4>1, <4>4
        <5>2. g[k - 1] = f[k - 1]
          BY <5>1
        <5> QED
          BY <1>5, <2>2, <4>1, <4>2, <4>4, <5>1, <5>2
      <4> QED
        BY <4>3, <4>4
    <3> QED
      BY <3>1, <3>2
  <2>4. L + 1 \in 0 .. L + 1
    BY <1>1
  <2>5. g[L + 1] = c.memory_usage_
    BY <1>4, <2>1, <2>4
  <2>6. IsUsage(g, c.blocks_)
    <3>1. DOMAIN g = 0 .. L + 1
      OBVIOUS
    <3>2. g = [k \in 0 .. L + 1 |-> g[k]]
      OBVIOUS
    <3> HIDE DEF g
    <3>3. g = [k \in 0 .. L + 1 |-> IF k = 0 THEN 0 ELSE g[k - 1] + c.blocks_[k] + PointerSize]
      BY <2>3, <3>2
    <3> QED
      BY <1>5, <3>3 DEF IsUsage
  <2> QED
    BY <1>5, <2>5, <2>6 DEF UsageSummed
<1> QED
  BY <1>4, <1>5, <1>7, <1>8 DEF c

\* A new block: the memory is at its start.
LEMMA FallbackFits ==
    ASSUME NEW a, ArenaShape(a), NEW bytes \in Nat \ {0}
    PROVE  /\ Fits(a, AllocateFallback(a, bytes), bytes)
           /\ AllocateFallback(a, bytes).at.offset = 0
           /\ UsageSummed(a) => UsageSummed(AllocateFallback(a, bytes).arena)
<1> DEFINE L == Len(a.blocks_)
           start == [block |-> L + 1, offset |-> 0]
           r == AllocateFallback(a, bytes)
<1>1. L \in Nat /\ a.blocks_ \in Seq(Nat) /\ a.alloc_ptr_.block \in 0 .. L /\ a.alloc_ptr_.offset \in Nat
  BY DEF ArenaShape, Arenas
<1>2. kBlockSize \in Nat \ {0}
  BY ArenaAssumption
<1>3. CASE bytes > kBlockSize \div 4
  <2> DEFINE c == AllocateNewBlock(a, bytes)
  <2>1. r = [arena |-> c, at |-> start]
    BY <1>3 DEF AllocateFallback
  <2>2. r.arena = c /\ r.at.block = L + 1 /\ r.at.offset = 0
    BY <2>1
  <2>3. /\ ArenaShape(c) /\ Len(c.blocks_) = L + 1 /\ c.blocks_[L + 1] = bytes
        /\ \A b \in 1 .. L : c.blocks_[b] = a.blocks_[b]
        /\ c.alloc_ptr_ = a.alloc_ptr_ /\ (UsageSummed(a) => UsageSummed(c))
    BY NewBlock
  <2> HIDE DEF c, r
  <2>4. /\ L <= Len(c.blocks_) /\ L + 1 \in 1 .. Len(c.blocks_) /\ 0 + bytes <= c.blocks_[L + 1]
        /\ c.alloc_ptr_.block # L + 1 /\ c.alloc_ptr_.offset >= a.alloc_ptr_.offset
    BY <1>1, <2>3
  <2> QED
    BY <2>2, <2>3, <2>4 DEF Fits, r
<1>4. CASE ~ (bytes > kBlockSize \div 4)
  <2> DEFINE c == AllocateNewBlock(a, kBlockSize)
             d == [c EXCEPT !.alloc_ptr_ = start, !.alloc_bytes_remaining_ = kBlockSize]
  <2>1. r = TakeFromBlock(d, 0, bytes)
    BY <1>4 DEF AllocateFallback
  <2>2. /\ ArenaShape(c) /\ Len(c.blocks_) = L + 1 /\ c.blocks_[L + 1] = kBlockSize
        /\ \A b \in 1 .. L : c.blocks_[b] = a.blocks_[b]
        /\ c.alloc_ptr_ = a.alloc_ptr_ /\ (UsageSummed(a) => UsageSummed(c))
    BY <1>2, NewBlock
  <2> HIDE DEF c
  <2>3. c \in Arenas
    BY <2>2 DEF ArenaShape
  <2>4. /\ d.blocks_ = c.blocks_ /\ d.memory_usage_ = c.memory_usage_
        /\ d.alloc_ptr_ = start /\ d.alloc_bytes_remaining_ = kBlockSize
    BY <2>3 DEF Arenas
  <2>5. start \in [block : Nat, offset : Nat] /\ start.block = L + 1 /\ start.offset = 0
    BY <1>1
  <2>6. d \in Arenas
    BY <1>2, <2>3, <2>5 DEF Arenas
  <2> HIDE DEF d, start
  <2>7. ArenaShape(d)
    BY <1>1, <1>2, <2>2, <2>4, <2>5, <2>6 DEF ArenaShape
  <2>8. 0 + bytes <= d.alloc_bytes_remaining_
    BY <1>2, <1>4, <2>4
  <2>9. /\ Fits(d, r, bytes) /\ r.at.offset = d.alloc_ptr_.offset + 0
        /\ r.arena.blocks_ = d.blocks_ /\ r.arena.memory_usage_ = d.memory_usage_
    BY <2>1, <2>7, <2>8, TakeFits
  <2>10. r.at.offset = 0
    BY <2>4, <2>5, <2>9
  <2>11. UsageSummed(c) => UsageSummed(r.arena)
    BY <2>4, <2>9 DEF UsageSummed
  <2> HIDE DEF r
  <2>12. /\ ArenaShape(r.arena) /\ r.at.offset \in Nat
         /\ r.at.block \in 1 .. L + 1 /\ r.at.offset + bytes <= r.arena.blocks_[r.at.block]
         /\ r.at.block = L + 1 \/ r.at.block = L + 2
         /\ r.arena.alloc_ptr_.block = r.at.block => r.at.offset + bytes <= r.arena.alloc_ptr_.offset
         /\ r.arena.alloc_ptr_.block = L + 1 \/ r.arena.alloc_ptr_.block = L + 2
    <3>1. Len(d.blocks_) = L + 1 /\ d.alloc_ptr_.block = L + 1 /\ r.arena.blocks_ = d.blocks_
      BY <2>2, <2>4, <2>5, <2>9
    <3>2. /\ ArenaShape(r.arena) /\ r.at.offset \in Nat
          /\ r.at.block \in 1 .. Len(r.arena.blocks_) /\ r.at.offset + bytes <= r.arena.blocks_[r.at.block]
          /\ r.at.block = d.alloc_ptr_.block \/ r.at.block = Len(d.blocks_) + 1
          /\ r.arena.alloc_ptr_.block = r.at.block => r.at.offset + bytes <= r.arena.alloc_ptr_.offset
          /\ r.arena.alloc_ptr_.block = d.alloc_ptr_.block \/ r.arena.alloc_ptr_.block = Len(d.blocks_) + 1
      BY <2>9 DEF Fits
    <3>3. (L + 1) + 1 = L + 2
      BY <1>1
    <3> QED
      BY <3>1, <3>2, <3>3
  <2>13. r.arena.alloc_ptr_.block \in 0 .. L + 1
    BY <2>2, <2>4, <2>9, <2>12 DEF ArenaShape
  <2>14. r.at.block = L + 1 /\ r.arena.alloc_ptr_.block = L + 1
    BY <1>1, <2>12, <2>13
  <2>15. Fits(a, r, bytes)
    <3>1. Len(r.arena.blocks_) = L + 1 /\ L <= L + 1 /\ \A b \in 1 .. L : r.arena.blocks_[b] = a.blocks_[b]
      BY <1>1, <2>2, <2>4, <2>9
    <3> QED
      BY <2>12, <2>14, <3>1 DEF Fits
  <2> QED
    BY <2>2, <2>10, <2>11, <2>15 DEF r
<1> QED
  BY <1>3, <1>4

LEMMA AllocateFits ==
    ASSUME NEW a, ArenaShape(a), NEW bytes \in Nat \ {0}
    PROVE  /\ Fits(a, Allocate(a, bytes), bytes)
           /\ UsageSummed(a) => UsageSummed(Allocate(a, bytes).arena)
<1>1. CASE bytes <= a.alloc_bytes_remaining_
  <2>1. 0 + bytes <= a.alloc_bytes_remaining_ /\ Allocate(a, bytes) = TakeFromBlock(a, 0, bytes)
    BY <1>1 DEF Allocate
  <2> QED
    BY <2>1, TakeFits DEF UsageSummed
<1>2. CASE ~ (bytes <= a.alloc_bytes_remaining_)
  BY <1>2, FallbackFits DEF Allocate
<1> QED
  BY <1>1, <1>2

LEMMA Remainders ==
    ASSUME NEW m \in Nat \ {0}, NEW x \in Nat
    PROVE  x % m \in 0 .. m - 1 /\ (x + (m - (x % m))) % m = 0 /\ 0 % m = 0
<1>1. x % m \in 0 .. m - 1
  OBVIOUS
<1>2. (x + (m - (x % m))) % m = 0
  OBVIOUS
<1>3. 0 % m = 0
  OBVIOUS
<1> QED
  BY <1>1, <1>2, <1>3

\* What is left out brings the memory to a multiple of align.
LEMMA AllocateAlignedFits ==
    ASSUME NEW a, ArenaShape(a), NEW bytes \in Nat \ {0}
    PROVE  /\ Fits(a, AllocateAligned(a, bytes), bytes)
           /\ AllocateAligned(a, bytes).at.offset % align = 0
           /\ UsageSummed(a) => UsageSummed(AllocateAligned(a, bytes).arena)
<1> DEFINE x == a.alloc_ptr_.offset
           left == IF x % align = 0 THEN 0 ELSE align - (x % align)
<1>1. align \in Nat \ {0} /\ x \in Nat
  BY ArenaAssumption DEF ArenaShape, Arenas
<1> HIDE DEF x
<1>2. left \in Nat /\ (x + left) % align = 0
  <2>1. CASE x % align = 0
    BY <1>1, <2>1
  <2>2. CASE x % align # 0
    <3>1. x % align \in 0 .. align - 1
      BY <1>1, Remainders
    <3>2. (x + (align - (x % align))) % align = 0
      BY <1>1, Remainders
    <3> QED
      BY <1>1, <2>2, <3>1, <3>2
  <2> QED
    BY <2>1, <2>2
<1>3. 0 % align = 0
  BY <1>1
<1>4. CASE bytes + left <= a.alloc_bytes_remaining_
  <2>1. left + bytes <= a.alloc_bytes_remaining_
    <3> HIDE DEF left
    <3> QED
      BY <1>2, <1>4 DEF ArenaShape, Arenas
  <2>2. AllocateAligned(a, bytes) = TakeFromBlock(a, left, bytes)
    BY <1>4, Zenon DEF AllocateAligned, x
  <2> HIDE DEF left
  <2> QED
    BY <1>2, <2>1, <2>2, TakeFits DEF UsageSummed, x
<1>5. CASE ~ (bytes + left <= a.alloc_bytes_remaining_)
  <2>1. AllocateAligned(a, bytes) = AllocateFallback(a, bytes)
    BY <1>5 DEF AllocateAligned, x
  <2> QED
    BY <1>3, <2>1, FallbackFits
<1> QED
  BY <1>4, <1>5

PieceInside(a, m) ==
    /\ m.block \in 1 .. Len(a.blocks_) /\ m.first \in Nat /\ m.last \in Nat /\ m.last < a.blocks_[m.block]
    /\ m.aligned => m.first % align = 0
    /\ m.block = a.alloc_ptr_.block => m.last < a.alloc_ptr_.offset

PiecesApart(pieces) ==
    \A m, n \in pieces : m # n /\ m.block = n.block => m.last < n.first \/ n.last < m.first

Pieces(a, pieces) ==
    /\ IsFiniteSet(pieces)
    /\ \A m \in pieces : PieceInside(a, m)
    /\ PiecesApart(pieces)

\* What an allocation gives is one piece more, apart from the others.
LEMMA OnePieceMore ==
    ASSUME NEW a, ArenaShape(a), NEW pieces, Pieces(a, pieces), NEW r, NEW bytes \in Nat \ {0}, Fits(a, r, bytes),
           NEW aligned \in BOOLEAN, aligned => r.at.offset % align = 0
    PROVE  /\ Pieces(r.arena, pieces \cup {Memory(r, bytes, aligned)})
           /\ Cardinality(pieces \cup {Memory(r, bytes, aligned)}) = Cardinality(pieces) + 1
<1> DEFINE new == Memory(r, bytes, aligned)
           p == a.alloc_ptr_
           q == r.arena.alloc_ptr_
           L == Len(a.blocks_)
<1>1. /\ new.block = r.at.block /\ new.first = r.at.offset
      /\ new.last = r.at.offset + bytes - 1 /\ new.aligned = aligned
  BY DEF Memory
<1>2. L \in Nat /\ p.block \in 0 .. L /\ p.offset \in Nat
  BY DEF ArenaShape, Arenas
<1>3. /\ q.block \in Nat /\ q.offset \in Nat /\ Len(r.arena.blocks_) \in Nat
      /\ \A b \in 1 .. Len(r.arena.blocks_) : r.arena.blocks_[b] \in Nat
  <2>1. ArenaShape(r.arena)
    BY DEF Fits
  <2> QED
    BY <2>1, SMTT(30) DEF ArenaShape, Arenas
<1> HIDE DEF new, p, q, L
<1>4. /\ L <= Len(r.arena.blocks_)
      /\ \A b \in 1 .. L : r.arena.blocks_[b] = a.blocks_[b]
      /\ r.at.block \in 1 .. Len(r.arena.blocks_)
      /\ r.at.offset \in Nat
      /\ r.at.offset + bytes <= r.arena.blocks_[r.at.block]
      /\ \/ r.at.block = p.block /\ r.at.offset >= p.offset
         \/ r.at.block = L + 1
      /\ q.block = r.at.block => r.at.offset + bytes <= q.offset
      /\ \/ q.block = p.block /\ q.offset >= p.offset
         \/ q.block = L + 1
  BY DEF Fits, p, q, L
<1>5. PieceInside(r.arena, new)
  <2>1. new.last \in Nat /\ new.last < r.arena.blocks_[new.block]
    BY <1>1, <1>3, <1>4, SMTT(30)
  <2>2. q.block = new.block => new.last < q.offset
    BY <1>1, <1>3, <1>4
  <2>3. new.aligned => new.first % align = 0
    BY <1>1, Zenon
  <2> QED
    BY <1>1, <1>4, <2>1, <2>2, <2>3 DEF PieceInside, q
<1>6. ASSUME NEW m \in pieces
      PROVE  /\ PieceInside(r.arena, m)
             /\ m.block = new.block => m.last < new.first
             /\ m # new
  <2>1. PieceInside(a, m)
    BY DEF Pieces
  <2>2. /\ m.block \in 1 .. L /\ m.first \in Nat /\ m.last \in Nat /\ m.last < a.blocks_[m.block]
        /\ m.block = p.block => m.last < p.offset
    BY <2>1 DEF PieceInside, L, p
  <2>3. m.aligned => m.first % align = 0
    BY <2>1 DEF PieceInside
  <2>4. /\ m.block \in 1 .. Len(r.arena.blocks_) /\ m.last < r.arena.blocks_[m.block]
    BY <1>2, <1>3, <1>4, <2>2, SMTT(30)
  <2>5. m.block = q.block => m.last < q.offset
    BY <1>2, <1>3, <1>4, <2>2
  <2>6. m.block = new.block => m.last < new.first
    BY <1>1, <1>2, <1>4, <2>2
  <2>7. m # new
    <3>1. new.first <= new.last
      BY <1>1, <1>4
    <3>2. new.first \in Nat /\ new.last \in Nat
      BY <1>1, <1>4
    <3>3. ~ (new.last < new.first)
      BY <3>1, <3>2
    <3> QED
      BY <2>6, <3>3
  <2> QED
    BY <2>2, <2>3, <2>4, <2>5, <2>6, <2>7 DEF PieceInside, q
<1>7. \A m \in pieces \cup {new} : PieceInside(r.arena, m)
  BY <1>5, <1>6
<1>8. PiecesApart(pieces \cup {new})
  <2>1. PiecesApart(pieces)
    BY DEF Pieces
  <2> QED
    BY <1>6, <2>1 DEF PiecesApart
<1>9. IsFiniteSet(pieces \cup {new}) /\ Cardinality(pieces \cup {new}) = Cardinality(pieces) + 1
  <2>1. IsFiniteSet(pieces) /\ new \notin pieces
    BY <1>6 DEF Pieces
  <2> QED
    BY <2>1, FS_AddElement
<1> QED
  BY <1>7, <1>8, <1>9 DEF Pieces, new

\* The invariant of the table's memory.
MemoryInv ==
    /\ table_ \in Seq(InternalKeys) /\ alive \in BOOLEAN
    /\ ArenaShape(arena_)
    /\ UsageSummed(arena_)
    /\ Pieces(arena_, allocated)
    /\ Cardinality(allocated) = IF alive THEN 1 + 2 * Len(table_) ELSE 0

LEMMA EmptyArenaFacts ==
    /\ ArenaShape(EmptyArena)
    /\ UsageSummed(EmptyArena)
    /\ Pieces(EmptyArena, {})
    /\ Cardinality({}) = 0
<1>1. /\ EmptyArena.blocks_ = <<>> /\ EmptyArena.memory_usage_ = 0
      /\ EmptyArena.alloc_ptr_.block = 0 /\ EmptyArena.alloc_bytes_remaining_ = 0
  BY DEF EmptyArena
<1>2. <<>> \in Seq(Nat) /\ Len(<<>>) = 0
  OBVIOUS
<1>3. EmptyArena \in Arenas
  BY <1>2 DEF EmptyArena, Arenas
<1>4. ArenaShape(EmptyArena)
  BY <1>1, <1>2, <1>3 DEF ArenaShape
<1>5. UsageSummed(EmptyArena)
  <2> DEFINE f == [n \in 0 .. 0 |-> 0]
  <2>1. f = [n \in 0 .. 0 |-> IF n = 0 THEN 0 ELSE f[n - 1] + <<>>[n] + PointerSize]
    <3>1. \A n \in 0 .. 0 : 0 = IF n = 0 THEN 0 ELSE f[n - 1] + <<>>[n] + PointerSize
      OBVIOUS
    <3> QED
      BY <3>1
  <2>2. f[0] = 0
    OBVIOUS
  <2> HIDE DEF f
  <2>3. IsUsage(f, EmptyArena.blocks_) /\ f[Len(EmptyArena.blocks_)] = EmptyArena.memory_usage_
    BY <1>1, <1>2, <2>1, <2>2 DEF IsUsage
  <2> QED
    BY <2>3 DEF UsageSummed
<1>6. IsFiniteSet({}) /\ Cardinality({}) = 0
  BY FS_EmptySet
<1> QED
  BY <1>4, <1>5, <1>6 DEF Pieces, PiecesApart

LEMMA NodeSizes ==
    ASSUME NEW h \in Nat \ {0}
    PROVE  NodeSize(h) \in Nat \ {0}
<1>1. PointerSize \in Nat \ {0} /\ h - 1 \in Nat
  BY ArenaAssumption
<1>2. PointerSize * (h - 1) \in Nat
  BY <1>1
<1> QED
  BY <1>1, <1>2 DEF NodeSize

LEMMA MemoryInit ==
    ASSUME Init
    PROVE  MemoryInv
<1> DEFINE size == NodeSize(Max(Heights))
           head == AllocateAligned(EmptyArena, size)
<1>1. Max(Heights) \in Nat \ {0}
  <2>1. PICK m \in Heights : \A h \in Heights : h <= m
    BY MemTableAssumption
  <2>2. \A h \in Heights : m >= h
    BY <2>1, MemTableAssumption
  <2>3. Max(Heights) \in Heights
    BY <2>2 DEF Max
  <2> QED
    BY <2>3, MemTableAssumption
<1>2. size \in Nat \ {0}
  BY <1>1, NodeSizes
<1>3. /\ table_ = <<>> /\ alive = TRUE /\ arena_ = head.arena
      /\ allocated = {} \cup {Memory(head, size, TRUE)}
  BY DEF Init
<1> HIDE DEF size
<1>4. /\ Fits(EmptyArena, head, size) /\ head.at.offset % align = 0
      /\ UsageSummed(head.arena)
  BY <1>2, EmptyArenaFacts, AllocateAlignedFits
<1> HIDE DEF head
<1>5. /\ Pieces(head.arena, {} \cup {Memory(head, size, TRUE)})
      /\ Cardinality({} \cup {Memory(head, size, TRUE)}) = Cardinality({}) + 1
  <2>1. ArenaShape(EmptyArena) /\ Pieces(EmptyArena, {})
    BY EmptyArenaFacts
  <2>2. ASSUME NEW aligned \in BOOLEAN
        PROVE  /\ Pieces(head.arena, {} \cup {Memory(head, size, aligned)})
               /\ Cardinality({} \cup {Memory(head, size, aligned)}) = Cardinality({}) + 1
    BY <1>2, <1>4, <2>1, OnePieceMore
  <2> QED
    BY <2>2
<1>6. table_ \in Seq(InternalKeys) /\ Len(table_) = 0
  BY <1>3
<1>7. Cardinality(allocated) = 1
  BY <1>3, <1>5, EmptyArenaFacts
<1>8. ArenaShape(arena_)
  BY <1>3, <1>4 DEF Fits
<1> QED
  BY <1>3, <1>4, <1>5, <1>6, <1>7, <1>8 DEF MemoryInv

LEMMA CountLessBounded ==
    ASSUME table_ \in Seq(InternalKeys), NEW key
    PROVE  CountLess(key) \in 0 .. Len(table_)
<1> DEFINE L == Len(table_)
           Less == {i \in 1 .. L : Compare(table_[i], key) < 0}
<1>1. L \in Nat
  OBVIOUS
<1>2. IsFiniteSet(1 .. L) /\ Cardinality(1 .. L) = L
  BY <1>1, FS_Interval
<1>3. Less \in SUBSET (1 .. L)
  OBVIOUS
<1> HIDE DEF Less, L
<1>4. IsFiniteSet(Less) /\ Cardinality(Less) <= L
  BY <1>2, <1>3, FS_Subset
<1>5. Cardinality(Less) \in Nat
  BY <1>4, FS_CardinalityType
<1>6. CountLess(key) = Cardinality(Less)
  BY DEF CountLess, Less, L
<1> QED
  BY <1>1, <1>4, <1>5, <1>6 DEF L

\* The two allocations of an Add, one after the other.
LEMMA TwoPiecesMore ==
    ASSUME ArenaShape(arena_), UsageSummed(arena_), Pieces(arena_, allocated),
           NEW m \in Nat \ {0}, NEW n \in Nat \ {0}
    PROVE  LET buf == Allocate(arena_, m)
               node == AllocateAligned(buf.arena, n)
               pieces == allocated \cup {Memory(buf, m, FALSE), Memory(node, n, TRUE)}
           IN  /\ ArenaShape(node.arena) /\ UsageSummed(node.arena) /\ Pieces(node.arena, pieces)
               /\ Cardinality(pieces) = Cardinality(allocated) + 2
<1> DEFINE buf == Allocate(arena_, m)
           node == AllocateAligned(buf.arena, n)
           one == allocated \cup {Memory(buf, m, FALSE)}
           pieces == allocated \cup {Memory(buf, m, FALSE), Memory(node, n, TRUE)}
<1>1. Fits(arena_, buf, m) /\ UsageSummed(buf.arena)
  BY AllocateFits
<1> HIDE DEF buf
<1>2. ArenaShape(buf.arena)
  BY <1>1 DEF Fits
<1>3. Fits(buf.arena, node, n) /\ node.at.offset % align = 0 /\ UsageSummed(node.arena)
  BY <1>1, <1>2, AllocateAlignedFits
<1> HIDE DEF node
<1>4. ArenaShape(node.arena)
  BY <1>3 DEF Fits
<1>5. Pieces(buf.arena, one) /\ Cardinality(one) = Cardinality(allocated) + 1
  <2>1. ASSUME NEW aligned \in BOOLEAN, aligned = FALSE
        PROVE  /\ Pieces(buf.arena, allocated \cup {Memory(buf, m, aligned)})
               /\ Cardinality(allocated \cup {Memory(buf, m, aligned)}) = Cardinality(allocated) + 1
    <3>1. aligned => buf.at.offset % align = 0
      BY <2>1
    <3> QED
      BY <1>1, <3>1, OnePieceMore
  <2> QED
    BY <2>1
<1> HIDE DEF one
<1>6. /\ Pieces(node.arena, one \cup {Memory(node, n, TRUE)})
      /\ Cardinality(one \cup {Memory(node, n, TRUE)}) = Cardinality(one) + 1
  <2>1. ASSUME NEW aligned \in BOOLEAN
        PROVE  /\ Pieces(node.arena, one \cup {Memory(node, n, aligned)})
               /\ Cardinality(one \cup {Memory(node, n, aligned)}) = Cardinality(one) + 1
    BY <1>2, <1>3, <1>5, OnePieceMore
  <2> QED
    BY <2>1
<1>7. one \cup {Memory(node, n, TRUE)} = pieces
  BY DEF one
<1>8. Cardinality(allocated) \in Nat
  BY FS_CardinalityType DEF Pieces
<1>9. Cardinality(pieces) = Cardinality(allocated) + 2
  <2>1. Cardinality(pieces) = Cardinality(one) + 1
    BY <1>6, <1>7
  <2> HIDE DEF pieces
  <2> QED
    BY <1>5, <1>8, <2>1
<1>10. Pieces(node.arena, pieces)
  BY <1>6, <1>7
<1> QED
  BY <1>3, <1>4, <1>9, <1>10 DEF buf, node

LEMMA AddKeepsMemory ==
    ASSUME MemoryInv, NEW s \in Sequences_, NEW type \in ValueTypes, NEW k \in UserKeys,
           NEW v \in Nat, NEW h \in Heights, Add(s, type, k, v, h)
    PROVE  MemoryInv'
<1> DEFINE entry == [key |-> k, tag |-> PackSequenceAndType(s, type)]
           n == CountLess(entry)
           buf == Allocate(arena_, EncodedLen(k, v))
           node == AllocateAligned(buf.arena, NodeSize(h))
<1>1. alive = TRUE
  BY DEF Add, MemoryInv
<1>2. alive' = alive
  BY DEF Add
<1>3. table_' = Insertion(table_, n, entry)
  BY Zenon DEF Add, Insertion
<1>4. arena_' = node.arena
  BY Zenon DEF Add
<1>5. allocated' = allocated \cup {Memory(buf, EncodedLen(k, v), FALSE), Memory(node, NodeSize(h), TRUE)}
  BY Zenon DEF Add
<1>6. entry \in InternalKeys
  <2>1. s \in Nat
    BY MemTableAssumption
  <2> QED
    BY <2>1, TagParts DEF InternalKeys
<1>7. table_ \in Seq(InternalKeys) /\ Len(table_) \in Nat
  BY DEF MemoryInv
<1> HIDE DEF entry
<1>8. n \in 0 .. Len(table_)
  BY <1>7, CountLessBounded
<1> HIDE DEF n
<1>9. table_' \in Seq(InternalKeys) /\ Len(table_') = Len(table_) + 1
  BY <1>3, <1>6, <1>7, <1>8, Inserted
<1>10. EncodedLen(k, v) \in Nat \ {0}
  <2>1. Len(k) \in Nat
    BY MemTableAssumption
  <2> QED
    BY <2>1 DEF EncodedLen
<1>11. NodeSize(h) \in Nat \ {0}
  BY NodeSizes, MemTableAssumption
<1>12. ArenaShape(arena_) /\ UsageSummed(arena_) /\ Pieces(arena_, allocated)
  BY DEF MemoryInv
<1>13. /\ ArenaShape(arena_') /\ UsageSummed(arena_') /\ Pieces(arena_', allocated')
       /\ Cardinality(allocated') = Cardinality(allocated) + 2
  BY <1>4, <1>5, <1>10, <1>11, <1>12, TwoPiecesMore
<1>14. Cardinality(allocated) = 1 + 2 * Len(table_)
  BY <1>1 DEF MemoryInv
<1>15. Cardinality(allocated') = 1 + 2 * Len(table_')
  BY <1>7, <1>9, <1>13, <1>14
<1> QED
  BY <1>1, <1>2, <1>9, <1>13, <1>15 DEF MemoryInv, ArenaShape, UsageSummed, Pieces, PieceInside, PiecesApart, IsUsage

LEMMA UnrefKeepsMemory ==
    ASSUME MemoryInv, Unref
    PROVE  MemoryInv'
<1>1. CASE refs_' > 0
  <2>1. table_' = table_ /\ alive' = TRUE /\ arena_' = arena_ /\ allocated' = allocated
    BY <1>1 DEF Unref
  <2>2. alive = TRUE
    BY DEF Unref, MemoryInv
  <2>3. Cardinality(allocated) = 1 + 2 * Len(table_)
    BY <2>2 DEF MemoryInv
  <2> QED
    BY <2>1, <2>3 DEF MemoryInv, ArenaShape, UsageSummed, Pieces, PieceInside, PiecesApart, IsUsage
<1>2. CASE ~ (refs_' > 0)
  <2>1. table_' = <<>> /\ arena_' = EmptyArena /\ allocated' = {}
    BY <1>2 DEF Unref
  <2>2. alive' = FALSE
    <3>1. alive' = (refs_' > 0)
      BY Zenon DEF Unref
    <3>2. (refs_' > 0) \in BOOLEAN
      OBVIOUS
    <3> QED
      BY <1>2, <3>1, <3>2, Zenon
  <2>3. table_' \in Seq(InternalKeys)
    BY <2>1
  <2>4. ArenaShape(arena_') /\ UsageSummed(arena_') /\ Pieces(arena_', allocated') /\ Cardinality(allocated') = 0
    BY <2>1, EmptyArenaFacts
  <2> QED
    BY <2>2, <2>3, <2>4 DEF MemoryInv, ArenaShape, UsageSummed, Pieces, PieceInside, PiecesApart, IsUsage
<1> QED
  BY <1>1, <1>2

LEMMA MemoryStep ==
    ASSUME MemoryInv, [Next]_vars
    PROVE  MemoryInv'
<1>1. ASSUME table_' = table_, alive' = alive, arena_' = arena_, allocated' = allocated
      PROVE  MemoryInv'
  BY <1>1 DEF MemoryInv, ArenaShape, UsageSummed, Pieces, PieceInside, PiecesApart, IsUsage
<1>2. CASE \E s \in Sequences_, k \in UserKeys, h \in Heights :
            Add(s, kTypeDeletion, k, 0, h) \/ \E v \in ValueSizes : Add(s, kTypeValue, k, v, h)
  <2>1. kTypeDeletion \in ValueTypes /\ kTypeValue \in ValueTypes
    BY DEF ValueTypes
  <2>2. 0 \in Nat /\ \A v \in ValueSizes : v \in Nat
    BY MemTableAssumption
  <2> QED
    BY <1>2, <2>1, <2>2, AddKeepsMemory
<1>3. ASSUME NEW e, MoveTo(e)
      PROVE  MemoryInv'
  BY <1>1, <1>3 DEF MoveTo
<1>4. CASE (\E s \in Sequences_, k \in UserKeys : Seek(k, s)) \/ SeekToFirst \/ SeekToLast \/ IterNext \/ Prev
  BY <1>3, <1>4 DEF Seek, SeekToFirst, SeekToLast, IterNext, Prev
<1>5. CASE Ref
  BY <1>1, <1>5 DEF Ref
<1>6. CASE Unref
  BY <1>6, UnrefKeepsMemory
<1>7. CASE Deleted \/ UNCHANGED vars
  BY <1>1, <1>7 DEF Deleted, vars
<1> QED
  BY <1>2, <1>4, <1>5, <1>6, <1>7 DEF Next

\* The blocks determine the sum: two functions that follow the recursion agree, since they
\* would have to differ first at some block.
LEMMA UsageUnique ==
    ASSUME NEW blocks, Len(blocks) \in Nat, NEW f, IsUsage(f, blocks), NEW g, IsUsage(g, blocks)
    PROVE  f[Len(blocks)] = g[Len(blocks)]
<1> DEFINE L == Len(blocks)
           T == {n \in 0 .. L : f[n] # g[n]}
<1> SUFFICES ASSUME f[L] # g[L]
             PROVE  FALSE
  OBVIOUS
<1>1. /\ \A n \in 0 .. L : f[n] = IF n = 0 THEN 0 ELSE f[n - 1] + blocks[n] + PointerSize
      /\ \A n \in 0 .. L : g[n] = IF n = 0 THEN 0 ELSE g[n - 1] + blocks[n] + PointerSize
  BY DEF IsUsage
<1>2. L \in T /\ T \subseteq Nat
  OBVIOUS
<1>3. PICK n \in T : \A y \in T : n <= y
  BY <1>2, Least, Zenon
<1>4. n \in 0 .. L /\ f[n] # g[n]
  OBVIOUS
<1>5. n # 0
  BY <1>1, <1>4
<1>6. n - 1 \in 0 .. L /\ n - 1 < n
  BY <1>4, <1>5
<1>7. f[n - 1] = g[n - 1]
  BY <1>3, <1>4, <1>6
<1> QED
  BY <1>1, <1>4, <1>5, <1>7

\* All memory is inside a block, nodes aligned, no byte given out twice, one piece for
\* each entry and node, and the usage the sum of the blocks: for every size of block,
\* alignment, key, value and height.
THEOREM MemoryIsExact == Spec => []MemoryExact
<1>1. Init => MemoryInv
  BY MemoryInit
<1>2. MemoryInv /\ [Next]_vars => MemoryInv'
  BY MemoryStep
<1>3. MemoryInv => MemoryExact
  <2> SUFFICES ASSUME MemoryInv
               PROVE  MemoryExact
    OBVIOUS
  <2>1. Pieces(arena_, allocated)
    BY DEF MemoryInv
  <2>2. \A m \in allocated :
          /\ m.block \in 1 .. Len(arena_.blocks_) /\ m.last < arena_.blocks_[m.block]
          /\ m.aligned => m.first % align = 0
    BY <2>1 DEF Pieces, PieceInside
  <2>3. \A m, n \in allocated : m # n /\ m.block = n.block => m.last < n.first \/ n.last < m.first
    BY <2>1 DEF Pieces, PiecesApart
  <2>4. Cardinality(allocated) = IF alive THEN 1 + 2 * Len(table_) ELSE 0
    BY DEF MemoryInv
  <2>5. arena_.memory_usage_ = BlockUsage[Len(arena_.blocks_)]
    <3>1. PICK f : IsUsage(f, arena_.blocks_) /\ f[Len(arena_.blocks_)] = arena_.memory_usage_
      BY DEF MemoryInv, UsageSummed
    <3>2. Len(arena_.blocks_) \in Nat
      BY DEF MemoryInv, ArenaShape, Arenas
    <3>3. BlockUsage = CHOOSE g : IsUsage(g, arena_.blocks_)
      BY DEF BlockUsage, IsUsage
    <3>4. IsUsage(BlockUsage, arena_.blocks_)
      BY <3>1, <3>3
    <3> QED
      BY <3>1, <3>2, <3>4, UsageUnique
  <2> QED
    BY <2>2, <2>3, <2>4, <2>5 DEF MemoryExact
<1> QED
  BY <1>1, <1>2, <1>3, PTL DEF Spec
=============================================================================
