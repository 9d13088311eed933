------------------------------ MODULE MemTable ------------------------------
(***************************************************************************)
(* The in-memory table (db/memtable.cc) on its internal keys               *)
(* (db/dbformat.cc): every Add of a user key is an entry of its own, with  *)
(* the sequence number of the write, and a Get reads the table as of a     *)
(* sequence number.  Entries and the nodes of the skip list lie in the     *)
(* table's arena.                                                          *)
(*                                                                         *)
(* Each operation is one step: module SkipList shows that the skip list    *)
(* under the table, with one writer and any number of readers, behaves as  *)
(* a set whose operations are atomic.  The list is a sequence here: what a *)
(* search compares less than its key is a prefix of it.                    *)
(***************************************************************************)
EXTENDS Arena, FiniteSetsExt

CONSTANTS
    UserKeys,               \* user keys, as sequences of bytes
    MaxByte,                \* the largest byte: 0xff in the code
    Sequences_,             \* sequence numbers
    kMaxSequenceNumber,
    UserCompare(_, _),      \* the user comparator of the InternalKeyComparator
    ValueSizes,             \* lengths of values
    Heights,                \* heights that RandomHeight may give a node
    MaxEntries,             \* bound: entries added
    MaxRefs                 \* bound: references held

ASSUME MemTableAssumption ==
    /\ Sequences_ \subseteq Nat
    /\ kMaxSequenceNumber \in Nat /\ \A s \in Sequences_ : s <= kMaxSequenceNumber
    /\ MaxByte \in Nat /\ UserKeys \subseteq Seq(0 .. MaxByte)
    /\ ValueSizes \subseteq 0 .. 127      \* the length takes one byte
    /\ Heights \subseteq Nat \ {0} /\ \E kMaxHeight \in Heights : \A h \in Heights : h <= kMaxHeight
    /\ MaxEntries \in Nat /\ MaxRefs \in Nat \ {0}

kTypeDeletion == 0
kTypeValue == 1
kValueTypeForSeek == kTypeValue
ValueTypes == {kTypeDeletion, kTypeValue}

VARIABLES
    table_,     \* the entries of the skip list, in its order
    refs_,
    alive,      \* the table has not been deleted
    iter,       \* the entry a MemTableIterator is at, Null if it is not Valid
    arena_,
    allocated,  \* ghost: the memory given out by the arena
    added       \* ghost: the entries added

vars == <<table_, refs_, alive, iter, arena_, allocated, added>>

Null == [key |-> <<>>, tag |-> -1]

\* memcmp, of the first n bytes.
memcmp(a, b, n) ==
    IF \A i \in 1 .. n : a[i] = b[i] THEN 0
    ELSE LET i == CHOOSE i \in 1 .. n : a[i] # b[i] /\ \A j \in 1 .. i - 1 : a[j] = b[j]
         IN  IF a[i] < b[i] THEN -1 ELSE 1

\* Slice::compare, the comparison of the bytewise comparator.
SliceCompare(a, b) ==
    LET min_size == IF Len(a) > Len(b) THEN Len(b) ELSE Len(a)
        r == memcmp(a, b, min_size)
    IN  IF r # 0 THEN r ELSE IF Len(a) < Len(b) THEN -1 ELSE 1

\* A user comparator of the caller's that keeps what include/comparator.h asks of it.
ThreeWayCompare(a, b) == IF a = b THEN 0 ELSE SliceCompare(a, b)

PackSequenceAndType(seq, t) == seq * 256 + t

\* Mutant: among the entries of a user key, the oldest is first.
CompareOldestFirst(a, b) ==
    LET r == UserCompare(a.key, b.key)
    IN  IF r # 0 THEN r ELSE IF a.tag > b.tag THEN 1 ELSE IF a.tag < b.tag THEN -1 ELSE 0

\* InternalKeyComparator::Compare: the newest entry of a user key is first.
Compare(a, b) ==
    LET r == UserCompare(a.key, b.key)
    IN  IF r # 0 THEN r ELSE IF a.tag > b.tag THEN -1 ELSE IF a.tag < b.tag THEN 1 ELSE 0

(***************************************************************************)
(* Keys that separate others, for the index of a table file.               *)
(***************************************************************************)
\* The first i bytes of a key, the last of them one higher.
Increment(k, i) == [SubSeq(k, 1, i) EXCEPT ![i] = @ + 1]

\* Mutant: the incremented byte may reach that of the limit.
UserSeparatorUpTo(start, limit) ==
    LET differ == {i \in 1 .. Len(start) : i <= Len(limit) /\ start[i] # limit[i]}
        i == CHOOSE i \in differ : \A j \in differ : i <= j
    IN  IF differ # {} /\ start[i] < MaxByte /\ start[i] + 1 <= limit[i] THEN Increment(start, i) ELSE start

\* BytewiseComparatorImpl::FindShortestSeparator: a prefix of the limit, or the other way
\* round, is left as it is.
UserSeparator(start, limit) ==
    LET differ == {i \in 1 .. Len(start) : i <= Len(limit) /\ start[i] # limit[i]}
        i == CHOOSE i \in differ : \A j \in differ : i <= j
    IN  IF differ # {} /\ start[i] < MaxByte /\ start[i] + 1 < limit[i] THEN Increment(start, i) ELSE start

\* BytewiseComparatorImpl::FindShortSuccessor.
UserSuccessor(k) ==
    LET small == {i \in 1 .. Len(k) : k[i] # MaxByte}
    IN  IF small = {} THEN k ELSE Increment(k, CHOOSE i \in small : \A j \in small : i <= j)

\* The internal key takes the new user key if that is shorter and larger, with the tag
\* that puts it before all entries of that user key.
Shortened(key, user_key) ==
    IF Len(user_key) < Len(key.key) /\ UserCompare(key.key, user_key) < 0
    THEN [key |-> user_key, tag |-> PackSequenceAndType(kMaxSequenceNumber, kValueTypeForSeek)]
    ELSE key

FindShortestSeparator(start, limit) == Shortened(start, UserSeparator(start.key, limit.key))

FindShortSuccessor(key) == Shortened(key, UserSuccessor(key.key))

\* How many entries the skip list's searches leave behind.
CountLess(key) == Cardinality({i \in 1 .. Len(table_) : Compare(table_[i], key) < 0})

EntryAt(i) == IF i \in 1 .. Len(table_) THEN table_[i] ELSE Null

\* SkipList::FindGreaterOrEqual and FindLessThan.
FindGreaterOrEqual(key) == EntryAt(CountLess(key) + 1)

\* Mutant: the entries of the same user key are all passed over.
FindLessUserKey(key) == EntryAt(Cardinality({i \in 1 .. Len(table_) : UserCompare(table_[i].key, key.key) < 0}))

FindLessThan(key) == EntryAt(CountLess(key))

\* LookupKey: it comes before every entry that is not newer than the snapshot.
LookupKey(k, s) == [key |-> k, tag |-> PackSequenceAndType(s, kValueTypeForSeek)]

\* The size of an entry, with one byte for each of the two lengths, and of a node.
EncodedLen(k, val_size) == 1 + (Len(k) + 8) + 1 + val_size

NodeSize(height) == 2 * PointerSize + PointerSize * (height - 1)

Memory(result, size, aligned) ==
    [block |-> result.at.block, first |-> result.at.offset, last |-> result.at.offset + size - 1, aligned |-> aligned]

\* The entry is encoded into memory of the arena, and Insert allocates a node for it.  A
\* sequence number names one write: no other entry of the key has it.
Add(s, type, k, val_size, height) ==
    LET entry == [key |-> k, tag |-> PackSequenceAndType(s, type)]
        n == CountLess(entry)
        buf == Allocate(arena_, EncodedLen(k, val_size))
        node == AllocateAligned(buf.arena, NodeSize(height))
    IN  /\ alive /\ refs_ > 0 /\ Len(table_) < MaxEntries
        /\ \A e \in added : ~ (e.key = k /\ e.tag \div 256 = s)
        /\ table_' = SubSeq(table_, 1, n) \o <<entry>> \o SubSeq(table_, n + 1, Len(table_))
        /\ arena_' = node.arena
        /\ allocated' = allocated \cup {Memory(buf, EncodedLen(k, val_size), FALSE), Memory(node, NodeSize(height), TRUE)}
        /\ added' = added \cup {entry}
        /\ UNCHANGED <<refs_, alive, iter>>

\* What Get, which changes nothing, returns: true with the value, which is the one the entry was added with, true
\* with the status NotFound, or false.
Outcome(k, s) ==
    LET e == FindGreaterOrEqual(LookupKey(k, s))
    IN  IF e = Null \/ UserCompare(e.key, k) # 0 THEN [returns |-> FALSE, status |-> "ok", value |-> Null]
        ELSE IF e.tag % 256 = kTypeValue THEN [returns |-> TRUE, status |-> "ok", value |-> e]
        ELSE [returns |-> TRUE, status |-> "NotFound", value |-> Null]

(***************************************************************************)
(* A MemTableIterator.                                                     *)
(***************************************************************************)
MoveTo(e) ==
    /\ alive /\ refs_ > 0
    /\ iter' = e
    /\ UNCHANGED <<table_, refs_, alive, arena_, allocated, added>>

Valid == iter # Null

Position == CHOOSE i \in 1 .. Len(table_) : table_[i] = iter

Seek(k, s) == MoveTo(FindGreaterOrEqual(LookupKey(k, s)))

SeekToFirst == MoveTo(EntryAt(1))

SeekToLast == MoveTo(EntryAt(Len(table_)))

IterNext == Valid /\ MoveTo(EntryAt(Position + 1))

Prev == Valid /\ MoveTo(FindLessThan(iter))

(***************************************************************************)
(* References.                                                             *)
(***************************************************************************)
Ref ==
    /\ alive /\ refs_ < MaxRefs
    /\ refs_' = refs_ + 1
    /\ UNCHANGED <<table_, alive, iter, arena_, allocated, added>>

\* The last one out deletes the table, with its arena; iterators are gone by then.
Unref ==
    /\ alive /\ refs_ > 0 /\ (refs_ = 1 => ~ Valid)
    /\ refs_' = refs_ - 1
    /\ alive' = (refs_' > 0)
    /\ table_' = IF refs_' > 0 THEN table_ ELSE <<>>
    /\ arena_' = IF refs_' > 0 THEN arena_ ELSE EmptyArena
    /\ allocated' = IF refs_' > 0 THEN allocated ELSE {}
    /\ UNCHANGED <<iter, added>>

Deleted == ~ alive /\ UNCHANGED vars

\* The skip list's head_ has the greatest height.
Init ==
    LET head_ == AllocateAligned(EmptyArena, NodeSize(Max(Heights)))
    IN  /\ table_ = <<>> /\ refs_ = 0 /\ alive = TRUE /\ iter = Null /\ added = {}
        /\ arena_ = head_.arena
        /\ allocated = {Memory(head_, NodeSize(Max(Heights)), TRUE)}

Next ==
    \/ \E s \in Sequences_, k \in UserKeys, h \in Heights :
        Add(s, kTypeDeletion, k, 0, h) \/ \E v \in ValueSizes : Add(s, kTypeValue, k, v, h)
    \/ \E s \in Sequences_, k \in UserKeys : Seek(k, s)
    \/ SeekToFirst
    \/ SeekToLast
    \/ IterNext
    \/ Prev
    \/ Ref
    \/ Unref
    \/ Deleted

Spec == Init /\ [][Next]_vars

(***************************************************************************)
(* Properties.                                                             *)
(***************************************************************************)
\* The entries of user key k that snapshot s sees.
Visible(k, s) == {e \in added : e.key = k /\ e.tag \div 256 <= s}

\* Get is a read of the snapshot: of the entries of the user key added with a sequence
\* number up to the snapshot's, in whatever order, it returns the newest, NotFound if that
\* is a deletion, and false if there is none (memtable.h, Get).
GetReadsSnapshot ==
    alive => \A k \in UserKeys, s \in Sequences_ :
        LET outcome == Outcome(k, s)
        IN  IF Visible(k, s) = {} THEN ~ outcome.returns
            ELSE \E e \in Visible(k, s) :
                    /\ \A f \in Visible(k, s) : f.tag <= e.tag
                    /\ outcome.returns
                    /\ IF e.tag % 256 = kTypeValue THEN outcome.status = "ok" /\ outcome.value = e
                       ELSE outcome.status = "NotFound"

\* An iterator that goes back does not miss an entry, and no entry comes twice, also when
\* entries were added since it got where it is: Prev moves to the entry that Next leaves
\* for the present one (include/iterator.h).
PrevUndoesNext ==
    [][Prev => IF iter' = Null THEN table_[1] = iter
               ELSE \E i \in 1 .. Len(table_) - 1 : table_[i] = iter' /\ table_[i + 1] = iter]_vars

\* Between two neighbours of the table, the shortened key is neither before the first nor
\* at or after the second, so that every search goes to the right side of it, and the
\* successor of an entry is not before it; the user comparator keeps the same of its own
\* keys (include/comparator.h).
SeparatorsSeparate ==
    /\ \A i \in 1 .. Len(table_) - 1 :
        LET a == table_[i]
            b == table_[i + 1]
            s == FindShortestSeparator(a, b)
            u == UserSeparator(a.key, b.key)
        IN  /\ Compare(a, s) <= 0 /\ Compare(s, b) < 0
            /\ UserCompare(a.key, b.key) < 0 => UserCompare(a.key, u) <= 0 /\ UserCompare(u, b.key) < 0
    /\ \A i \in 1 .. Len(table_) : Compare(table_[i], FindShortSuccessor(table_[i])) <= 0

\* What the first n blocks take, with their pointers in blocks_.
BlockUsage[n \in 0 .. Len(arena_.blocks_)] ==
    IF n = 0 THEN 0 ELSE BlockUsage[n - 1] + arena_.blocks_[n] + PointerSize

\* All memory the arena has given out lies inside its blocks, no byte of it twice, and the
\* nodes, whose pointers are atomics, aligned; ApproximateMemoryUsage is what the blocks
\* take.
MemoryExact ==
    /\ \A m \in allocated :
        /\ m.block \in 1 .. Len(arena_.blocks_) /\ m.last < arena_.blocks_[m.block]
        /\ m.aligned => m.first % align = 0
    /\ \A m, n \in allocated : m # n /\ m.block = n.block => m.last < n.first \/ n.last < m.first
    /\ Cardinality(allocated) = IF alive THEN 1 + 2 * Len(table_) ELSE 0
    /\ arena_.memory_usage_ = BlockUsage[Len(arena_.blocks_)]
=============================================================================
