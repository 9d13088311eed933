---------------------------- MODULE HandleTable ----------------------------
(***************************************************************************)
(* util/cache.cc: HandleTable, the hash table of a cache shard.  list_     *)
(* holds the head of each bucket's chain; a chain is linked by next_hash   *)
(* of the entries.  The operators take and return the record c with the    *)
(* state of all shards, of which they touch list_ and elems_ of shard s    *)
(* and the next_hash of entries.                                           *)
(***************************************************************************)
EXTENDS Integers, FiniteSets, SequencesExt

CONSTANTS
    Entries, Nil,
    kInitialLength      \* the number of buckets a table starts with: 4 in the code

ASSUME TableAssumption ==
    /\ IsFiniteSet(Entries) /\ Nil \notin Entries
    /\ \A e \in Entries : e \notin Nat     \* an address is not the number of a bucket
    /\ \E n \in 0 .. 5 : kInitialLength = 2^n

\* The lengths Resize can choose: it doubles the first one, often enough for all entries.
Lengths ==
    LET doubled[j \in 0 .. Cardinality(Entries)] == IF j = 0 THEN kInitialLength ELSE 2 * doubled[j - 1]
    IN  {doubled[j] : j \in 0 .. Cardinality(Entries)}

length_(c, s) == Cardinality(DOMAIN c.list_[s])

\* hash & (length - 1), for a power of two
Bucket(h, length) == h % length

\* An LRUHandle** is the bucket or the entry in which the pointer is stored.
Deref(c, s, ptr) == IF ptr \in Entries THEN c.next_hash[ptr] ELSE c.list_[s][ptr]

Assign(c, s, ptr, e) ==
    IF ptr \in Entries THEN [c EXCEPT !.next_hash[ptr] = e] ELSE [c EXCEPT !.list_[s][ptr] = e]

\* The pointer to the key's entry, or the null pointer at the end of its chain.  A chain
\* is no longer than there are entries, or it is a cycle and the walk does not end.
FindPointer(c, s, key, hash) ==
    LET walk[n \in 0 .. Cardinality(Entries)] ==
            IF n = 0 THEN Bucket(hash, length_(c, s))
            ELSE LET ptr == walk[n - 1]
                     e == Deref(c, s, ptr)
                 IN  IF e # Nil /\ (c.hash[e] # hash \/ c.key[e] # key) THEN e ELSE ptr
    IN  walk[Cardinality(Entries)]

TableLookup(c, s, key, hash) == Deref(c, s, FindPointer(c, s, key, hash))

\* The entries of a bucket, from its head on.
Chain(c, s, b) ==
    LET walk[n \in 0 .. Cardinality(Entries)] ==
            IF n = 0 THEN <<>>
            ELSE LET t == walk[n - 1]
                     e == IF t = <<>> THEN c.list_[s][b] ELSE c.next_hash[Last(t)]
                 IN  IF Len(t) = n - 1 /\ e # Nil THEN Append(t, e) ELSE t
    IN  walk[Cardinality(Entries)]

\* Mutant: the chains move to the new list as they are, under their old numbers.
ResizeKeepsChains(c, s) ==
    LET new_length == Min({n \in Lengths : n >= c.elems_[s]})
    IN  [c EXCEPT !.list_[s] = [b \in 0 .. new_length - 1 |-> IF b \in DOMAIN @ THEN @[b] ELSE Nil]]

\* Every entry, in the order of the old chains, becomes the head of its new one.
Resize(c, s) ==
    LET new_length == Min({n \in Lengths : n >= c.elems_[s]})
        Move(d, h) == LET b == Bucket(d.hash[h], new_length)
                      IN  [d EXCEPT !.next_hash[h] = d.list_[s][b], !.list_[s][b] = h]
        old == FlattenSeq([j \in 1 .. length_(c, s) |-> Chain(c, s, j - 1)])
        loop[n \in 0 .. Len(old)] ==
            IF n = 0 THEN [c EXCEPT !.list_[s] = [b \in 0 .. new_length - 1 |-> Nil]] ELSE Move(loop[n - 1], old[n])
    IN  loop[Len(old)]

\* An entry that leaves the table: its next_hash, which nobody reads any more, is forgotten.
Drop(c, e) == [c EXCEPT !.next_hash[e] = Nil]

\* h takes the place of the entry of its key, which the caller gets (Nil: there was none),
\* or the end of the chain.
TableInsert(c, s, h) ==
    LET ptr == FindPointer(c, s, c.key[h], c.hash[h])
        old == Deref(c, s, ptr)
        d == Assign([c EXCEPT !.next_hash[h] = IF old = Nil THEN Nil ELSE c.next_hash[old]], s, ptr, h)
    IN  IF old # Nil THEN Drop(d, old)
        ELSE IF c.elems_[s] + 1 > length_(c, s) THEN Resize([d EXCEPT !.elems_[s] = @ + 1], s)
        ELSE [d EXCEPT !.elems_[s] = @ + 1]

TableRemove(c, s, key, hash) ==
    LET ptr == FindPointer(c, s, key, hash)
        result == Deref(c, s, ptr)
    IN  IF result = Nil THEN c
        ELSE Drop([Assign(c, s, ptr, c.next_hash[result]) EXCEPT !.elems_[s] = @ - 1], result)
============================================================================
