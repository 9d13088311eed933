----------------------------- MODULE LRUCache -----------------------------
(***************************************************************************)
(* util/cache.cc: LRUCache, a shard of the cache.  Every method holds      *)
(* mutex_ from its first line to its last and touches nothing outside its  *)
(* shard but the entry it is given or allocates: it is one step, here an   *)
(* operator on the record c with the state of all shards, of which it      *)
(* changes shard s.                                                        *)
(*                                                                         *)
(* The two circular doubly linked lists are kept as the pointers they are. *)
(* An entry is an address: malloc may return one that was freed before.    *)
(* refs is 0 for memory that is not allocated.                             *)
(***************************************************************************)
EXTENDS HandleTable

lru_(s) == <<"lru_", s>>

in_use_(s) == <<"in_use_", s>>

\* The capacity of the cache's shards is not part of the record: SetCapacity is called
\* once, before anything else.
EmptyShards(Shards) ==
    LET Heads == {lru_(s) : s \in Shards} \cup {in_use_(s) : s \in Shards}
        itself == [n \in Entries \cup Heads |-> IF n \in Heads THEN n ELSE Nil]
    IN  [next |-> itself, prev |-> itself,
         key |-> [e \in Entries |-> Nil], charge |-> [e \in Entries |-> 0],
         in_cache |-> [e \in Entries |-> FALSE], refs |-> [e \in Entries |-> 0],
         hash |-> [e \in Entries |-> 0], next_hash |-> [e \in Entries |-> Nil],
         usage_ |-> [s \in Shards |-> 0], elems_ |-> [s \in Shards |-> 0],
         list_ |-> [s \in Shards |-> [b \in 0 .. kInitialLength - 1 |-> Nil]]]

LRU_Remove(c, e) == [c EXCEPT !.prev[c.next[e]] = c.prev[e], !.next[c.prev[e]] = c.next[e]]

\* Mutant: the new entry becomes the oldest.
LRU_AppendFront(c, list, e) ==
    [c EXCEPT !.prev[e] = list, !.next[e] = c.next[list],
              !.prev[c.next[list]] = e, !.next[list] = e]

LRU_Append(c, list, e) ==
    [c EXCEPT !.next[e] = list, !.prev[e] = c.prev[list],
              !.next[c.prev[list]] = e, !.prev[list] = e]

\* Mutant: an entry on lru_ stays there when a client takes a handle.
RefInPlace(c, s, e) == [c EXCEPT !.refs[e] = @ + 1]

Ref(c, s, e) ==
    LET d == IF c.refs[e] = 1 /\ c.in_cache[e] THEN LRU_Append(LRU_Remove(c, e), in_use_(s), e) ELSE c
    IN  [d EXCEPT !.refs[e] = @ + 1]

\* free(e): what it holds is lost.
Free(c, e) ==
    [c EXCEPT !.next[e] = Nil, !.prev[e] = Nil, !.key[e] = Nil, !.charge[e] = 0, !.hash[e] = 0]

\* At refs 0 the deleter is called and the entry freed.
Unref(c, s, e) ==
    LET d == [c EXCEPT !.refs[e] = @ - 1]
    IN  IF d.refs[e] = 0 THEN Free(d, e)
        ELSE IF d.in_cache[e] /\ d.refs[e] = 1 THEN LRU_Append(LRU_Remove(d, e), lru_(s), e)
        ELSE d

\* Mutant: the charge is not given back.
FinishEraseKeepsCharge(c, s, e) ==
    IF e = Nil THEN c ELSE Unref([LRU_Remove(c, e) EXCEPT !.in_cache[e] = FALSE], s, e)

\* e has just been taken out of table_ (Nil: there was none).
FinishErase(c, s, e) ==
    IF e = Nil THEN c
    ELSE Unref([LRU_Remove(c, e) EXCEPT !.in_cache[e] = FALSE, !.usage_[s] = @ - c.charge[e]], s, e)

\* Erase: remove the key from table_, then FinishErase.
EraseKey(c, s, k, hash) == FinishErase(TableRemove(c, s, k, hash), s, TableLookup(c, s, k, hash))

\* The loops of Insert and Prune: while usage_ exceeds the limit, the oldest entry of lru_
\* is evicted.
EvictOldest(c, s, limit) ==
    LET loop[n \in 0 .. Cardinality(Entries)] ==
            IF n = 0 THEN c
            ELSE LET d == loop[n - 1]
                     old == d.next[lru_(s)]
                 IN  IF d.usage_[s] > limit /\ old # lru_(s) THEN EraseKey(d, s, d.key[old], d.hash[old]) ELSE d
    IN  loop[Cardinality(Entries)]

\* Mutant: the cache's own reference is forgotten.
AddToCacheNoRef(c, s, e) ==
    LET linked == LRU_Append([c EXCEPT !.in_cache[e] = TRUE, !.usage_[s] = @ + c.charge[e]], in_use_(s), e)
    IN  FinishErase(TableInsert(linked, s, e), s, TableLookup(linked, s, c.key[e], c.hash[e]))

\* malloc'ed entry e is linked into in_use_ and table_, where it replaces an older one.
AddToCache(c, s, e) ==
    LET linked == LRU_Append([c EXCEPT !.refs[e] = @ + 1, !.in_cache[e] = TRUE,
                                       !.usage_[s] = @ + c.charge[e]], in_use_(s), e)
    IN  FinishErase(TableInsert(linked, s, e), s, TableLookup(linked, s, c.key[e], c.hash[e]))

\* With capacity 0 the entry is the caller's alone.
InsertInto(c, s, k, hash, e, n, capacity_) ==
    LET new == [c EXCEPT !.key[e] = k, !.hash[e] = hash, !.charge[e] = n, !.in_cache[e] = FALSE, !.refs[e] = 1]
    IN  EvictOldest(IF capacity_ > 0 THEN AddToCache(new, s, e) ELSE new, s, capacity_)

\* usage_ is not negative: the loop of Prune, which does not look at it, is that of Insert
\* with a limit below 0.
PruneShard(c, s) == EvictOldest(c, s, -1)

\* The entries of a list, from the one after its head on (lru_: the oldest) to the head.
ListOf(c, list) ==
    LET size == Cardinality(Entries)
        walk[n \in 0 .. size] ==
            IF n = 0 THEN <<>>
            ELSE LET t == walk[n - 1]
                     e == c.next[IF t = <<>> THEN list ELSE Last(t)]
                 IN  IF e \in Entries /\ Len(t) = n - 1 THEN Append(t, e) ELSE t
    IN  walk[size]

\* ~LRUCache drops the cache's reference to each entry of lru_, which it asserts to be the
\* last one.
DestroyShard(c, s) ==
    LET t == ListOf(c, lru_(s))
        loop[n \in 0 .. Len(t)] ==
            IF n = 0 THEN c ELSE Unref([loop[n - 1] EXCEPT !.in_cache[t[n]] = FALSE], s, t[n])
    IN  loop[Len(t)]
===========================================================================
