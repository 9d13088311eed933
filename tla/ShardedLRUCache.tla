-------------------------- MODULE ShardedLRUCache --------------------------
(***************************************************************************)
(* util/cache.cc: ShardedLRUCache, the cache that NewLRUCache gives to any *)
(* number of threads.  A method on one key is one step, under the mutex_   *)
(* of the key's shard.  Prune and TotalCharge visit one shard after the    *)
(* other and hold no lock between two of them, so that other methods come  *)
(* in between (walk is such a call under way).                             *)
(***************************************************************************)
EXTENDS LRUCache

CONSTANTS
    Keys,
    HashRange,      \* hashes are below this: 2^32 in the code
    HashFunctions,  \* what HashSlice may be
    kNumShards,     \* 16 in the code
    Charges,        \* the charges clients insert with
    Capacities,     \* the capacities caches are made with
    MaxHandles,     \* bound: handles held at a time
    MaxInserts      \* bound: insertions during one TotalCharge

ASSUME CacheAssumption ==
    /\ Charges \subseteq Nat
    /\ Capacities \subseteq Nat
    /\ MaxHandles \in Nat \ {0} /\ MaxInserts \in Nat
    /\ kNumShards \in Nat \ {0} /\ HashRange \in Nat \ {0} /\ HashRange % kNumShards = 0
    /\ HashFunctions \subseteq [Keys -> 0 .. HashRange - 1]

Shards == 0 .. kNumShards - 1

\* The heads of the lists are members of their shard, not allocated entries.
ASSUME HeadsAssumption == \A s \in Shards : lru_(s) \notin Entries /\ in_use_(s) \notin Entries

VARIABLES
    HashSlice,      \* the hash of each key
    shard_,         \* the shards and their entries
    capacity_,      \* of each shard
    handles,        \* per entry: the handles clients hold (their duty: Release each once)
    walk,           \* the Prune or TotalCharge under way, the next shard it visits, total
    since,          \* ghost: the entries cached, for Prune also idle, since the call
    most,           \* ghost: the charges at the call of TotalCharge and those inserted since
    inserts,        \* the insertions since the call
    destroyed

ghosts == <<since, most, inserts>>
vars == <<HashSlice, shard_, capacity_, handles, walk, ghosts, destroyed>>

\* hash >> (32 - kNumShardBits): the low bits of the hash choose the bucket.
Shard(hash) == hash \div (HashRange \div kNumShards)

PerShard(capacity) == (capacity + (kNumShards - 1)) \div kNumShards

NoWalk == [call |-> "none", s |-> 0, total |-> 0]

Sum(S, val(_)) == MapThenSumSet(val, S)

Cached == {e \in Entries : shard_.in_cache[e]}

Charge(e) == shard_.charge[e]

\* The entries the call is about.
Concerned(call, c, held) ==
    {e \in Entries : c.in_cache[e] /\ (call = "TotalCharge" \/ (call = "Prune" /\ held[e] = 0))}

\* The ghosts in a step of a method that is not Insert.
Watch ==
    /\ since' = since \cap Concerned(walk.call, shard_', handles')
    /\ UNCHANGED <<most, inserts>>

MoreHandles == Sum(Entries, LAMBDA e : handles[e]) < MaxHandles

Insert(k, e, n) ==
    /\ ~ destroyed
    /\ shard_.refs[e] = 0 /\ MoreHandles
    /\ shard_' = InsertInto(shard_, Shard(HashSlice[k]), k, HashSlice[k], e, n, capacity_)
    /\ handles' = [handles EXCEPT ![e] = 1]
    /\ since' = (since \cap Concerned(walk.call, shard_', handles')) \ {e}
    /\ IF walk.call = "TotalCharge"
       THEN inserts < MaxInserts /\ inserts' = inserts + 1 /\ most' = most + n
       ELSE UNCHANGED <<most, inserts>>
    /\ UNCHANGED <<HashSlice, capacity_, walk, destroyed>>

Lookup(k) ==
    /\ ~ destroyed
    /\ LET s == Shard(HashSlice[k])
           e == TableLookup(shard_, s, k, HashSlice[k])
       IN  /\ e # Nil
           /\ MoreHandles
           /\ shard_' = Ref(shard_, s, e)
           /\ handles' = [handles EXCEPT ![e] = @ + 1]
    /\ Watch
    /\ UNCHANGED <<HashSlice, capacity_, walk, destroyed>>

\* The shard is found by the hash kept in the entry.
Release(e) ==
    /\ ~ destroyed
    /\ handles[e] > 0
    /\ shard_' = Unref(shard_, Shard(shard_.hash[e]), e)
    /\ handles' = [handles EXCEPT ![e] = @ - 1]
    /\ Watch
    /\ UNCHANGED <<HashSlice, capacity_, walk, destroyed>>

Erase(k) ==
    /\ ~ destroyed
    /\ shard_' = EraseKey(shard_, Shard(HashSlice[k]), k, HashSlice[k])
    /\ UNCHANGED <<HashSlice, capacity_, handles, walk, destroyed>>
    /\ Watch

\* Prune or TotalCharge is called.
Call(method) ==
    /\ ~ destroyed /\ walk = NoWalk
    /\ walk' = [walk EXCEPT !.call = method]
    /\ since' = Concerned(method, shard_, handles)
    /\ most' = IF method = "TotalCharge" THEN Sum(Cached, Charge) ELSE 0
    /\ UNCHANGED <<HashSlice, shard_, capacity_, handles, inserts, destroyed>>

Visiting(call) == walk.call = call /\ walk.s \in Shards

\* Mutant: Prune begins with the second shard.
PruneNextSkipsFirst ==
    /\ Visiting("Prune")
    /\ shard_' = IF walk.s = 0 THEN shard_ ELSE PruneShard(shard_, walk.s)
    /\ walk' = [walk EXCEPT !.s = @ + 1]
    /\ UNCHANGED <<HashSlice, capacity_, handles, destroyed>>
    /\ Watch

PruneNext ==
    /\ Visiting("Prune")
    /\ shard_' = PruneShard(shard_, walk.s)
    /\ walk' = [walk EXCEPT !.s = @ + 1]
    /\ UNCHANGED <<HashSlice, capacity_, handles, destroyed>>
    /\ Watch

TotalChargeNext ==
    /\ Visiting("TotalCharge")
    /\ walk' = [walk EXCEPT !.s = @ + 1, !.total = @ + shard_.usage_[walk.s]]
    /\ UNCHANGED <<HashSlice, shard_, capacity_, handles, ghosts, destroyed>>

Return ==
    /\ walk.s = kNumShards
    /\ walk' = NoWalk
    /\ since' = {} /\ most' = 0 /\ inserts' = 0
    /\ UNCHANGED <<HashSlice, shard_, capacity_, handles, destroyed>>

\* The destructor of each shard asserts that in_use_ is empty.
Destroy ==
    /\ ~ destroyed /\ walk = NoWalk
    /\ \A s \in Shards : shard_.next[in_use_(s)] = in_use_(s)
    /\ LET loop[n \in 0 .. kNumShards] == IF n = 0 THEN shard_ ELSE DestroyShard(loop[n - 1], n - 1)
       IN  shard_' = loop[kNumShards]
    /\ destroyed' = TRUE
    /\ UNCHANGED <<HashSlice, capacity_, handles, walk, ghosts>>

\* Nothing happens to a cache that has been destroyed.
Destroyed == destroyed /\ UNCHANGED vars

Init ==
    /\ HashSlice \in HashFunctions
    /\ shard_ = EmptyShards(Shards)
    /\ \E capacity \in Capacities : capacity_ = PerShard(capacity)
    /\ handles = [e \in Entries |-> 0]
    /\ walk = NoWalk /\ since = {} /\ most = 0 /\ inserts = 0
    /\ destroyed = FALSE

Next ==
    \/ \E k \in Keys, e \in Entries, n \in Charges : Insert(k, e, n)
    \/ \E k \in Keys : Lookup(k)
    \/ \E e \in Entries : Release(e)
    \/ \E k \in Keys : Erase(k)
    \/ \E method \in {"Prune", "TotalCharge"} : Call(method)
    \/ PruneNext
    \/ TotalChargeNext
    \/ Return
    \/ Destroy
    \/ Destroyed

Spec == Init /\ [][Next]_vars

(***************************************************************************)
(* Properties.                                                             *)
(***************************************************************************)
\* An entry's refs counts the handles clients hold and the cache's own reference: it is
\* deleted neither while either is left nor later than the last of them.
RefsExact ==
    \A e \in Entries : shard_.refs[e] = handles[e] + (IF shard_.in_cache[e] THEN 1 ELSE 0)

CachedIn(s) == {e \in Cached : Shard(shard_.hash[e]) = s}

\* Of the entries cached in a shard, those nobody holds make up its lru_, the others its
\* in_use_, each of them once, forwards and backwards.
ListsExact ==
    ~ destroyed => \A s \in Shards :
        LET Is(list, S) ==
                LET t == ListOf(shard_, list)
                    d == <<list>> \o t \o <<list>>
                IN  /\ Len(t) = Cardinality(S) /\ ToSet(t) = S
                    /\ \A j \in 1 .. Len(d) - 1 : shard_.next[d[j]] = d[j + 1] /\ shard_.prev[d[j + 1]] = d[j]
        IN  /\ Is(lru_(s), {e \in CachedIn(s) : handles[e] = 0})
            /\ Is(in_use_(s), {e \in CachedIn(s) : handles[e] > 0})

\* The entry cached under a key.
CachedFor(k) ==
    LET S == {e \in Cached : shard_.key[e] = k}
    IN  IF S = {} THEN Nil ELSE CHOOSE e \in S : TRUE

\* The chains of a shard's table_ hold exactly its cached entries, each once and in the
\* bucket of its hash, no two with the same key, through replacements, removals and Resize;
\* elems_ counts them, and there are no more of them than buckets.
ChainsExact ==
    ~ destroyed =>
        /\ \A e, f \in Cached : shard_.key[e] = shard_.key[f] => e = f
        /\ \A k \in Keys : TableLookup(shard_, Shard(HashSlice[k]), k, HashSlice[k]) = CachedFor(k)
        /\ \A s \in Shards :
            LET chains == [b \in DOMAIN shard_.list_[s] |-> Chain(shard_, s, b)]
            IN  /\ \A e \in Entries, b \in DOMAIN chains :
                    e \in ToSet(chains[b]) <=> e \in CachedIn(s) /\ b = Bucket(HashSlice[shard_.key[e]], length_(shard_, s))
                /\ \A b \in DOMAIN chains : Len(chains[b]) = Cardinality(ToSet(chains[b]))
                /\ shard_.elems_[s] = Cardinality(CachedIn(s))
                /\ shard_.elems_[s] <= length_(shard_, s)

\* When Prune returns, no entry is left that nobody has held since the call, whatever came
\* between the visits of two shards (cache.h: "Remove all cache entries that are not
\* actively in use").
PruneLeavesNoneIdle == walk.call = "Prune" /\ walk.s = kNumShards => since = {}

\* TotalCharge may return a sum the cache never had, but not less than the charges of the
\* entries that were cached all the while, nor more than those of the entries cached at
\* the call or inserted since: it counts no entry twice and none that was long gone.
TotalChargeBounded ==
    walk.call = "TotalCharge" /\ walk.s = kNumShards => Sum(since, Charge) <= walk.total /\ walk.total <= most

\* The abstract cache: its parts are the shards.
PartOf == [k \in Keys |-> Shard(HashSlice[k])]
CachedMap == [k \in Keys |-> CachedFor(k)]
CostMap == [e \in Entries |-> IF shard_.in_cache[e] THEN Charge(e) ELSE 0]
IdleLists == [s \in Shards |-> IF destroyed THEN <<>> ELSE ListOf(shard_, lru_(s))]
Alive == {e \in Entries : shard_.refs[e] > 0}

Abstract == INSTANCE Cache WITH
    Parts <- Shards, part <- PartOf, capacity <- capacity_, cached <- CachedMap, cost <- CostMap,
    idle <- IdleLists, alive <- Alive, closed <- destroyed

\* The cache implements the one of include/cache.h: a map, values that live as long as
\* they are cached or held, and eviction of the longest idle entries only, no more of them
\* than their shard's capacity asks for.
ImplementsCache == Abstract!Spec
============================================================================
