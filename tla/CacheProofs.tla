---------------------------- MODULE CacheProofs ----------------------------
(***************************************************************************)
(* The cache of util/cache.cc, for any number of keys, entries, shards and *)
(* buckets and any hash function: reference counts, lists and hash tables  *)
(* are exact, Prune and TotalCharge keep their bounds whatever comes       *)
(* between two shards, and the whole implements the cache of               *)
(* include/cache.h.                                                        *)
(*                                                                         *)
(* The argument.  A list is a Ring: a sequence of different entries that   *)
(* the pointers follow from the head and back to it; a bucket is an        *)
(* IsChain of different entries that next_hash follows to the null         *)
(* pointer.  For every method a lemma says what it does to rings, chains,  *)
(* counts and the set of cached entries (RemoveIs, TableInsertIs, ResizeIs,*)
(* RefIs, ReleaseIs, EraseKeyIs, AddToCacheIs, EvictOldestIs, ...).  Their *)
(* invariant ShardsOK(c, held, hs) says that the rings of the two lists    *)
(* hold the cached entries by whether clients hold them, that the chains   *)
(* hold them by their hash, that no key is cached twice, that refs counts  *)
(* handles and the cache's own reference, and that usage_ is the sum of    *)
(* the charges.  CacheInv states it of the variables.  For the refinement, *)
(* every lemma about a method is read as a step of Cache: the rings of     *)
(* lru_ are its idle entries, usage_ at each test of the eviction loop is  *)
(* the cost it compares with the capacity.                                 *)
(***************************************************************************)
EXTENDS ShardedLRUCache, FiniteSetTheorems, SequenceTheorems, NaturalsInduction, WellFoundedInduction, TLAPS

(***************************************************************************)
(* The state of the shards, and what LRU_Remove and LRU_Append assign.     *)
(***************************************************************************)
Heads == {lru_(s) : s \in Shards} \cup {in_use_(s) : s \in Shards}

Nodes == Entries \cup Heads

\* The lists of HandleTable.
Tables == UNION {[0 .. n - 1 -> Entries \cup {Nil}] : n \in Nat \ {0}}

States == [next : [Nodes -> Nodes \cup {Nil}], prev : [Nodes -> Nodes \cup {Nil}],
           key : [Entries -> Keys \cup {Nil}], charge : [Entries -> Nat],
           in_cache : [Entries -> BOOLEAN], refs : [Entries -> Int],
           hash : [Entries -> Nat], next_hash : [Entries -> Entries \cup {Nil}],
           usage_ : [Shards -> Int], elems_ : [Shards -> Int], list_ : [Shards -> Tables]]

LEMMA HeadFacts ==
    /\ Heads \cap Entries = {}
    /\ \A s \in Shards : lru_(s) \in Heads /\ in_use_(s) \in Heads
    /\ \A s, r \in Shards : lru_(s) # in_use_(r)
    /\ \A s, r \in Shards : (lru_(s) = lru_(r) \/ in_use_(s) = in_use_(r)) => s = r
<1>1. Heads \cap Entries = {}
  BY HeadsAssumption DEF Heads
<1>2. \A s \in Shards : lru_(s) \in Heads /\ in_use_(s) \in Heads
  BY DEF Heads
<1>3. \A s, r \in Shards : lru_(s) # in_use_(r)
  BY DEF lru_, in_use_
<1>4. \A s, r \in Shards : (lru_(s) = lru_(r) \/ in_use_(s) = in_use_(r)) => s = r
  BY DEF lru_, in_use_
<1> QED
  BY <1>1, <1>2, <1>3, <1>4

\* The fields a step leaves alone.
SameLists(c, d) == d.next = c.next /\ d.prev = c.prev
SameTables(c, d) == d.list_ = c.list_ /\ d.next_hash = c.next_hash /\ d.elems_ = c.elems_
SameData(c, d) == d.key = c.key /\ d.hash = c.hash /\ d.charge = c.charge
SameCounts(c, d) == d.in_cache = c.in_cache /\ d.refs = c.refs /\ d.usage_ = c.usage_

LEMMA RemoveEffect ==
    ASSUME NEW c \in States, NEW e \in Entries, c.next[e] \in Nodes, c.prev[e] \in Nodes,
           NEW d, d = LRU_Remove(c, e)
    PROVE  /\ d \in States
           /\ d.next = [c.next EXCEPT ![c.prev[e]] = c.next[e]]
           /\ d.prev = [c.prev EXCEPT ![c.next[e]] = c.prev[e]]
           /\ SameTables(c, d) /\ SameData(c, d) /\ SameCounts(c, d)
<1> HIDE DEF Tables
<1>1. e \in Nodes
  BY DEF Nodes
<1>2. d \in States
  BY <1>1 DEF LRU_Remove, States
<1>3. /\ d.next = [c.next EXCEPT ![c.prev[e]] = c.next[e]]
      /\ d.prev = [c.prev EXCEPT ![c.next[e]] = c.prev[e]]
  BY <1>1 DEF LRU_Remove, States
<1>4. /\ SameTables(c, d) /\ SameData(c, d) /\ SameCounts(c, d)
  BY <1>1 DEF LRU_Remove, States, SameTables, SameData, SameCounts
<1> QED
  BY <1>2, <1>3, <1>4

LEMMA AppendEffect ==
    ASSUME NEW c \in States, NEW e \in Entries, NEW h \in Heads, c.prev[h] \in Nodes,
           NEW d, d = LRU_Append(c, h, e)
    PROVE  /\ d \in States
           /\ d.next = [[c.next EXCEPT ![e] = h] EXCEPT ![c.prev[h]] = e]
           /\ d.prev = [[c.prev EXCEPT ![e] = c.prev[h]] EXCEPT ![h] = e]
           /\ SameTables(c, d) /\ SameData(c, d) /\ SameCounts(c, d)
<1>1. e \in Nodes /\ h \in Nodes
  BY DEF Nodes
<1>2. d \in States
  BY <1>1 DEF LRU_Append, States
<1>3. /\ d.next = [[c.next EXCEPT ![e] = h] EXCEPT ![c.prev[h]] = e]
      /\ d.prev = [[c.prev EXCEPT ![e] = c.prev[h]] EXCEPT ![h] = e]
  BY <1>1 DEF LRU_Append, States
<1>4. /\ SameTables(c, d) /\ SameData(c, d) /\ SameCounts(c, d)
  BY <1>1 DEF LRU_Append, States, SameTables, SameData, SameCounts
<1> QED
  BY <1>2, <1>3, <1>4

\* A sequence without its i-th element.
CutOut(t, i) == [j \in 1 .. Len(t) - 1 |-> IF j < i THEN t[j] ELSE t[j + 1]]

Inj(t) == \A i, j \in 1 .. Len(t) : t[i] = t[j] => i = j

LEMMA FunctionIsSeq ==
    ASSUME NEW n \in Nat, NEW S, NEW f \in [1 .. n -> S]
    PROVE  f \in Seq(S) /\ Len(f) = n
OBVIOUS

LEMMA ToSetIs ==
    ASSUME NEW t \in Seq(Entries)
    PROVE  /\ ToSet(t) = {t[i] : i \in 1 .. Len(t)} /\ ToSet(t) \subseteq Entries /\ Len(t) \in Nat
           /\ DOMAIN t = 1 .. Len(t)
BY DEF ToSet

LEMMA NoElements ==
    ASSUME NEW t \in Seq(Entries), ToSet(t) = {}
    PROVE  t = <<>>
<1>1. ToSet(t) = {t[i] : i \in 1 .. Len(t)} /\ Len(t) \in Nat
  BY ToSetIs
<1>2. \A i \in 1 .. Len(t) : t[i] \in ToSet(t)
  BY <1>1
<1>3. 1 \notin 1 .. Len(t)
  BY <1>2
<1>4. Len(t) = 0
  BY <1>1, <1>3
<1> QED
  BY <1>4

LEMMA CutOutFacts ==
    ASSUME NEW t \in Seq(Entries), Inj(t), NEW i \in 1 .. Len(t)
    PROVE  /\ CutOut(t, i) \in Seq(Entries) /\ Len(CutOut(t, i)) = Len(t) - 1
           /\ Inj(CutOut(t, i))
           /\ ToSet(CutOut(t, i)) = ToSet(t) \ {t[i]}
<1> DEFINE u == CutOut(t, i)
           n == Len(t) - 1
<1>1. n \in Nat
  OBVIOUS
<1>2. u \in [1 .. n -> Entries]
  BY DEF CutOut
<1>3. u \in Seq(Entries) /\ Len(u) = n
  <2> HIDE DEF u, n
  <2> QED
    BY <1>1, <1>2, FunctionIsSeq
<1>4. \A j \in 1 .. n : u[j] = IF j < i THEN t[j] ELSE t[j + 1]
  BY DEF CutOut
<1>5. Inj(u)
  <2> SUFFICES ASSUME NEW j \in 1 .. n, NEW k \in 1 .. n, u[j] = u[k] PROVE j = k
    BY <1>3 DEF Inj
  <2> DEFINE a == IF j < i THEN j ELSE j + 1
             b == IF k < i THEN k ELSE k + 1
  <2>1. a \in 1 .. Len(t) /\ b \in 1 .. Len(t) /\ t[a] = t[b]
    BY <1>4
  <2>2. a = b
    BY <2>1 DEF Inj
  <2> QED
    BY <2>2
<1>6. ASSUME NEW e \in ToSet(u) PROVE e \in ToSet(t) /\ e # t[i]
  <2>1. PICK j \in 1 .. n : e = u[j]
    BY <1>3, ToSetIs
  <2> DEFINE a == IF j < i THEN j ELSE j + 1
  <2>2. a \in 1 .. Len(t) /\ e = t[a] /\ a # i
    BY <1>4, <2>1
  <2> HIDE DEF a
  <2> QED
    BY <2>2, ToSetIs DEF Inj
<1>7. ASSUME NEW e \in ToSet(t), e # t[i] PROVE e \in ToSet(u)
  <2>1. PICK a \in 1 .. Len(t) : e = t[a]
    BY ToSetIs
  <2> DEFINE j == IF a < i THEN a ELSE a - 1
  <2>2. j \in 1 .. n /\ u[j] = e
    BY <1>4, <1>7, <2>1
  <2> HIDE DEF j, u
  <2> QED
    BY <1>3, <2>2, ToSetIs
<1> QED
  BY <1>3, <1>5, <1>6, <1>7

LEMMA AppendFacts ==
    ASSUME NEW t \in Seq(Entries), Inj(t), NEW e \in Entries, e \notin ToSet(t)
    PROVE  /\ Append(t, e) \in Seq(Entries) /\ Len(Append(t, e)) = Len(t) + 1
           /\ \A j \in 1 .. Len(t) + 1 : Append(t, e)[j] = IF j = Len(t) + 1 THEN e ELSE t[j]
           /\ Inj(Append(t, e))
           /\ ToSet(Append(t, e)) = ToSet(t) \cup {e}
<1> DEFINE u == Append(t, e)
           n == Len(t)
<1>1. u \in Seq(Entries) /\ Len(u) = n + 1 /\ \A j \in 1 .. n + 1 : u[j] = IF j = n + 1 THEN e ELSE t[j]
  OBVIOUS
<1>2. \A i \in 1 .. n : t[i] # e
  BY ToSetIs
<1>3. Inj(u)
  BY <1>1, <1>2 DEF Inj
<1>4. ToSet(u) = {u[j] : j \in 1 .. n + 1} /\ ToSet(t) = {t[j] : j \in 1 .. n} /\ n \in Nat
  BY <1>1, ToSetIs
<1> HIDE DEF u, n
<1>5. ToSet(u) = ToSet(t) \cup {e}
  <2>1. \A j \in 1 .. n + 1 : u[j] \in ToSet(t) \cup {e}
    BY <1>1, <1>4
  <2>2. \A j \in 1 .. n : t[j] = u[j] /\ j \in 1 .. n + 1
    BY <1>1, <1>4
  <2>3. e = u[n + 1] /\ n + 1 \in 1 .. n + 1
    BY <1>1, <1>4
  <2> QED
    BY <1>4, <2>1, <2>2, <2>3
<1> QED
  BY <1>1, <1>3, <1>5 DEF u, n

(***************************************************************************)
(* The circular lists, as sequences.                                       *)
(***************************************************************************)
\* The j-th node of the ring of head h and entries t; the head is also the last one.
At(h, t, j) == IF j \in 1 .. Len(t) THEN t[j] ELSE h

Ring(next, prev, h, t) ==
    \A j \in 0 .. Len(t) : next[At(h, t, j)] = At(h, t, j + 1) /\ prev[At(h, t, j + 1)] = At(h, t, j)

LEMMA AtFacts ==
    ASSUME NEW t \in Seq(Entries), Inj(t), NEW h \in Heads
    PROVE  /\ \A j \in Nat : At(h, t, j) \in Nodes /\ At(h, t, j) \in {h} \cup ToSet(t)
           /\ At(h, t, 0) = h /\ At(h, t, Len(t) + 1) = h
           /\ \A j \in 1 .. Len(t) : At(h, t, j) = t[j]
           /\ \A i, j \in 0 .. Len(t) : At(h, t, i) = At(h, t, j) => i = j
           /\ \A i, j \in 1 .. Len(t) + 1 : At(h, t, i) = At(h, t, j) => i = j
<1>1. h \notin Entries /\ \A j \in 1 .. Len(t) : t[j] \in Entries /\ t[j] # h
  BY HeadFacts
<1>2. \A j \in Nat : At(h, t, j) \in Nodes /\ At(h, t, j) \in {h} \cup ToSet(t)
  BY ToSetIs DEF At, Nodes
<1>3. At(h, t, 0) = h /\ At(h, t, Len(t) + 1) = h /\ \A j \in 1 .. Len(t) : At(h, t, j) = t[j]
  BY DEF At
<1>4. \A i, j \in 0 .. Len(t) : At(h, t, i) = At(h, t, j) => i = j
  BY <1>1 DEF At, Inj
<1>5. \A i, j \in 1 .. Len(t) + 1 : At(h, t, i) = At(h, t, j) => i = j
  BY <1>1 DEF At, Inj
<1> QED
  BY <1>2, <1>3, <1>4, <1>5

LEMMA RingCut ==
    ASSUME NEW t \in Seq(Entries), Inj(t), NEW h \in Heads, NEW i \in 1 .. Len(t),
           NEW nx \in [Nodes -> Nodes \cup {Nil}], NEW pv \in [Nodes -> Nodes \cup {Nil}],
           Ring(nx, pv, h, t)
    PROVE  /\ nx[t[i]] \in {h} \cup ToSet(t) /\ pv[t[i]] \in {h} \cup ToSet(t)
           /\ Ring([nx EXCEPT ![pv[t[i]]] = nx[t[i]]], [pv EXCEPT ![nx[t[i]]] = pv[t[i]]], h, CutOut(t, i))
<1> DEFINE u == CutOut(t, i)
           n == Len(t)
           a(j) == At(h, t, j)
           b(j) == At(h, u, j)
<1>1. n \in Nat /\ i \in 1 .. n /\ a(i) = t[i]
  BY AtFacts
<1>2. /\ \A j \in Nat : a(j) \in Nodes /\ a(j) \in {h} \cup ToSet(t)
      /\ \A j, k \in 0 .. n : a(j) = a(k) => j = k
      /\ \A j, k \in 1 .. n + 1 : a(j) = a(k) => j = k
  BY AtFacts
<1>3. \A j \in 0 .. n : nx[a(j)] = a(j + 1) /\ pv[a(j + 1)] = a(j)
  BY DEF Ring
<1>4. Len(u) = n - 1
  BY CutOutFacts
<1>5. \A j \in 0 .. n : b(j) = IF j < i THEN a(j) ELSE a(j + 1)
  BY <1>1, <1>4 DEF At, CutOut
<1> HIDE DEF u, n, a, b
<1>6. nx[t[i]] = a(i + 1) /\ pv[t[i]] = a(i - 1)
  <2>1. i - 1 \in 0 .. n /\ i \in 0 .. n /\ i - 1 + 1 = i
    BY <1>1
  <2> QED
    BY <1>1, <1>3, <2>1
<1>7. i + 1 \in Nat /\ i - 1 \in Nat
  BY <1>1
<1> DEFINE nx2 == [nx EXCEPT ![a(i - 1)] = a(i + 1)]
           pv2 == [pv EXCEPT ![a(i + 1)] = a(i - 1)]
<1>8. \A x \in Nodes : /\ nx2[x] = IF x = a(i - 1) THEN a(i + 1) ELSE nx[x]
                       /\ pv2[x] = IF x = a(i + 1) THEN a(i - 1) ELSE pv[x]
  OBVIOUS
<1> HIDE DEF nx2, pv2
<1>9. ASSUME NEW j \in 0 .. n - 1 PROVE nx2[b(j)] = b(j + 1) /\ pv2[b(j + 1)] = b(j)
  <2>0. j \in 0 .. n /\ j + 1 \in 0 .. n /\ j \in Nat /\ j + 1 \in Nat /\ j + 2 \in Nat /\ j + 1 + 1 = j + 2
    BY <1>1
  <2>1. CASE j < i - 1
    <3>1. b(j) = a(j) /\ b(j + 1) = a(j + 1)
      BY <1>1, <1>5, <2>0, <2>1
    <3>2. a(j) # a(i - 1) /\ a(j + 1) # a(i + 1)
      <4>1. i - 1 \in 0 .. n /\ j # i - 1 /\ i + 1 \in 1 .. n + 1 /\ j + 1 \in 1 .. n + 1 /\ j + 1 # i + 1
        BY <1>1, <2>1
      <4> QED
        BY <1>2, <2>0, <4>1
    <3> QED
      BY <1>2, <1>3, <1>8, <2>0, <3>1, <3>2
  <2>2. CASE j = i - 1
    <3>1. b(j) = a(i - 1) /\ b(j + 1) = a(i + 1)
      BY <1>1, <1>5, <2>0, <2>2
    <3> QED
      BY <1>2, <1>7, <1>8, <3>1
  <2>3. CASE j > i - 1
    <3>1. b(j) = a(j + 1) /\ b(j + 1) = a(j + 2)
      BY <1>1, <1>5, <2>0, <2>3
    <3>2. a(j + 1) # a(i - 1) /\ a(j + 2) # a(i + 1)
      <4>1. /\ i - 1 \in 0 .. n /\ j + 1 # i - 1 /\ i + 1 \in 1 .. n + 1 /\ j + 2 \in 1 .. n + 1 /\ j + 2 # i + 1
        BY <1>1, <2>3
      <4> QED
        BY <1>2, <2>0, <4>1
    <3> QED
      BY <1>2, <1>3, <1>8, <2>0, <3>1, <3>2
  <2> QED
    BY <1>1, <2>1, <2>2, <2>3
<1>10. Ring(nx2, pv2, h, u)
  BY <1>4, <1>9 DEF Ring, b
<1> QED
  BY <1>2, <1>6, <1>7, <1>10 DEF nx2, pv2, u

LEMMA RingAppend ==
    ASSUME NEW t \in Seq(Entries), Inj(t), NEW h \in Heads, NEW e \in Entries, e \notin ToSet(t),
           NEW nx \in [Nodes -> Nodes \cup {Nil}], NEW pv \in [Nodes -> Nodes \cup {Nil}],
           Ring(nx, pv, h, t)
    PROVE  /\ pv[h] \in {h} \cup ToSet(t)
           /\ Ring([[nx EXCEPT ![e] = h] EXCEPT ![pv[h]] = e],
                   [[pv EXCEPT ![e] = pv[h]] EXCEPT ![h] = e], h, Append(t, e))
<1> DEFINE u == Append(t, e)
           n == Len(t)
           a(j) == At(h, t, j)
           b(j) == At(h, u, j)
<1>1. n \in Nat /\ e # h /\ e \in Nodes /\ h \in Nodes
  BY HeadFacts DEF Nodes
<1>2. /\ \A j \in Nat : a(j) \in Nodes /\ a(j) \in {h} \cup ToSet(t)
      /\ \A j, k \in 0 .. n : a(j) = a(k) => j = k
      /\ a(0) = h /\ a(n + 1) = h
  BY AtFacts
<1>3. \A j \in 0 .. n : nx[a(j)] = a(j + 1) /\ pv[a(j + 1)] = a(j)
  BY DEF Ring
<1>4. /\ Len(u) = n + 1
      /\ \A j \in 0 .. n : b(j) = a(j)
      /\ b(n + 1) = e /\ b(n + 2) = h
  BY <1>1, AppendFacts DEF At
<1>5. \A j \in Nat : a(j) # e
  BY <1>1, <1>2
<1> HIDE DEF u, n, a, b
<1>6. pv[h] = a(n) /\ n \in 0 .. n
  BY <1>1, <1>2, <1>3
<1> DEFINE nx2 == [[nx EXCEPT ![e] = h] EXCEPT ![a(n)] = e]
           pv2 == [[pv EXCEPT ![e] = a(n)] EXCEPT ![h] = e]
<1>8. \A x \in Nodes : /\ nx2[x] = IF x = a(n) THEN e ELSE IF x = e THEN h ELSE nx[x]
                       /\ pv2[x] = IF x = h THEN e ELSE IF x = e THEN a(n) ELSE pv[x]
  OBVIOUS
<1> HIDE DEF nx2, pv2
<1>9. ASSUME NEW j \in 0 .. n + 1 PROVE nx2[b(j)] = b(j + 1) /\ pv2[b(j + 1)] = b(j)
  <2>1. CASE j < n
    <3>1. b(j) = a(j) /\ b(j + 1) = a(j + 1) /\ j \in 0 .. n /\ j + 1 \in 0 .. n /\ j \in Nat /\ j + 1 \in Nat
      BY <1>1, <1>4, <2>1
    <3>2. a(j) # a(n) /\ a(j + 1) # h
      BY <1>1, <1>2, <1>6, <2>1, <3>1
    <3> QED
      BY <1>2, <1>3, <1>5, <1>8, <3>1, <3>2
  <2>2. CASE j = n
    BY <1>1, <1>2, <1>4, <1>5, <1>6, <1>8, <2>2
  <2>3. CASE j = n + 1
    <3>1. b(j) = e /\ b(j + 1) = h
      BY <1>1, <1>4, <2>3
    <3> QED
      BY <1>1, <1>5, <1>8, <3>1
  <2> QED
    BY <1>1, <2>1, <2>2, <2>3
<1>10. Ring(nx2, pv2, h, u)
  BY <1>4, <1>9 DEF Ring, b
<1>11. pv[h] \in {h} \cup ToSet(t)
  BY <1>1, <1>2, <1>6
<1> QED
  BY <1>6, <1>10, <1>11 DEF nx2, pv2, u

LEMMA RingFrame ==
    ASSUME NEW t \in Seq(Entries), Inj(t), NEW h \in Heads,
           NEW nx, NEW pv, NEW nx2, NEW pv2,
           \A x \in {h} \cup ToSet(t) : nx2[x] = nx[x] /\ pv2[x] = pv[x],
           Ring(nx, pv, h, t)
    PROVE  Ring(nx2, pv2, h, t)
<1>1. \A j \in Nat : At(h, t, j) \in {h} \cup ToSet(t)
  BY AtFacts
<1>2. \A j \in 0 .. Len(t) : j \in Nat /\ j + 1 \in Nat
  OBVIOUS
<1> QED
  BY <1>1, <1>2 DEF Ring

(***************************************************************************)
(* Induction over numbers, and functions defined by recursion.             *)
(***************************************************************************)
LEMMA LeastNumber ==
    ASSUME NEW T, T \subseteq Nat, T # {}
    PROVE  \E x \in T : \A y \in T : x <= y
<1>1. PICK x \in T : \A y \in T : ~ (<<y, x>> \in OpToRel(<, Nat))
  BY NatLessThanWellFounded, WFMin
<1>2. \A y, z \in Nat : y < z => <<y, z>> \in OpToRel(<, Nat)
  BY Zenon DEF OpToRel
<1>3. \A y \in T : ~ (y < x)
  BY <1>1, <1>2, Zenon
<1> QED
  BY <1>3

LEMMA StepByStep ==
    ASSUME NEW N \in Nat, NEW S, 0 \in S, \A n \in 1 .. N : n - 1 \in S => n \in S
    PROVE  \A n \in 0 .. N : n \in S
<1> SUFFICES ASSUME NEW n \in 0 .. N, n \notin S
             PROVE  FALSE
  OBVIOUS
<1> DEFINE T == {k \in 0 .. N : k \notin S}
<1>1. T \subseteq Nat /\ T # {}
  OBVIOUS
<1> HIDE DEF T
<1>2. PICK m \in T : \A y \in T : m <= y
  BY <1>1, LeastNumber
<1>3. m \in 0 .. N /\ m \notin S /\ m # 0
  BY <1>2 DEF T
<1>4. m \in 1 .. N /\ m - 1 \in 0 .. N /\ ~ (m <= m - 1)
  BY <1>3
<1>5. m - 1 \notin T
  BY <1>2, <1>4
<1>6. m - 1 \in S
  BY <1>4, <1>5 DEF T
<1> QED
  BY <1>3, <1>4, <1>6

\* f starts with c, and each value comes from the one before.
Follows(f, N, V, c, G) ==
    f \in [0 .. N -> V] /\ f[0] = c /\ \A n \in 1 .. N : f[n] = G[n][f[n - 1]]

LEMMA Recursion ==
    ASSUME NEW N \in Nat, NEW V, NEW c \in V, NEW G \in [1 .. N -> [V -> V]]
    PROVE  \E f : Follows(f, N, V, c, G)
<1> DEFINE Good(n, f) == f \in [0 .. n -> V] /\ f[0] = c /\ \A k \in 1 .. n : f[k] = G[k][f[k - 1]]
           S == {n \in 0 .. N : \E f : Good(n, f)}
<1>1. 0 \in S
  <2> DEFINE f == [k \in 0 .. 0 |-> c]
  <2>1. f \in [0 .. 0 -> V] /\ f[0] = c /\ 1 .. 0 = {}
    OBVIOUS
  <2>2. Good(0, f)
    BY <2>1
  <2> HIDE DEF f
  <2>3. 0 \in 0 .. N /\ \E g : Good(0, g)
    BY <2>2
  <2> QED
    BY <2>3
<1>2. ASSUME NEW m \in 1 .. N, m - 1 \in S PROVE m \in S
  <2>1. PICK g : Good(m - 1, g)
    BY <1>2
  <2> DEFINE v == G[m][g[m - 1]]
             h == [k \in 0 .. m |-> IF k = m THEN v ELSE g[k]]
  <2>2. g[m - 1] \in V
    <3>1. m - 1 \in 0 .. m - 1
      OBVIOUS
    <3> QED
      BY <2>1, <3>1
  <2>3. v \in V
    BY <2>2
  <2> HIDE DEF v
  <2>4. \A k \in 0 .. m : k # m => k \in 0 .. m - 1 /\ g[k] \in V
    BY <2>1
  <2>5. h \in [0 .. m -> V]
    BY <2>3, <2>4
  <2>6. h[0] = c
    BY <2>1
  <2>7. ASSUME NEW k \in 1 .. m PROVE h[k] = G[k][h[k - 1]]
    <3>1. k - 1 \in 0 .. m /\ k - 1 # m /\ k \in 0 .. m
      OBVIOUS
    <3>2. h[k - 1] = g[k - 1]
      BY <3>1
    <3>3. CASE k = m
      BY <3>1, <3>2, <3>3 DEF v
    <3>4. CASE k # m
      <4>1. k \in 1 .. m - 1
        BY <3>4
      <4>2. h[k] = g[k] /\ g[k] = G[k][g[k - 1]]
        BY <2>1, <3>1, <3>4, <4>1
      <4> QED
        BY <3>2, <4>2
    <3> QED
      BY <3>3, <3>4
  <2> HIDE DEF h
  <2>8. Good(m, h)
    BY <2>5, <2>6, <2>7
  <2> QED
    BY <2>8
<1>3. N \in S
  <2> HIDE DEF S
  <2>1. \A n \in 0 .. N : n \in S
    BY <1>1, <1>2, StepByStep
  <2> QED
    BY <2>1
<1> QED
  BY <1>3 DEF Follows


LEMMA InjLen ==
    ASSUME NEW t \in Seq(Entries), Inj(t)
    PROVE  /\ IsFiniteSet(ToSet(t)) /\ Cardinality(ToSet(t)) = Len(t)
           /\ Len(t) <= Cardinality(Entries) /\ Cardinality(Entries) \in Nat
<1>1. IsFiniteSet(Entries) /\ Cardinality(Entries) \in Nat
  BY TableAssumption, FS_CardinalityType
<1>2. ToSet(t) \in SUBSET Entries /\ Len(t) \in Nat /\ ToSet(t) = {t[i] : i \in 1 .. Len(t)}
  BY ToSetIs
<1>3. IsFiniteSet(1 .. Len(t)) /\ Cardinality(1 .. Len(t)) = Len(t)
  BY <1>2, FS_Interval
<1>4. t \in Bijection(1 .. Len(t), ToSet(t))
  <2>1. t \in [1 .. Len(t) -> ToSet(t)]
    BY <1>2
  <2>2. t \in Injection(1 .. Len(t), ToSet(t))
    BY <2>1 DEF Inj, Injection, IsInjective
  <2>3. t \in Surjection(1 .. Len(t), ToSet(t))
    BY <1>2, <2>1 DEF Surjection
  <2> QED
    BY <2>2, <2>3 DEF Bijection
<1>5. IsFiniteSet(ToSet(t)) /\ Cardinality(ToSet(t)) = Len(t)
  BY <1>3, <1>4, FS_Bijection DEF ExistsBijection
<1>6. Cardinality(ToSet(t)) <= Cardinality(Entries)
  BY <1>1, <1>2, FS_Subset
<1> QED
  BY <1>1, <1>5, <1>6

\* Two functions that start alike and go on alike are the same.
LEMMA SameWalk ==
    ASSUME NEW N \in Nat, NEW f, NEW g, f[0] = g[0],
           \A n \in 1 .. N : f[n - 1] = g[n - 1] => f[n] = g[n]
    PROVE  f[N] = g[N]
<1> DEFINE S == {n \in 0 .. N : f[n] = g[n]}
<1>1. 0 \in S
  OBVIOUS
<1>2. \A n \in 1 .. N : n - 1 \in S => n \in S
  OBVIOUS
<1> HIDE DEF S
<1>3. \A n \in 0 .. N : n \in S
  BY <1>1, <1>2, StepByStep
<1> QED
  BY <1>3 DEF S

LEMMA PrefixFacts ==
    ASSUME NEW t \in Seq(Entries), NEW k \in 0 .. Len(t)
    PROVE  /\ SubSeq(t, 1, k) \in Seq(Entries) /\ Len(SubSeq(t, 1, k)) = k
           /\ \A j \in 1 .. k : SubSeq(t, 1, k)[j] = t[j]
           /\ SubSeq(t, 1, k) = <<>> <=> k = 0
           /\ k > 0 => Last(SubSeq(t, 1, k)) = t[k]
           /\ k < Len(t) => Append(SubSeq(t, 1, k), t[k + 1]) = SubSeq(t, 1, k + 1)
           /\ k = Len(t) => SubSeq(t, 1, k) = t
<1> DEFINE p == SubSeq(t, 1, k)
<1>1. p \in Seq(Entries) /\ Len(p) = k /\ \A j \in 1 .. k : p[j] = t[j]
  OBVIOUS
<1>2. p = <<>> <=> k = 0
  <2>1. k = 0 => p = <<>>
    OBVIOUS
  <2> HIDE DEF p
  <2> QED
    BY <1>1, <2>1
<1>3. k > 0 => Last(p) = t[k]
  <2> HIDE DEF p
  <2> QED
    BY <1>1 DEF Last
<1>4. ASSUME k < Len(t) PROVE Append(p, t[k + 1]) = SubSeq(t, 1, k + 1)
  <2> DEFINE r == SubSeq(t, 1, k + 1)
             v == Append(p, t[k + 1])
  <2>1. r \in Seq(Entries) /\ Len(r) = k + 1 /\ \A j \in 1 .. k + 1 : r[j] = t[j]
    BY <1>4
  <2>2. v \in Seq(Entries) /\ Len(v) = k + 1 /\ \A j \in 1 .. k + 1 : v[j] = t[j]
    <3> HIDE DEF p
    <3> QED
      BY <1>1, <1>4
  <2> HIDE DEF r, v
  <2>3. v = r
    BY <2>1, <2>2, SeqEqual
  <2> QED
    BY <2>3 DEF r, v
<1>5. k = Len(t) => p = t
  <2> HIDE DEF p
  <2> QED
    BY <1>1, SeqEqual
<1> QED
  BY <1>1, <1>2, <1>3, <1>4, <1>5

IsListWalk(w, c, h) ==
    w = [n \in 0 .. Cardinality(Entries) |->
            IF n = 0 THEN <<>>
            ELSE LET t == w[n - 1]
                     e == c.next[IF t = <<>> THEN h ELSE Last(t)]
                 IN  IF e \in Entries /\ Len(t) = n - 1 THEN Append(t, e) ELSE t]

LEMMA ListOfRing ==
    ASSUME NEW c, NEW h \in Heads, NEW t \in Seq(Entries), Inj(t), Ring(c.next, c.prev, h, t)
    PROVE  ListOf(c, h) = t
<1> DEFINE N == Cardinality(Entries)
           m(n) == IF n <= Len(t) THEN n ELSE Len(t)
           f == [n \in 0 .. N |-> SubSeq(t, 1, m(n))]
           Step(n, p) == LET e == c.next[IF p = <<>> THEN h ELSE Last(p)]
                         IN  IF e \in Entries /\ Len(p) = n - 1 THEN Append(p, e) ELSE p
<1>1. N \in Nat /\ Len(t) <= N /\ Len(t) \in Nat
  BY InjLen
<1>2. ListOf(c, h) = (CHOOSE w : IsListWalk(w, c, h))[N]
  BY DEF ListOf, IsListWalk
<1>3. ASSUME NEW n \in 1 .. N PROVE Step(n, SubSeq(t, 1, m(n - 1))) = SubSeq(t, 1, m(n))
  <2> DEFINE k == m(n - 1)
             p == SubSeq(t, 1, k)
  <2>1. k \in 0 .. Len(t) /\ n - 1 \in 0 .. N
    BY <1>1
  <2>2. /\ Len(p) = k /\ (p = <<>> <=> k = 0) /\ (k > 0 => Last(p) = t[k])
        /\ (k < Len(t) => Append(p, t[k + 1]) = SubSeq(t, 1, k + 1))
        /\ (k = Len(t) => p = t)
    <3> HIDE DEF k
    <3> QED
      BY <2>1, PrefixFacts
  <2>3. (IF p = <<>> THEN h ELSE Last(p)) = At(h, t, k)
    <3> HIDE DEF k, p
    <3> QED
      BY <2>1, <2>2 DEF At
  <2>4. c.next[At(h, t, k)] = At(h, t, k + 1)
    <3> HIDE DEF k
    <3> QED
      BY <2>1 DEF Ring
  <2>5. Step(n, p) = IF At(h, t, k + 1) \in Entries /\ k = n - 1 THEN Append(p, At(h, t, k + 1)) ELSE p
    <3> HIDE DEF k, p
    <3> QED
      BY <2>2, <2>3, <2>4
  <2>6. ASSUME n <= Len(t) PROVE Step(n, p) = SubSeq(t, 1, m(n))
    <3>1. k = n - 1 /\ m(n) = n /\ k < Len(t)
      BY <1>1, <2>6
    <3>2. At(h, t, n) = t[n] /\ t[n] \in Entries
      BY <1>1, <2>6 DEF At
    <3>3. k + 1 = n
      BY <3>1
    <3> HIDE DEF k, p, m, Step
    <3> QED
      BY <2>2, <2>5, <3>1, <3>2, <3>3
  <2>7. ASSUME n > Len(t) PROVE Step(n, p) = SubSeq(t, 1, m(n))
    <3>1. k = Len(t) /\ m(n) = Len(t)
      BY <1>1, <2>7
    <3>2. At(h, t, k + 1) = h /\ h \notin Entries
      <4> HIDE DEF k
      <4> QED
        BY <1>1, <3>1, AtFacts, HeadFacts
    <3>3. p = SubSeq(t, 1, m(n))
      BY <3>1
    <3> HIDE DEF k, m, p, Step
    <3> QED
      BY <2>5, <3>2, <3>3
  <2> HIDE DEF Step, m
  <2>8. Step(n, p) = SubSeq(t, 1, m(n))
    BY <1>1, <2>6, <2>7
  <2> QED
    BY <2>8
<1>4. SubSeq(t, 1, m(0)) = <<>> /\ SubSeq(t, 1, m(N)) = t
  <2>1. m(0) = 0 /\ m(N) = Len(t) /\ 0 \in 0 .. Len(t) /\ Len(t) \in 0 .. Len(t)
    BY <1>1
  <2> HIDE DEF m
  <2> QED
    BY <2>1, PrefixFacts
<1> HIDE DEF m, Step
<1>5. f[0] = <<>> /\ f[N] = t /\ \A n \in 1 .. N : f[n] = Step(n, f[n - 1])
  <2> HIDE DEF N
  <2>1. 0 \in 0 .. N /\ N \in 0 .. N
    BY <1>1
  <2>2. \A n \in 1 .. N : n - 1 \in 0 .. N /\ n \in 0 .. N
    BY <1>1
  <2>3. \A n \in 0 .. N : f[n] = SubSeq(t, 1, m(n))
    OBVIOUS
  <2> HIDE DEF f
  <2> QED
    BY <1>3, <1>4, <2>1, <2>2, <2>3
<1>6. f = [n \in 0 .. N |-> f[n]]
  OBVIOUS
<1> HIDE DEF f
<1>7. \A n \in 0 .. N : n # 0 => n \in 1 .. N
  BY <1>1
<1>8. f = [n \in 0 .. N |-> IF n = 0 THEN <<>> ELSE Step(n, f[n - 1])]
  BY <1>5, <1>6, <1>7
<1>9. IsListWalk(f, c, h)
  BY <1>8 DEF IsListWalk, Step, N
<1> DEFINE w == CHOOSE w : IsListWalk(w, c, h)
<1>10. IsListWalk(w, c, h)
  BY <1>9
<1> HIDE DEF w
<1>11. w = [n \in 0 .. N |-> IF n = 0 THEN <<>> ELSE Step(n, w[n - 1])]
  BY <1>10 DEF IsListWalk, Step, N
<1>12. w[0] = <<>> /\ \A n \in 1 .. N : w[n] = Step(n, w[n - 1])
  <2> HIDE DEF N
  <2> QED
    BY <1>1, <1>11
<1>13. w[N] = f[N]
  <2> HIDE DEF N
  <2>1. \A n \in 1 .. N : w[n - 1] = f[n - 1] => w[n] = f[n]
    BY <1>5, <1>12
  <2> QED
    BY <1>1, <1>5, <1>12, <2>1, SameWalk
<1> QED
  BY <1>2, <1>5, <1>13 DEF w

(***************************************************************************)
(* LRU_Remove and LRU_Append on the lists of all shards.                   *)
(***************************************************************************)
\* The list of head h consists of the entries of S.
Listed(c, h, S) ==
    /\ ListOf(c, h) \in Seq(Entries) /\ Inj(ListOf(c, h)) /\ ToSet(ListOf(c, h)) = S
    /\ Ring(c.next, c.prev, h, ListOf(c, h))

LEMMA ListedIs ==
    ASSUME NEW c, NEW h \in Heads, NEW t \in Seq(Entries), Inj(t), Ring(c.next, c.prev, h, t)
    PROVE  Listed(c, h, ToSet(t)) /\ ListOf(c, h) = t
<1>1. ListOf(c, h) = t
  BY ListOfRing
<1> QED
  BY <1>1 DEF Listed

\* Each of the entries of P is in the list of its head.
Lists(c, P, place) ==
    \A h \in Heads : Listed(c, h, {e \in P : place[e] = h})

\* What a step does to the lists: e leaves that of head h, nothing else changes.
LeftList(c, d, h, e) ==
    /\ \E i \in 1 .. Len(ListOf(c, h)) : ListOf(c, h)[i] = e /\ ListOf(d, h) = CutOut(ListOf(c, h), i)
    /\ \A g \in Heads : g # h => ListOf(d, g) = ListOf(c, g)

\* Or e becomes the last of it.
JoinedList(c, d, h, e) ==
    /\ ListOf(d, h) = Append(ListOf(c, h), e)
    /\ \A g \in Heads : g # h => ListOf(d, g) = ListOf(c, g)

LEMMA ListsRemove ==
    ASSUME NEW c \in States, NEW P \in SUBSET Entries, NEW place \in [Entries -> Heads], Lists(c, P, place),
           NEW e \in P, NEW d, d = LRU_Remove(c, e)
    PROVE  /\ d \in States /\ SameTables(c, d) /\ SameData(c, d) /\ SameCounts(c, d)
           /\ Lists(d, P \ {e}, place)
           /\ LeftList(c, d, place[e], e)
<1> DEFINE h == place[e]
           t == ListOf(c, h)
           S(g) == {f \in P : place[f] = g}
<1>1. h \in Heads /\ e \in Entries /\ e \in S(h)
  OBVIOUS
<1>2. \A g \in Heads : Listed(c, g, S(g))
  BY DEF Lists
<1>3. t \in Seq(Entries) /\ Inj(t) /\ ToSet(t) = S(h) /\ Ring(c.next, c.prev, h, t)
  BY <1>1, <1>2 DEF Listed
<1> HIDE DEF t
<1>4. PICK i \in 1 .. Len(t) : t[i] = e
  BY <1>1, <1>3, ToSetIs
<1>5. c.next \in [Nodes -> Nodes \cup {Nil}] /\ c.prev \in [Nodes -> Nodes \cup {Nil}]
  BY DEF States
<1> DEFINE nx == [c.next EXCEPT ![c.prev[e]] = c.next[e]]
           pv == [c.prev EXCEPT ![c.next[e]] = c.prev[e]]
           u == CutOut(t, i)
<1> HIDE DEF h
<1>6. /\ c.next[e] \in {h} \cup S(h) /\ c.prev[e] \in {h} \cup S(h)
      /\ Ring(nx, pv, h, u)
  BY <1>1, <1>3, <1>4, <1>5, RingCut
<1>7. c.next[e] \in Nodes /\ c.prev[e] \in Nodes
  BY <1>1, <1>6 DEF Nodes
<1>8. /\ d \in States /\ d.next = nx /\ d.prev = pv
      /\ SameTables(c, d) /\ SameData(c, d) /\ SameCounts(c, d)
  BY <1>1, <1>7, RemoveEffect
<1>9. u \in Seq(Entries) /\ Inj(u) /\ ToSet(u) = S(h) \ {e}
  BY <1>3, <1>4, CutOutFacts
<1> HIDE DEF u
<1>10. Listed(d, h, S(h) \ {e}) /\ ListOf(d, h) = u
  <2> HIDE DEF nx, pv, S
  <2>1. Ring(d.next, d.prev, h, u)
    BY <1>6, <1>8
  <2>2. Listed(d, h, ToSet(u)) /\ ListOf(d, h) = u
    BY <1>1, <1>9, <2>1, ListedIs
  <2> QED
    BY <1>9, <2>2
<1>11. ASSUME NEW g \in Heads, g # h
       PROVE  Listed(d, g, S(g)) /\ ListOf(d, g) = ListOf(c, g)
  <2> DEFINE r == ListOf(c, g)
  <2>1. r \in Seq(Entries) /\ Inj(r) /\ ToSet(r) = S(g) /\ Ring(c.next, c.prev, g, r)
    BY <1>2 DEF Listed
  <2>2. g \notin {h} \cup S(h) /\ \A f \in S(g) : f \notin {h} \cup S(h)
    BY <1>1, <1>11, HeadFacts
  <2>3. \A x \in {g} \cup S(g) : x \in Nodes /\ x # c.next[e] /\ x # c.prev[e]
    BY <1>6, <2>2 DEF Nodes
  <2>4. \A x \in {g} \cup S(g) : nx[x] = c.next[x] /\ pv[x] = c.prev[x]
    BY <1>5, <2>3
  <2> HIDE DEF r, nx, pv
  <2>5. Ring(nx, pv, g, r)
    BY <2>1, <2>4, RingFrame
  <2> QED
    BY <1>8, <2>1, <2>5, ListedIs DEF r
<1>12. ASSUME NEW g \in Heads PROVE Listed(d, g, {f \in P \ {e} : place[f] = g})
  <2>1. CASE g = h
    <3>1. {f \in P \ {e} : place[f] = g} = S(h) \ {e}
      BY <2>1
    <3> QED
      BY <1>10, <2>1, <3>1
  <2>2. CASE g # h
    <3>1. {f \in P \ {e} : place[f] = g} = S(g)
      BY <2>2 DEF h
    <3> QED
      BY <1>11, <2>2, <3>1
  <2> QED
    BY <2>1, <2>2
<1>13. Lists(d, P \ {e}, place)
  BY <1>12 DEF Lists
<1>14. LeftList(c, d, h, e)
  BY <1>4, <1>10, <1>11 DEF LeftList, t, u
<1> QED
  BY <1>8, <1>13, <1>14 DEF h

\* place2 puts e at h, and the entries of P where they were.
PlacedAt(place, place2, P, e, h) == place2[e] = h /\ \A f \in P : place2[f] = place[f]

LEMMA ListsAppend ==
    ASSUME NEW c \in States, NEW P \in SUBSET Entries, NEW place, Lists(c, P, place),
           NEW e \in Entries, e \notin P, NEW h \in Heads, NEW d, d = LRU_Append(c, h, e),
           NEW place2, PlacedAt(place, place2, P, e, h)
    PROVE  /\ d \in States /\ SameTables(c, d) /\ SameData(c, d) /\ SameCounts(c, d)
           /\ Lists(d, P \cup {e}, place2) /\ JoinedList(c, d, h, e)
<1>0. place2[e] = h /\ \A f \in P : place2[f] = place[f]
  BY DEF PlacedAt
<1> DEFINE t == ListOf(c, h)
           S(g) == {f \in P : place[f] = g}
<1>1. e \notin S(h)
  OBVIOUS
<1>2. \A g \in Heads : Listed(c, g, S(g))
  BY DEF Lists
<1>3. t \in Seq(Entries) /\ Inj(t) /\ ToSet(t) = S(h) /\ Ring(c.next, c.prev, h, t)
  BY <1>2 DEF Listed
<1> HIDE DEF t
<1>5. c.next \in [Nodes -> Nodes \cup {Nil}] /\ c.prev \in [Nodes -> Nodes \cup {Nil}]
  BY DEF States
<1> DEFINE nx == [[c.next EXCEPT ![e] = h] EXCEPT ![c.prev[h]] = e]
           pv == [[c.prev EXCEPT ![e] = c.prev[h]] EXCEPT ![h] = e]
           u == Append(t, e)
<1>6. /\ c.prev[h] \in {h} \cup S(h)
      /\ Ring(nx, pv, h, u)
  BY <1>1, <1>3, <1>5, RingAppend
<1>7. c.prev[h] \in Nodes
  BY <1>1, <1>6 DEF Nodes
<1>8. /\ d \in States /\ d.next = nx /\ d.prev = pv
      /\ SameTables(c, d) /\ SameData(c, d) /\ SameCounts(c, d)
  BY <1>1, <1>7, AppendEffect
<1>9. u \in Seq(Entries) /\ Inj(u) /\ ToSet(u) = S(h) \cup {e}
  BY <1>1, <1>3, AppendFacts
<1> HIDE DEF u
<1>10. Listed(d, h, S(h) \cup {e}) /\ ListOf(d, h) = u
  <2> HIDE DEF nx, pv, S
  <2>1. Ring(d.next, d.prev, h, u)
    BY <1>6, <1>8
  <2>2. Listed(d, h, ToSet(u)) /\ ListOf(d, h) = u
    BY <1>1, <1>9, <2>1, ListedIs
  <2> QED
    BY <1>9, <2>2
<1>11. ASSUME NEW g \in Heads, g # h
       PROVE  Listed(d, g, S(g)) /\ ListOf(d, g) = ListOf(c, g)
  <2> DEFINE r == ListOf(c, g)
  <2>1. r \in Seq(Entries) /\ Inj(r) /\ ToSet(r) = S(g) /\ Ring(c.next, c.prev, g, r)
    BY <1>2 DEF Listed
  <2>2. g \notin {h} \cup S(h) /\ \A f \in S(g) : f \notin {h} \cup S(h)
    BY <1>1, <1>11, HeadFacts
  <2>3. \A x \in {g} \cup S(g) : x \in Nodes /\ x # c.prev[h] /\ x # h /\ x # e
    BY <1>6, <2>2, HeadFacts DEF Nodes
  <2>4. \A x \in {g} \cup S(g) : nx[x] = c.next[x] /\ pv[x] = c.prev[x]
    BY <1>5, <2>3
  <2> HIDE DEF r, nx, pv
  <2>5. Ring(nx, pv, g, r)
    BY <2>1, <2>4, RingFrame
  <2> QED
    BY <1>8, <2>1, <2>5, ListedIs DEF r
<1>12. ASSUME NEW g \in Heads PROVE Listed(d, g, {f \in P \cup {e} : place2[f] = g})
  <2>1. CASE g = h
    <3>1. {f \in P \cup {e} : place2[f] = g} = S(h) \cup {e}
      BY <1>0, <2>1
    <3> QED
      BY <1>10, <2>1, <3>1
  <2>2. CASE g # h
    <3>1. {f \in P \cup {e} : place2[f] = g} = S(g)
      BY <1>0, <2>2
    <3> QED
      BY <1>11, <2>2, <3>1
  <2> QED
    BY <2>1, <2>2
<1>13. Lists(d, P \cup {e}, place2)
  BY <1>12 DEF Lists
<1>14. JoinedList(c, d, h, e)
  BY <1>10, <1>11 DEF JoinedList, t, u
<1> QED
  BY <1>8, <1>13, <1>14

LEMMA ListsSame ==
    ASSUME NEW c, NEW d, SameLists(c, d), NEW P \in SUBSET Entries, NEW place, NEW place2,
           \A e \in P : place2[e] = place[e], Lists(c, P, place)
    PROVE  Lists(d, P, place2) /\ \A h \in Heads : ListOf(d, h) = ListOf(c, h)
<1> SUFFICES ASSUME NEW h \in Heads
             PROVE  Listed(d, h, {e \in P : place2[e] = h}) /\ ListOf(d, h) = ListOf(c, h)
  BY DEF Lists
<1> DEFINE t == ListOf(c, h)
<1>1. {e \in P : place2[e] = h} = {e \in P : place[e] = h}
  OBVIOUS
<1>2. t \in Seq(Entries) /\ Inj(t) /\ ToSet(t) = {e \in P : place2[e] = h} /\ Ring(c.next, c.prev, h, t)
  BY <1>1 DEF Lists, Listed
<1> HIDE DEF t
<1>3. Ring(d.next, d.prev, h, t)
  BY <1>2 DEF SameLists
<1> QED
  BY <1>2, <1>3, ListedIs DEF t

(***************************************************************************)
(* The chains of a table, and FindPointer.                                 *)
(***************************************************************************)
LEMMA LengthIs ==
    ASSUME NEW c \in States, NEW s \in Shards
    PROVE  /\ length_(c, s) \in Nat \ {0}
           /\ c.list_[s] \in [0 .. length_(c, s) - 1 -> Entries \cup {Nil}]
           /\ \A h \in Nat : Bucket(h, length_(c, s)) \in 0 .. length_(c, s) - 1
<1>1. c.list_[s] \in Tables
  BY DEF States
<1>2. PICK n \in Nat \ {0} : c.list_[s] \in [0 .. n - 1 -> Entries \cup {Nil}]
  BY <1>1 DEF Tables
<1>3. Cardinality(0 .. n - 1) = n
  <2>1. 0 \in Int /\ n - 1 \in Int /\ ~ (0 > n - 1) /\ n - 1 - 0 + 1 = n
    OBVIOUS
  <2> QED
    BY <2>1, FS_Interval
<1>4. length_(c, s) = n
  BY <1>2, <1>3 DEF length_
<1>5. \A h \in Nat : h % n \in 0 .. n - 1
  OBVIOUS
<1> QED
  BY <1>2, <1>4, <1>5 DEF Bucket

\* The j-th entry of a chain, Nil after the last.
Link(t, j) == IF j \in 1 .. Len(t) THEN t[j] ELSE Nil

\* The entries of t are the chain of bucket b.
IsChain(c, s, b, t) ==
    /\ t \in Seq(Entries) /\ Inj(t)
    /\ c.list_[s][b] = Link(t, 1) /\ \A i \in 1 .. Len(t) : c.next_hash[t[i]] = Link(t, i + 1)

IsChainWalk(w, c, s, b) ==
    w = [n \in 0 .. Cardinality(Entries) |->
            IF n = 0 THEN <<>>
            ELSE LET t == w[n - 1]
                     e == IF t = <<>> THEN c.list_[s][b] ELSE c.next_hash[Last(t)]
                 IN  IF Len(t) = n - 1 /\ e # Nil THEN Append(t, e) ELSE t]

LEMMA ChainIs ==
    ASSUME NEW c, NEW s, NEW b, NEW t, IsChain(c, s, b, t)
    PROVE  Chain(c, s, b) = t
<1> DEFINE N == Cardinality(Entries)
           m(n) == IF n <= Len(t) THEN n ELSE Len(t)
           f == [n \in 0 .. N |-> SubSeq(t, 1, m(n))]
           Step(n, p) == LET e == IF p = <<>> THEN c.list_[s][b] ELSE c.next_hash[Last(p)]
                         IN  IF Len(p) = n - 1 /\ e # Nil THEN Append(p, e) ELSE p
<1>0. t \in Seq(Entries) /\ Inj(t)
  BY DEF IsChain
<1>1. N \in Nat /\ Len(t) <= N /\ Len(t) \in Nat
  BY <1>0, InjLen
<1>2. Chain(c, s, b) = (CHOOSE w : IsChainWalk(w, c, s, b))[N]
  BY DEF Chain, IsChainWalk
<1>3. ASSUME NEW n \in 1 .. N PROVE Step(n, SubSeq(t, 1, m(n - 1))) = SubSeq(t, 1, m(n))
  <2> DEFINE k == m(n - 1)
             p == SubSeq(t, 1, k)
  <2>1. k \in 0 .. Len(t) /\ n - 1 \in 0 .. N
    BY <1>1
  <2>2. /\ Len(p) = k /\ (p = <<>> <=> k = 0) /\ (k > 0 => Last(p) = t[k])
        /\ (k < Len(t) => Append(p, t[k + 1]) = SubSeq(t, 1, k + 1))
        /\ (k = Len(t) => p = t)
    <3> HIDE DEF k
    <3> QED
      BY <1>0, <2>1, PrefixFacts
  <2>3. (IF p = <<>> THEN c.list_[s][b] ELSE c.next_hash[Last(p)]) = Link(t, k + 1)
    <3> HIDE DEF k, p
    <3>1. CASE k = 0
      BY <2>2, <3>1 DEF IsChain
    <3>2. CASE k # 0
      <4>1. k \in 1 .. Len(t) /\ k > 0
        BY <1>1, <2>1, <3>2
      <4> QED
        BY <2>2, <3>2, <4>1 DEF IsChain
    <3> QED
      BY <3>1, <3>2
  <2>5. Step(n, p) = IF k = n - 1 /\ Link(t, k + 1) # Nil THEN Append(p, Link(t, k + 1)) ELSE p
    <3> HIDE DEF k, p
    <3> QED
      BY <2>2, <2>3
  <2>6. ASSUME n <= Len(t) PROVE Step(n, p) = SubSeq(t, 1, m(n))
    <3>1. k = n - 1 /\ m(n) = n /\ k < Len(t)
      BY <1>1, <2>6
    <3>2. Link(t, n) = t[n] /\ t[n] \in Entries /\ t[n] # Nil
      BY <1>0, <1>1, <2>6, TableAssumption DEF Link
    <3>3. k + 1 = n
      BY <3>1
    <3> HIDE DEF k, p, m, Step
    <3> QED
      BY <2>2, <2>5, <3>1, <3>2, <3>3
  <2>7. ASSUME n > Len(t) PROVE Step(n, p) = SubSeq(t, 1, m(n))
    <3>1. k = Len(t) /\ m(n) = Len(t)
      BY <1>1, <2>7
    <3>2. Link(t, k + 1) = Nil
      <4> HIDE DEF k
      <4> QED
        BY <1>1, <3>1 DEF Link
    <3>3. p = SubSeq(t, 1, m(n))
      BY <3>1
    <3> HIDE DEF k, m, p, Step
    <3> QED
      BY <2>5, <3>2, <3>3
  <2> HIDE DEF Step, m
  <2>8. Step(n, p) = SubSeq(t, 1, m(n))
    BY <1>1, <2>6, <2>7
  <2> QED
    BY <2>8
<1>4. SubSeq(t, 1, m(0)) = <<>> /\ SubSeq(t, 1, m(N)) = t
  <2>1. m(0) = 0 /\ m(N) = Len(t) /\ 0 \in 0 .. Len(t) /\ Len(t) \in 0 .. Len(t)
    BY <1>1
  <2> HIDE DEF m
  <2> QED
    BY <1>0, <2>1, PrefixFacts
<1> HIDE DEF m, Step
<1>5. f[0] = <<>> /\ f[N] = t /\ \A n \in 1 .. N : f[n] = Step(n, f[n - 1])
  <2> HIDE DEF N
  <2>1. 0 \in 0 .. N /\ N \in 0 .. N
    BY <1>1
  <2>2. \A n \in 1 .. N : n - 1 \in 0 .. N /\ n \in 0 .. N
    BY <1>1
  <2>3. \A n \in 0 .. N : f[n] = SubSeq(t, 1, m(n))
    OBVIOUS
  <2> HIDE DEF f
  <2> QED
    BY <1>3, <1>4, <2>1, <2>2, <2>3
<1>6. f = [n \in 0 .. N |-> f[n]]
  OBVIOUS
<1> HIDE DEF f
<1>7. \A n \in 0 .. N : n # 0 => n \in 1 .. N
  BY <1>1
<1>8. f = [n \in 0 .. N |-> IF n = 0 THEN <<>> ELSE Step(n, f[n - 1])]
  BY <1>5, <1>6, <1>7
<1>9. IsChainWalk(f, c, s, b)
  BY <1>8 DEF IsChainWalk, Step, N
<1> DEFINE w == CHOOSE w : IsChainWalk(w, c, s, b)
<1>10. IsChainWalk(w, c, s, b)
  BY <1>9
<1> HIDE DEF w
<1>11. w = [n \in 0 .. N |-> IF n = 0 THEN <<>> ELSE Step(n, w[n - 1])]
  BY <1>10 DEF IsChainWalk, Step, N
<1>12. w[0] = <<>> /\ \A n \in 1 .. N : w[n] = Step(n, w[n - 1])
  <2> HIDE DEF N
  <2> QED
    BY <1>1, <1>11
<1>13. w[N] = f[N]
  <2> HIDE DEF N
  <2>1. \A n \in 1 .. N : w[n - 1] = f[n - 1] => w[n] = f[n]
    BY <1>5, <1>12
  <2> QED
    BY <1>1, <1>5, <1>12, <2>1, SameWalk
<1> QED
  BY <1>2, <1>5, <1>13 DEF w

Match(c, e, k, hash) == c.hash[e] = hash /\ c.key[e] = k

\* Where the pointer to the entry after the j-th of a chain is stored.
Ptr(t, b, j) == IF j = 0 THEN b ELSE t[j]

IsPointerWalk(w, c, s, k, hash) ==
    w = [n \in 0 .. Cardinality(Entries) |->
            IF n = 0 THEN Bucket(hash, length_(c, s))
            ELSE LET ptr == w[n - 1]
                     e == Deref(c, s, ptr)
                 IN  IF e # Nil /\ (c.hash[e] # hash \/ c.key[e] # k) THEN e ELSE ptr]

LEMMA DerefPtr ==
    ASSUME NEW c, NEW s, NEW b \in Nat, NEW t, IsChain(c, s, b, t), NEW j \in 0 .. Len(t)
    PROVE  Deref(c, s, Ptr(t, b, j)) = Link(t, j + 1)
<1>1. b \notin Entries
  BY TableAssumption
<1>2. CASE j = 0
  BY <1>1, <1>2 DEF Deref, Ptr, IsChain
<1>3. CASE j # 0
  <2>1. t \in Seq(Entries) /\ j \in 1 .. Len(t)
    BY <1>3 DEF IsChain
  <2>2. t[j] \in Entries /\ Ptr(t, b, j) = t[j]
    BY <1>3, <2>1 DEF Ptr
  <2> QED
    BY <2>1, <2>2 DEF Deref, IsChain
<1> QED
  BY <1>2, <1>3

LEMMA FindPointerIs ==
    ASSUME NEW c, NEW s, NEW k, NEW hash, NEW b \in Nat, b = Bucket(hash, length_(c, s)), NEW t, IsChain(c, s, b, t)
    PROVE  \E m \in 0 .. Len(t) : /\ FindPointer(c, s, k, hash) = Ptr(t, b, m)
                                  /\ \A i \in 1 .. m : ~ Match(c, t[i], k, hash)
                                  /\ m < Len(t) => Match(c, t[m + 1], k, hash)
<1> DEFINE N == Cardinality(Entries)
<1>0. t \in Seq(Entries) /\ Inj(t) /\ Len(t) \in Nat
  BY DEF IsChain
<1>1. N \in Nat /\ Len(t) <= N
  BY <1>0, InjLen
<1> DEFINE J == {j \in 0 .. Len(t) : j < Len(t) => Match(c, t[j + 1], k, hash)}
<1>2. PICK m \in J : \A j \in J : m <= j
  <2>1. Len(t) \in J /\ J \subseteq Nat
    BY <1>0
  <2> HIDE DEF J
  <2> QED
    BY <2>1, LeastNumber
<1>3. m \in 0 .. Len(t) /\ (m < Len(t) => Match(c, t[m + 1], k, hash))
  BY <1>2
<1>4. ASSUME NEW i \in 1 .. m PROVE ~ Match(c, t[i], k, hash)
  <2>1. i - 1 \in 0 .. Len(t) /\ i - 1 < Len(t) /\ ~ (m <= i - 1) /\ i - 1 + 1 = i
    BY <1>0, <1>3
  <2> QED
    BY <1>2, <2>1
<1> HIDE DEF J
<1> DEFINE p(n) == IF n <= m THEN n ELSE m
           f == [n \in 0 .. N |-> Ptr(t, b, p(n))]
           Step(ptr) == LET e == Deref(c, s, ptr)
                        IN  IF e # Nil /\ (c.hash[e] # hash \/ c.key[e] # k) THEN e ELSE ptr
<1>5. FindPointer(c, s, k, hash) = (CHOOSE w : IsPointerWalk(w, c, s, k, hash))[N]
  BY DEF FindPointer, IsPointerWalk
<1>6. ASSUME NEW n \in 1 .. N PROVE Step(Ptr(t, b, p(n - 1))) = Ptr(t, b, p(n))
  <2>1. p(n - 1) \in 0 .. Len(t)
    BY <1>0, <1>1, <1>3
  <2>2. Deref(c, s, Ptr(t, b, p(n - 1))) = Link(t, p(n - 1) + 1)
    <3> HIDE DEF p
    <3> QED
      BY <2>1, DerefPtr
  <2>3. CASE n <= m
    <3>1. p(n - 1) + 1 = n /\ p(n) = n /\ n \in 1 .. Len(t) /\ n \in 1 .. m /\ n # 0
      BY <1>0, <1>1, <1>3, <2>3
    <3>2. Link(t, n) = t[n] /\ t[n] # Nil /\ Ptr(t, b, n) = t[n]
      BY <1>0, <3>1, TableAssumption DEF Link, Ptr
    <3>3. c.hash[t[n]] # hash \/ c.key[t[n]] # k
      BY <1>4, <3>1 DEF Match
    <3> HIDE DEF p
    <3> QED
      BY <2>2, <3>1, <3>2, <3>3
  <2>4. CASE n > m
    <3>1. p(n - 1) = m /\ p(n) = m
      BY <1>0, <1>1, <1>3, <2>4
    <3>2. Deref(c, s, Ptr(t, b, m)) = Link(t, m + 1)
      BY <2>2, <3>1
    <3>3. Link(t, m + 1) = Nil \/ Match(c, Link(t, m + 1), k, hash)
      BY <1>0, <1>3 DEF Link
    <3> HIDE DEF p
    <3> QED
      BY <3>1, <3>2, <3>3 DEF Match
  <2> QED
    BY <1>1, <1>3, <2>3, <2>4
<1>7. p(0) = 0 /\ p(N) = m
  BY <1>0, <1>1, <1>3
<1> HIDE DEF p, Step
<1>8. f[0] = b /\ f[N] = Ptr(t, b, m) /\ \A n \in 1 .. N : f[n] = Step(f[n - 1])
  <2> HIDE DEF N
  <2>1. 0 \in 0 .. N /\ N \in 0 .. N
    BY <1>1
  <2>2. \A n \in 1 .. N : n - 1 \in 0 .. N /\ n \in 0 .. N
    BY <1>1
  <2>3. \A n \in 0 .. N : f[n] = Ptr(t, b, p(n))
    OBVIOUS
  <2>4. Ptr(t, b, 0) = b
    BY DEF Ptr
  <2> HIDE DEF f
  <2> QED
    BY <1>6, <1>7, <2>1, <2>2, <2>3, <2>4
<1>9. f = [n \in 0 .. N |-> f[n]]
  OBVIOUS
<1> HIDE DEF f
<1>10. \A n \in 0 .. N : n # 0 => n \in 1 .. N
  BY <1>1
<1>11. f = [n \in 0 .. N |-> IF n = 0 THEN b ELSE Step(f[n - 1])]
  BY <1>8, <1>9, <1>10
<1>12. IsPointerWalk(f, c, s, k, hash)
  BY <1>11 DEF IsPointerWalk, Step, N
<1> DEFINE w == CHOOSE w : IsPointerWalk(w, c, s, k, hash)
<1>13. IsPointerWalk(w, c, s, k, hash)
  BY <1>12
<1> HIDE DEF w
<1>14. w = [n \in 0 .. N |-> IF n = 0 THEN b ELSE Step(w[n - 1])]
  BY <1>13 DEF IsPointerWalk, Step, N
<1>15. w[0] = b /\ \A n \in 1 .. N : w[n] = Step(w[n - 1])
  <2> HIDE DEF N
  <2> QED
    BY <1>1, <1>14
<1>16. w[N] = f[N]
  <2> HIDE DEF N
  <2>1. \A n \in 1 .. N : w[n - 1] = f[n - 1] => w[n] = f[n]
    BY <1>8, <1>15
  <2> QED
    BY <1>1, <1>8, <1>15, <2>1, SameWalk
<1> QED
  BY <1>3, <1>4, <1>5, <1>8, <1>16 DEF w

InBucket(c, e, s, b) == Shard(c.hash[e]) = s /\ Bucket(c.hash[e], length_(c, s)) = b

\* The tables hold the entries of T, each in the bucket of its hash.
InTables(c, T) ==
    \A s \in Shards : \A b \in 0 .. length_(c, s) - 1 :
        \E t : IsChain(c, s, b, t) /\ ToSet(t) = {e \in T : InBucket(c, e, s, b)}

LEMMA LookupIs ==
    ASSUME NEW c \in States, NEW T \in SUBSET Entries, InTables(c, T), NEW s \in Shards,
           NEW k, NEW hash \in Nat, Shard(hash) = s
    PROVE  \E b \in 0 .. length_(c, s) - 1 : \E t : \E m \in 0 .. Len(t) :
              /\ b = Bucket(hash, length_(c, s)) /\ b \in Nat
              /\ IsChain(c, s, b, t) /\ ToSet(t) = {e \in T : InBucket(c, e, s, b)}
              /\ FindPointer(c, s, k, hash) = Ptr(t, b, m)
              /\ TableLookup(c, s, k, hash) = Link(t, m + 1)
              /\ IF m < Len(t) THEN t[m + 1] \in T /\ Match(c, t[m + 1], k, hash)
                 ELSE m = Len(t) /\ \A e \in T : ~ Match(c, e, k, hash)
<1> DEFINE b == Bucket(hash, length_(c, s))
<1>1. b \in 0 .. length_(c, s) - 1 /\ b \in Nat
  BY LengthIs
<1> HIDE DEF b
<1>2. PICK t : IsChain(c, s, b, t) /\ ToSet(t) = {e \in T : InBucket(c, e, s, b)}
  BY <1>1 DEF InTables
<1>3. PICK m \in 0 .. Len(t) : /\ FindPointer(c, s, k, hash) = Ptr(t, b, m)
                               /\ \A i \in 1 .. m : ~ Match(c, t[i], k, hash)
                               /\ m < Len(t) => Match(c, t[m + 1], k, hash)
  BY <1>1, <1>2, FindPointerIs DEF b
<1>4. t \in Seq(Entries) /\ Len(t) \in Nat /\ ToSet(t) = {t[i] : i \in 1 .. Len(t)}
  BY <1>2, ToSetIs DEF IsChain
<1>5. TableLookup(c, s, k, hash) = Link(t, m + 1)
  BY <1>1, <1>2, <1>3, DerefPtr DEF TableLookup
<1>6. ASSUME m < Len(t) PROVE t[m + 1] \in T
  <2>1. m + 1 \in 1 .. Len(t)
    BY <1>4, <1>6
  <2> QED
    BY <1>2, <1>4, <2>1
<1>7. ASSUME ~ (m < Len(t)), NEW e \in T, Match(c, e, k, hash) PROVE FALSE
  <2>1. e \in ToSet(t)
    BY <1>2, <1>7 DEF InBucket, Match, b
  <2>2. PICK i \in 1 .. Len(t) : t[i] = e
    BY <1>4, <2>1
  <2>3. i \in 1 .. m
    BY <1>4, <1>7
  <2> QED
    BY <1>3, <1>7, <2>2, <2>3
<1>8. ~ (m < Len(t)) => m = Len(t)
  BY <1>4
<1> DEFINE Goal(m2) ==
              /\ b = Bucket(hash, length_(c, s)) /\ b \in Nat
              /\ IsChain(c, s, b, t) /\ ToSet(t) = {e \in T : InBucket(c, e, s, b)}
              /\ FindPointer(c, s, k, hash) = Ptr(t, b, m2)
              /\ TableLookup(c, s, k, hash) = Link(t, m2 + 1)
              /\ IF m2 < Len(t) THEN t[m2 + 1] \in T /\ Match(c, t[m2 + 1], k, hash)
                 ELSE m2 = Len(t) /\ \A e \in T : ~ Match(c, e, k, hash)
<1>9. Goal(m)
  <2>1. b = Bucket(hash, length_(c, s))
    BY DEF b
  <2> QED
    BY <1>1, <1>2, <1>3, <1>5, <1>6, <1>7, <1>8, <2>1
<1> QED
  BY <1>1, <1>9

LEMMA ChainFrame ==
    ASSUME NEW c, NEW d, NEW s, NEW b, NEW t, IsChain(c, s, b, t),
           d.list_[s][b] = c.list_[s][b], \A x \in ToSet(t) : d.next_hash[x] = c.next_hash[x]
    PROVE  IsChain(d, s, b, t)
<1>1. t \in Seq(Entries)
  BY DEF IsChain
<1>2. \A i \in 1 .. Len(t) : t[i] \in ToSet(t)
  BY <1>1, ToSetIs
<1> QED
  BY <1>2 DEF IsChain

\* Between c with T in its tables and d with T2, only bucket b of shard s has changed.
OnlyBucket(c, d, s, b, T, T2) ==
    /\ \A r \in Shards : length_(d, r) = length_(c, r)
    /\ \A e \in Entries : d.hash[e] = c.hash[e]
    /\ \A r \in Shards : \A a \in 0 .. length_(c, r) - 1 : (r # s \/ a # b) => d.list_[r][a] = c.list_[r][a]
    /\ \A x \in T : ~ InBucket(c, x, s, b) => d.next_hash[x] = c.next_hash[x]
    /\ \A x \in Entries : ~ InBucket(c, x, s, b) => (x \in T2 <=> x \in T)

LEMMA OneChainChanges ==
    ASSUME NEW c, NEW d, NEW T \in SUBSET Entries, NEW T2 \in SUBSET Entries,
           InTables(c, T), NEW s \in Shards, NEW b \in 0 .. length_(c, s) - 1,
           OnlyBucket(c, d, s, b, T, T2),
           NEW u, IsChain(d, s, b, u), ToSet(u) = {x \in T2 : InBucket(c, x, s, b)}
    PROVE  InTables(d, T2)
<1>1. \A x \in Entries, r \in Shards : \A a : InBucket(d, x, r, a) <=> InBucket(c, x, r, a)
  BY DEF InBucket, OnlyBucket
<1> SUFFICES ASSUME NEW r \in Shards, NEW a \in 0 .. length_(c, r) - 1
             PROVE  \E t : IsChain(d, r, a, t) /\ ToSet(t) = {e \in T2 : InBucket(d, e, r, a)}
  BY DEF InTables, OnlyBucket
<1>2. {e \in T2 : InBucket(d, e, r, a)} = {e \in T2 : InBucket(c, e, r, a)}
  BY <1>1
<1>3. CASE r = s /\ a = b
  BY <1>2, <1>3
<1>4. CASE r # s \/ a # b
  <2>1. PICK t : IsChain(c, r, a, t) /\ ToSet(t) = {e \in T : InBucket(c, e, r, a)}
    BY DEF InTables
  <2>2. \A x \in Entries : InBucket(c, x, r, a) => ~ InBucket(c, x, s, b)
    BY <1>4 DEF InBucket
  <2>3. {e \in T2 : InBucket(c, e, r, a)} = {e \in T : InBucket(c, e, r, a)}
    BY <2>2 DEF OnlyBucket
  <2>4. IsChain(d, r, a, t)
    <3>1. \A x \in ToSet(t) : d.next_hash[x] = c.next_hash[x]
      BY <2>1, <2>2 DEF OnlyBucket
    <3>2. d.list_[r][a] = c.list_[r][a]
      BY <1>4 DEF OnlyBucket
    <3> QED
      BY <2>1, <3>1, <3>2, ChainFrame
  <2> QED
    BY <1>2, <2>1, <2>3, <2>4
<1> QED
  BY <1>3, <1>4

\* d is c after an assignment to *ptr.
Assigned(c, d, s, ptr, e) ==
    /\ d \in States
    /\ ptr \in Entries => d.next_hash = [c.next_hash EXCEPT ![ptr] = e] /\ d.list_ = c.list_
    /\ ptr \notin Entries => /\ d.next_hash = c.next_hash
                             /\ d.list_ = [c.list_ EXCEPT ![s] = [c.list_[s] EXCEPT ![ptr] = e]]
    /\ d.elems_ = c.elems_
    /\ SameLists(c, d) /\ SameData(c, d) /\ SameCounts(c, d)

LEMMA AssignEffect ==
    ASSUME NEW c \in States, NEW s \in Shards, NEW ptr \in Entries \cup (0 .. length_(c, s) - 1),
           NEW e \in Entries \cup {Nil}, NEW d, d = Assign(c, s, ptr, e)
    PROVE  Assigned(c, d, s, ptr, e)
<1>1. CASE ptr \in Entries
  <2>1. d = [c EXCEPT !.next_hash[ptr] = e]
    BY <1>1 DEF Assign
  <2>2. d \in States
    BY SMTT(30), <1>1, <2>1 DEF States
  <2>3. /\ d.next_hash = [c.next_hash EXCEPT ![ptr] = e] /\ d.list_ = c.list_ /\ d.elems_ = c.elems_
        /\ SameLists(c, d) /\ SameData(c, d) /\ SameCounts(c, d)
    BY <1>1, <2>1 DEF States, SameLists, SameData, SameCounts
  <2> QED
    BY <1>1, <2>2, <2>3 DEF Assigned
<1>2. CASE ptr \notin Entries
  <2> DEFINE l == [c.list_[s] EXCEPT ![ptr] = e]
  <2>1. d = [c EXCEPT !.list_[s][ptr] = e]
    BY <1>2 DEF Assign
  <2>2. c.list_ \in [Shards -> Tables] /\ l \in Tables
    <3>1. c.list_ \in [Shards -> Tables]
      BY DEF States
    <3>2. length_(c, s) \in Nat \ {0} /\ c.list_[s] \in [0 .. length_(c, s) - 1 -> Entries \cup {Nil}]
      BY LengthIs
    <3>3. l \in [0 .. length_(c, s) - 1 -> Entries \cup {Nil}]
      BY <1>2, <3>2
    <3> QED
      BY <3>1, <3>2, <3>3 DEF Tables
  <2>3. [c.list_ EXCEPT ![s] = l] \in [Shards -> Tables]
    BY <2>2
  <2>4. d = [c EXCEPT !.list_ = [c.list_ EXCEPT ![s] = l]]
    BY <2>1
  <2> HIDE DEF l
  <2>5. d \in States
    BY <2>3, <2>4 DEF States
  <2>6. /\ d.next_hash = c.next_hash /\ d.list_ = [c.list_ EXCEPT ![s] = l] /\ d.elems_ = c.elems_
        /\ SameLists(c, d) /\ SameData(c, d) /\ SameCounts(c, d)
    BY <2>4 DEF States, SameLists, SameData, SameCounts
  <2> QED
    BY <1>2, <2>5, <2>6 DEF l, Assigned
<1> QED
  BY <1>1, <1>2

\* d is c after an assignment to elems_, or to the next_hash of an entry.
ElemsAssigned(c, d, s, n) ==
    /\ d \in States /\ d.elems_ = [c.elems_ EXCEPT ![s] = n]
    /\ d.list_ = c.list_ /\ d.next_hash = c.next_hash
    /\ SameLists(c, d) /\ SameData(c, d) /\ SameCounts(c, d)

NextHashAssigned(c, d, h, e) ==
    /\ d \in States /\ d.next_hash = [c.next_hash EXCEPT ![h] = e]
    /\ d.list_ = c.list_ /\ d.elems_ = c.elems_
    /\ SameLists(c, d) /\ SameData(c, d) /\ SameCounts(c, d)

LEMMA ElemsEffect ==
    ASSUME NEW c \in States, NEW s \in Shards, NEW n \in Int, NEW d, d = [c EXCEPT !.elems_[s] = n]
    PROVE  ElemsAssigned(c, d, s, n)
<1>1. d \in States
  BY DEF States
<1>2. /\ d.elems_ = [c.elems_ EXCEPT ![s] = n] /\ d.list_ = c.list_ /\ d.next_hash = c.next_hash
      /\ SameLists(c, d) /\ SameData(c, d) /\ SameCounts(c, d)
  BY DEF States, SameLists, SameData, SameCounts
<1> QED
  BY <1>1, <1>2 DEF ElemsAssigned

LEMMA NextHashEffect ==
    ASSUME NEW c \in States, NEW h \in Entries, NEW e \in Entries \cup {Nil}, NEW d, d = [c EXCEPT !.next_hash[h] = e]
    PROVE  NextHashAssigned(c, d, h, e)
<1>1. d \in States
  BY DEF States
<1>2. /\ d.next_hash = [c.next_hash EXCEPT ![h] = e] /\ d.list_ = c.list_ /\ d.elems_ = c.elems_
      /\ SameLists(c, d) /\ SameData(c, d) /\ SameCounts(c, d)
  BY DEF States, SameLists, SameData, SameCounts
<1> QED
  BY <1>1, <1>2 DEF NextHashAssigned

LEMMA SameTrans ==
    ASSUME NEW c, NEW d, NEW f,
           SameLists(c, d), SameData(c, d), SameCounts(c, d), SameLists(d, f), SameData(d, f), SameCounts(d, f)
    PROVE  SameLists(c, f) /\ SameData(c, f) /\ SameCounts(c, f)
BY DEF SameLists, SameData, SameCounts

(***************************************************************************)
(* Remove and Insert of HandleTable.                                       *)
(***************************************************************************)
LEMMA AssignLength ==
    ASSUME NEW c \in States, NEW s \in Shards, NEW ptr \in Entries \cup (0 .. length_(c, s) - 1),
           NEW e \in Entries \cup {Nil}, NEW d, d = Assign(c, s, ptr, e)
    PROVE  /\ \A r \in Shards : length_(d, r) = length_(c, r)
           /\ \A r \in Shards : \A a \in 0 .. length_(c, r) - 1 :
                 d.list_[r][a] = IF r = s /\ a = ptr THEN e ELSE c.list_[r][a]
<1>1. /\ ptr \in Entries => d.list_ = c.list_
      /\ ptr \notin Entries => d.list_ = [c.list_ EXCEPT ![s] = [c.list_[s] EXCEPT ![ptr] = e]]
  <2>1. Assigned(c, d, s, ptr, e)
    BY AssignEffect
  <2> QED
    BY <2>1 DEF Assigned
<1>2. DOMAIN c.list_ = Shards
  BY DEF States
<1>3. \A r \in Shards : c.list_[r] \in [0 .. length_(c, r) - 1 -> Entries \cup {Nil}] /\ length_(c, r) \in Nat
  BY LengthIs
<1>4. \A r \in Shards : DOMAIN d.list_[r] = DOMAIN c.list_[r]
  BY <1>1, <1>2
<1>5. \A r \in Shards : length_(d, r) = length_(c, r)
  BY <1>4 DEF length_
<1>6. ASSUME NEW r \in Shards, NEW a \in 0 .. length_(c, r) - 1
      PROVE  d.list_[r][a] = IF r = s /\ a = ptr THEN e ELSE c.list_[r][a]
  <2>1. a \in Nat /\ a \notin Entries
    BY <1>3, TableAssumption
  <2>2. CASE ptr \in Entries
    BY <1>1, <2>1, <2>2
  <2>3. CASE ptr \notin Entries
    <3>1. d.list_[r] = IF r = s THEN [c.list_[s] EXCEPT ![ptr] = e] ELSE c.list_[r]
      BY <1>1, <1>2, <2>3
    <3>2. CASE r = s
      <4>1. a \in DOMAIN c.list_[s] /\ d.list_[r] = [c.list_[s] EXCEPT ![ptr] = e]
        BY <1>3, <3>1, <3>2
      <4> QED
        BY <3>2, <4>1
    <3>3. CASE r # s
      BY <3>1, <3>3
    <3> QED
      BY <3>2, <3>3
  <2> QED
    BY <2>2, <2>3
<1> QED
  BY <1>5, <1>6

LEMMA LinkFacts ==
    ASSUME NEW t \in Seq(Entries), NEW j \in Nat
    PROVE  Link(t, j) \in Entries \cup {Nil} /\ (j \in 1 .. Len(t) => Link(t, j) = t[j] /\ Link(t, j) # Nil)
           /\ (j \notin 1 .. Len(t) => Link(t, j) = Nil)
BY TableAssumption DEF Link

\* Where the m-th pointer of a chain is stored, and where not.
StoredAt(ptr, t, b, m) ==
    /\ m = 0 => ptr = b /\ ptr \notin Entries
    /\ m # 0 => ptr \in Entries /\ ptr \in ToSet(t)
    /\ \A i \in 1 .. Len(t) : t[i] = ptr <=> i = m

LEMMA PtrFacts ==
    ASSUME NEW t \in Seq(Entries), Inj(t), NEW b \in Nat, NEW m \in 0 .. Len(t)
    PROVE  StoredAt(Ptr(t, b, m), t, b, m)
<1>1. b \notin Entries
  BY TableAssumption
<1>2. ToSet(t) = {t[i] : i \in 1 .. Len(t)} /\ \A i \in 1 .. Len(t) : t[i] \in Entries
  BY ToSetIs
<1>3. CASE m = 0
  BY <1>1, <1>2, <1>3 DEF Ptr, StoredAt
<1>4. CASE m # 0
  <2>1. m \in 1 .. Len(t)
    BY <1>4
  <2> QED
    BY <1>2, <1>4, <2>1 DEF Ptr, Inj, StoredAt
<1> QED
  BY <1>3, <1>4

\* A chain without its (m + 1)-st entry, after the two assignments of HandleTable::Remove.
LEMMA ChainCut ==
    ASSUME NEW c, NEW d, NEW s, NEW b \in Nat, NEW t, IsChain(c, s, b, t), NEW m \in 0 .. Len(t) - 1,
           \A x \in ToSet(t) : x # t[m + 1] =>
               d.next_hash[x] = IF x = Ptr(t, b, m) THEN Link(t, m + 2) ELSE c.next_hash[x],
           d.list_[s][b] = IF b = Ptr(t, b, m) THEN Link(t, m + 2) ELSE c.list_[s][b]
    PROVE  IsChain(d, s, b, CutOut(t, m + 1))
<1> DEFINE u == CutOut(t, m + 1)
           n == Len(t)
<1>0. t \in Seq(Entries) /\ Inj(t) /\ n \in Nat /\ m + 1 \in 1 .. n /\ m \in Nat /\ m \in 0 .. n
  BY DEF IsChain
<1>1. u \in Seq(Entries) /\ Inj(u) /\ Len(u) = n - 1
  BY <1>0, CutOutFacts
<1>2. \A j \in 1 .. n - 1 : u[j] = IF j < m + 1 THEN t[j] ELSE t[j + 1]
  BY DEF CutOut
<1>3. \A j \in 1 .. n : Link(u, j) = IF j < m + 1 THEN Link(t, j) ELSE Link(t, j + 1)
  BY <1>0, <1>1, <1>2 DEF Link
<1>4. /\ c.list_[s][b] = Link(t, 1) /\ \A i \in 1 .. n : c.next_hash[t[i]] = Link(t, i + 1)
  BY DEF IsChain
<1>5. /\ m = 0 => Ptr(t, b, m) = b
      /\ m # 0 => Ptr(t, b, m) \in Entries
      /\ \A i \in 1 .. n : t[i] = Ptr(t, b, m) <=> i = m
  <2>1. StoredAt(Ptr(t, b, m), t, b, m)
    BY <1>0, PtrFacts
  <2> QED
    BY <2>1 DEF StoredAt
<1>6. b \notin Entries
  BY TableAssumption
<1>7. \A i \in 1 .. n : t[i] \in ToSet(t) /\ (t[i] = t[m + 1] <=> i = m + 1)
  BY <1>0, ToSetIs DEF Inj
<1> HIDE DEF u, n
<1>8. d.list_[s][b] = Link(u, 1)
  <2>1. 1 \in 1 .. n
    BY <1>0
  <2>2. CASE m = 0
    BY <1>3, <1>5, <2>1, <2>2
  <2>3. CASE m # 0
    BY <1>0, <1>3, <1>4, <1>5, <1>6, <2>1, <2>3
  <2> QED
    BY <2>2, <2>3
<1>9. ASSUME NEW j \in 1 .. n - 1 PROVE d.next_hash[u[j]] = Link(u, j + 1)
  <2>1. CASE j < m
    <3>1. u[j] = t[j] /\ j \in 1 .. n /\ j # m /\ j # m + 1 /\ j + 1 \in 1 .. n /\ j + 1 < m + 1
      BY <1>0, <1>2, <2>1
    <3>2. Link(u, j + 1) = Link(t, j + 1)
      BY <1>3, <3>1
    <3> QED
      BY <1>4, <1>5, <1>7, <3>1, <3>2
  <2>2. CASE j = m
    <3>1. u[j] = t[j] /\ j \in 1 .. n /\ j # m + 1 /\ j + 1 \in 1 .. n /\ ~ (j + 1 < m + 1) /\ j + 1 + 1 = m + 2
      BY <1>0, <1>2, <2>2
    <3>2. Link(u, j + 1) = Link(t, m + 2)
      BY <1>3, <3>1
    <3> QED
      BY <1>5, <1>7, <2>2, <3>1, <3>2
  <2>3. CASE j > m
    <3>1. u[j] = t[j + 1] /\ j + 1 \in 1 .. n /\ j + 1 # m + 1 /\ j + 1 # m /\ ~ (j + 1 < m + 1)
      BY <1>0, <1>2, <2>3
    <3>2. Link(u, j + 1) = Link(t, j + 1 + 1)
      BY <1>3, <3>1
    <3> QED
      BY <1>4, <1>5, <1>7, <3>1, <3>2
  <2> QED
    BY <1>0, <2>1, <2>2, <2>3
<1> QED
  BY <1>1, <1>8, <1>9 DEF IsChain, u

Removed(c, d, T, s, k, hash, e) ==
    /\ e = Nil => d = c /\ \A f \in T : ~ Match(c, f, k, hash)
    /\ e # Nil => /\ e \in T /\ Match(c, e, k, hash)
                  /\ d \in States /\ InTables(d, T \ {e})
                  /\ d.elems_ = [c.elems_ EXCEPT ![s] = c.elems_[s] - 1]
                  /\ \A r \in Shards : length_(d, r) = length_(c, r)
                  /\ SameLists(c, d) /\ SameData(c, d) /\ SameCounts(c, d)

LEMMA RemoveIs ==
    ASSUME NEW c \in States, NEW T \in SUBSET Entries, InTables(c, T), NEW s \in Shards,
           NEW k, NEW hash \in Nat, Shard(hash) = s,
           NEW e, e = TableLookup(c, s, k, hash), NEW d, d = TableRemove(c, s, k, hash)
    PROVE  Removed(c, d, T, s, k, hash, e)
<1> SUFFICES /\ e = Nil => d = c /\ \A f \in T : ~ Match(c, f, k, hash)
             /\ e # Nil => /\ e \in T /\ Match(c, e, k, hash)
                           /\ d \in States /\ InTables(d, T \ {e})
                           /\ d.elems_ = [c.elems_ EXCEPT ![s] = c.elems_[s] - 1]
                           /\ \A r \in Shards : length_(d, r) = length_(c, r)
                           /\ SameLists(c, d) /\ SameData(c, d) /\ SameCounts(c, d)
  BY DEF Removed
<1>1. PICK b \in 0 .. length_(c, s) - 1 : \E t : \E m \in 0 .. Len(t) :
              /\ b = Bucket(hash, length_(c, s)) /\ b \in Nat
              /\ IsChain(c, s, b, t) /\ ToSet(t) = {f \in T : InBucket(c, f, s, b)}
              /\ FindPointer(c, s, k, hash) = Ptr(t, b, m)
              /\ TableLookup(c, s, k, hash) = Link(t, m + 1)
              /\ IF m < Len(t) THEN t[m + 1] \in T /\ Match(c, t[m + 1], k, hash)
                 ELSE m = Len(t) /\ \A f \in T : ~ Match(c, f, k, hash)
  BY LookupIs
<1>a. PICK t : \E m \in 0 .. Len(t) :
              /\ b = Bucket(hash, length_(c, s)) /\ b \in Nat
              /\ IsChain(c, s, b, t) /\ ToSet(t) = {f \in T : InBucket(c, f, s, b)}
              /\ FindPointer(c, s, k, hash) = Ptr(t, b, m)
              /\ TableLookup(c, s, k, hash) = Link(t, m + 1)
              /\ IF m < Len(t) THEN t[m + 1] \in T /\ Match(c, t[m + 1], k, hash)
                 ELSE m = Len(t) /\ \A f \in T : ~ Match(c, f, k, hash)
  BY <1>1
<1>2. PICK m \in 0 .. Len(t) :
              /\ b = Bucket(hash, length_(c, s)) /\ b \in Nat
              /\ IsChain(c, s, b, t) /\ ToSet(t) = {f \in T : InBucket(c, f, s, b)}
              /\ FindPointer(c, s, k, hash) = Ptr(t, b, m)
              /\ TableLookup(c, s, k, hash) = Link(t, m + 1)
              /\ IF m < Len(t) THEN t[m + 1] \in T /\ Match(c, t[m + 1], k, hash)
                 ELSE m = Len(t) /\ \A f \in T : ~ Match(c, f, k, hash)
  BY <1>a
<1>3. t \in Seq(Entries) /\ Inj(t) /\ Len(t) \in Nat
  BY <1>2 DEF IsChain
<1> DEFINE ptr == Ptr(t, b, m)
<1>4. d = IF e = Nil THEN c ELSE Drop([Assign(c, s, ptr, c.next_hash[e]) EXCEPT !.elems_[s] = @ - 1], e)
  BY <1>2 DEF TableRemove, TableLookup
<1>5. CASE e = Nil
  <2>1. ~ (m < Len(t))
    BY <1>2, <1>3, <1>5, LinkFacts
  <2> QED
    BY <1>2, <1>4, <1>5, <2>1
<1>6. CASE e # Nil
  <2>1. m < Len(t) /\ m + 1 \in 1 .. Len(t) /\ m \in 0 .. Len(t) - 1 /\ m + 1 + 1 = m + 2 /\ m + 2 \in Nat
    BY <1>2, <1>3, <1>6, LinkFacts
  <2>2. e = t[m + 1] /\ e \in T /\ Match(c, e, k, hash) /\ e \in Entries
    BY <1>2, <1>3, <2>1, LinkFacts
  <2>3. c.next_hash[e] = Link(t, m + 2) /\ Link(t, m + 2) \in Entries \cup {Nil}
    BY <1>2, <1>3, <2>1, <2>2, LinkFacts DEF IsChain
  <2>4. /\ m = 0 => ptr = b /\ ptr \notin Entries
        /\ m # 0 => ptr \in Entries /\ ptr \in ToSet(t)
        /\ \A i \in 1 .. Len(t) : t[i] = ptr <=> i = m
    <3>1. StoredAt(ptr, t, b, m)
      BY <1>2, <1>3, PtrFacts
    <3> QED
      BY <3>1 DEF StoredAt
  <2> HIDE DEF ptr
  <2>5. ptr \in Entries \cup (0 .. length_(c, s) - 1)
    BY <1>1, <2>4
  <2> DEFINE d1 == Assign(c, s, ptr, c.next_hash[e])
             d2 == [d1 EXCEPT !.elems_[s] = @ - 1]
  <2>6. /\ d1 \in States
        /\ ptr \in Entries => d1.next_hash = [c.next_hash EXCEPT ![ptr] = Link(t, m + 2)]
        /\ ptr \notin Entries => d1.next_hash = c.next_hash
        /\ d1.elems_ = c.elems_
        /\ SameLists(c, d1) /\ SameData(c, d1) /\ SameCounts(c, d1)
    <3>1. Assigned(c, d1, s, ptr, Link(t, m + 2))
      BY <2>3, <2>5, AssignEffect
    <3> QED
      BY <3>1 DEF Assigned
  <2>7. /\ \A r \in Shards : length_(d1, r) = length_(c, r)
        /\ \A r \in Shards : \A a \in 0 .. length_(c, r) - 1 :
                 d1.list_[r][a] = IF r = s /\ a = ptr THEN Link(t, m + 2) ELSE c.list_[r][a]
    BY <2>3, <2>5, AssignLength
  <2>8. d = Drop(d2, e)
    BY <1>4, <1>6
  <2> HIDE DEF d1
  <2>9. d2 \in States /\ d2.elems_ = [d1.elems_ EXCEPT ![s] = d1.elems_[s] - 1] /\ d2.next_hash = d1.next_hash
        /\ d2.list_ = d1.list_ /\ SameLists(d1, d2) /\ SameData(d1, d2) /\ SameCounts(d1, d2)
    <3> DEFINE n == d1.elems_[s] - 1
    <3>1. n \in Int /\ d2 = [d1 EXCEPT !.elems_[s] = n]
      BY <2>6 DEF States
    <3> HIDE DEF n, d2
    <3>2. ElemsAssigned(d1, d2, s, n)
      BY <2>6, <3>1, ElemsEffect
    <3> QED
      BY <3>2 DEF n, ElemsAssigned
  <2> HIDE DEF d2
  <2>10. d \in States /\ d.elems_ = d2.elems_ /\ d.next_hash = [d2.next_hash EXCEPT ![e] = Nil]
        /\ d.list_ = d2.list_ /\ SameLists(d2, d) /\ SameData(d2, d) /\ SameCounts(d2, d)
    <3>1. d = [d2 EXCEPT !.next_hash[e] = Nil]
      BY <2>8 DEF Drop
    <3>2. NextHashAssigned(d2, d, e, Nil)
      BY <2>2, <2>9, <3>1, NextHashEffect
    <3> QED
      BY <3>2 DEF NextHashAssigned
  <2>11. d.elems_ = [c.elems_ EXCEPT ![s] = c.elems_[s] - 1] /\ d.list_ = d1.list_
         /\ SameLists(c, d) /\ SameData(c, d) /\ SameCounts(c, d) /\ d.hash = c.hash
    BY <2>6, <2>9, <2>10 DEF SameLists, SameData, SameCounts
  <2>12. \A r \in Shards : length_(d, r) = length_(c, r)
    BY <2>7, <2>11 DEF length_
  <2>13. \A x \in Entries : d.next_hash[x] = IF x = e THEN Nil ELSE IF x = ptr THEN Link(t, m + 2) ELSE c.next_hash[x]
    <3>1. c.next_hash \in [Entries -> Entries \cup {Nil}]
      BY DEF States
    <3> QED
      BY <2>2, <2>6, <2>9, <2>10, <3>1
  <2> DEFINE T2 == T \ {e}
             u == CutOut(t, m + 1)
  <2>14. IsChain(d, s, b, u)
    <3>1. ToSet(t) \subseteq Entries
      BY <1>2
    <3>2. \A x \in ToSet(t) : x # t[m + 1] =>
               d.next_hash[x] = IF x = ptr THEN Link(t, m + 2) ELSE c.next_hash[x]
      BY <2>2, <2>13, <3>1
    <3>3. d.list_[s][b] = IF b = ptr THEN Link(t, m + 2) ELSE c.list_[s][b]
      BY <1>1, <2>7, <2>11
    <3> QED
      BY ZenonT(60), <1>2, <2>1, <3>2, <3>3, ChainCut DEF ptr
  <2>15. ToSet(u) = {x \in T2 : InBucket(c, x, s, b)}
    <3>1. ToSet(u) = ToSet(t) \ {e}
      BY <1>3, <2>1, <2>2, CutOutFacts
    <3> QED
      BY <1>2, <3>1
  <2>16. InBucket(c, e, s, b)
    BY <1>2, <2>2 DEF InBucket, Match
  <2>17. \A r \in Shards : \A a \in 0 .. length_(c, r) - 1 : (r # s \/ a # b) => d.list_[r][a] = c.list_[r][a]
    <3>1. ASSUME NEW r \in Shards, NEW a \in 0 .. length_(c, r) - 1, r # s \/ a # b PROVE ~ (r = s /\ a = ptr)
      <4>1. a \in Nat /\ a \notin Entries
        <5>1. length_(c, r) \in Nat
          BY LengthIs
        <5> QED
          BY <5>1, TableAssumption
      <4> QED
        BY <2>4, <3>1, <4>1
    <3> QED
      BY <2>7, <2>11, <3>1
  <2>18. \A x \in T : ~ InBucket(c, x, s, b) => d.next_hash[x] = c.next_hash[x]
    <3>1. m # 0 => InBucket(c, ptr, s, b)
      BY <1>2, <2>4
    <3>2. ASSUME NEW x \in T, ~ InBucket(c, x, s, b) PROVE x # e /\ x # ptr
      BY <2>4, <2>16, <3>1, <3>2
    <3> QED
      BY <2>13, <3>2
  <2>19. \A x \in Entries : ~ InBucket(c, x, s, b) => (x \in T2 <=> x \in T)
    BY <2>16
  <2>21. OnlyBucket(c, d, s, b, T, T2)
    <3> HIDE DEF T2
    <3> QED
      BY <2>11, <2>12, <2>17, <2>18, <2>19 DEF OnlyBucket
  <2>20. InTables(d, T2)
    <3>1. T2 \in SUBSET Entries
      OBVIOUS
    <3> HIDE DEF T2, u
    <3> QED
      BY <1>1, <2>14, <2>15, <2>21, <3>1, OneChainChanges
  <2> QED
    BY <1>6, <2>2, <2>10, <2>11, <2>12, <2>20
<1> QED
  BY <1>5, <1>6

LEMMA ReplaceFacts ==
    ASSUME NEW t \in Seq(Entries), Inj(t), NEW i \in 1 .. Len(t), NEW e \in Entries, e \notin ToSet(t)
    PROVE  /\ [t EXCEPT ![i] = e] \in Seq(Entries) /\ Len([t EXCEPT ![i] = e]) = Len(t)
           /\ \A j \in 1 .. Len(t) : [t EXCEPT ![i] = e][j] = IF j = i THEN e ELSE t[j]
           /\ Inj([t EXCEPT ![i] = e])
           /\ ToSet([t EXCEPT ![i] = e]) = (ToSet(t) \ {t[i]}) \cup {e}
<1> DEFINE u == [t EXCEPT ![i] = e]
           n == Len(t)
<1>1. u \in Seq(Entries) /\ Len(u) = n /\ \A j \in 1 .. n : u[j] = IF j = i THEN e ELSE t[j]
  OBVIOUS
<1>2. \A j \in 1 .. n : t[j] # e
  BY ToSetIs
<1>3. Inj(u)
  BY <1>1, <1>2 DEF Inj
<1>4. ToSet(u) = {u[j] : j \in 1 .. n} /\ ToSet(t) = {t[j] : j \in 1 .. n} /\ n \in Nat
  BY <1>1, ToSetIs
<1>5. \A j \in 1 .. n : t[j] = t[i] => j = i
  BY DEF Inj
<1> HIDE DEF u, n
<1>6. ToSet(u) = (ToSet(t) \ {t[i]}) \cup {e}
  <2>1. \A j \in 1 .. n : u[j] \in (ToSet(t) \ {t[i]}) \cup {e}
    BY <1>1, <1>4, <1>5
  <2>2. \A j \in 1 .. n : t[j] # t[i] => t[j] = u[j]
    BY <1>1, <1>4
  <2>3. e = u[i] /\ i \in 1 .. n
    BY <1>1, <1>4 DEF n
  <2> QED
    BY <1>4, <2>1, <2>2, <2>3
<1> QED
  BY <1>1, <1>3, <1>6 DEF u, n

\* The pointer that is stored at ptr is h now, those of S and of the bucket b are what they were.
Rewired(c, d, s, b, S, ptr, h) ==
    /\ \A x \in S : d.next_hash[x] = IF x = ptr THEN h ELSE c.next_hash[x]
    /\ d.list_[s][b] = IF b = ptr THEN h ELSE c.list_[s][b]

\* The (m + 1)-st entry of a chain is replaced by h.
LEMMA ChainReplace ==
    ASSUME NEW c, NEW d, NEW s, NEW b \in Nat, NEW t, IsChain(c, s, b, t), NEW m \in 0 .. Len(t) - 1,
           NEW h \in Entries, h \notin ToSet(t), d.next_hash[h] = Link(t, m + 2),
           Rewired(c, d, s, b, ToSet(t) \ {t[m + 1]}, Ptr(t, b, m), h)
    PROVE  IsChain(d, s, b, [t EXCEPT ![m + 1] = h])
<1>00. /\ \A x \in ToSet(t) : x # t[m + 1] => d.next_hash[x] = IF x = Ptr(t, b, m) THEN h ELSE c.next_hash[x]
       /\ d.list_[s][b] = IF b = Ptr(t, b, m) THEN h ELSE c.list_[s][b]
  BY DEF Rewired
<1> DEFINE u == [t EXCEPT ![m + 1] = h]
           n == Len(t)
<1>0. t \in Seq(Entries) /\ Inj(t) /\ n \in Nat /\ m + 1 \in 1 .. n /\ m \in Nat /\ m \in 0 .. n
  BY DEF IsChain
<1>1. u \in Seq(Entries) /\ Inj(u) /\ Len(u) = n /\ \A j \in 1 .. n : u[j] = IF j = m + 1 THEN h ELSE t[j]
  BY <1>0, ReplaceFacts
<1> HIDE DEF u
<1>3. \A j \in 1 .. n + 1 : Link(u, j) = IF j = m + 1 THEN h ELSE Link(t, j)
  BY <1>0, <1>1 DEF Link
<1>4. /\ c.list_[s][b] = Link(t, 1) /\ \A i \in 1 .. n : c.next_hash[t[i]] = Link(t, i + 1)
  BY DEF IsChain
<1>5. /\ m = 0 => Ptr(t, b, m) = b
      /\ m # 0 => Ptr(t, b, m) \in Entries
      /\ \A i \in 1 .. n : t[i] = Ptr(t, b, m) <=> i = m
  <2>1. StoredAt(Ptr(t, b, m), t, b, m)
    BY <1>0, PtrFacts
  <2> QED
    BY <2>1 DEF StoredAt
<1>6. b \notin Entries
  BY TableAssumption
<1>7. \A i \in 1 .. n : t[i] \in ToSet(t) /\ (t[i] = t[m + 1] <=> i = m + 1)
  BY <1>0, ToSetIs DEF Inj
<1> HIDE DEF n
<1>8. d.list_[s][b] = Link(u, 1)
  <2>1. 1 \in 1 .. n + 1
    BY <1>0
  <2>2. CASE m = 0
    BY <1>00, <1>3, <1>5, <2>1, <2>2
  <2>3. CASE m # 0
    BY <1>00, <1>0, <1>3, <1>4, <1>5, <1>6, <2>1, <2>3
  <2> QED
    BY <2>2, <2>3
<1>9. ASSUME NEW j \in 1 .. n PROVE d.next_hash[u[j]] = Link(u, j + 1)
  <2>0. j + 1 \in 1 .. n + 1
    BY <1>0
  <2>1. CASE j = m + 1
    <3>1. u[j] = h /\ j + 1 = m + 2 /\ j + 1 # m + 1
      BY <1>0, <1>1, <2>1
    <3> QED
      BY <1>3, <2>0, <3>1
  <2>2. CASE j = m
    <3>1. u[j] = t[j] /\ j # m + 1 /\ j + 1 = m + 1
      BY <1>0, <1>1, <2>2
    <3>2. Link(u, j + 1) = h
      BY <1>3, <2>0, <3>1
    <3> QED
      BY <1>00, <1>5, <1>7, <2>2, <3>1, <3>2
  <2>3. CASE j # m /\ j # m + 1
    <3>1. u[j] = t[j] /\ j + 1 # m + 1
      BY <1>0, <1>1, <2>3
    <3>2. Link(u, j + 1) = Link(t, j + 1)
      BY <1>3, <2>0, <3>1
    <3> QED
      BY <1>00, <1>4, <1>5, <1>7, <2>3, <3>1, <3>2
  <2> QED
    BY <1>0, <2>1, <2>2, <2>3
<1> QED
  BY <1>1, <1>8, <1>9 DEF IsChain, u

\* h is linked to the end of a chain.
LEMMA ChainAppend ==
    ASSUME NEW c, NEW d, NEW s, NEW b \in Nat, NEW t, IsChain(c, s, b, t),
           NEW h \in Entries, h \notin ToSet(t), d.next_hash[h] = Nil,
           Rewired(c, d, s, b, ToSet(t), Ptr(t, b, Len(t)), h)
    PROVE  IsChain(d, s, b, Append(t, h))
<1>00. /\ \A x \in ToSet(t) : d.next_hash[x] = IF x = Ptr(t, b, Len(t)) THEN h ELSE c.next_hash[x]
       /\ d.list_[s][b] = IF b = Ptr(t, b, Len(t)) THEN h ELSE c.list_[s][b]
  BY DEF Rewired
<1> DEFINE u == Append(t, h)
           n == Len(t)
<1>0. t \in Seq(Entries) /\ Inj(t) /\ n \in Nat /\ n \in 0 .. n
  BY DEF IsChain
<1>1. u \in Seq(Entries) /\ Inj(u) /\ Len(u) = n + 1 /\ \A j \in 1 .. n + 1 : u[j] = IF j = n + 1 THEN h ELSE t[j]
  BY <1>0, AppendFacts
<1> HIDE DEF u
<1>3. Link(u, n + 2) = Nil /\ \A j \in 1 .. n + 1 : Link(u, j) = IF j = n + 1 THEN h ELSE Link(t, j)
  BY <1>0, <1>1 DEF Link
<1>4. /\ c.list_[s][b] = Link(t, 1) /\ \A i \in 1 .. n : c.next_hash[t[i]] = Link(t, i + 1)
  BY DEF IsChain
<1>5. /\ n = 0 => Ptr(t, b, n) = b
      /\ n # 0 => Ptr(t, b, n) \in Entries
      /\ \A i \in 1 .. n : t[i] = Ptr(t, b, n) <=> i = n
  <2>1. StoredAt(Ptr(t, b, n), t, b, n)
    BY <1>0, PtrFacts
  <2> QED
    BY <2>1 DEF StoredAt
<1>6. b \notin Entries
  BY TableAssumption
<1>7. /\ \A i \in 1 .. n : t[i] \in ToSet(t)
      /\ \A x \in ToSet(t) : d.next_hash[x] = IF x = Ptr(t, b, n) THEN h ELSE c.next_hash[x]
      /\ d.list_[s][b] = IF b = Ptr(t, b, n) THEN h ELSE c.list_[s][b]
  BY <1>00, <1>0, ToSetIs
<1> HIDE DEF n
<1>8. d.list_[s][b] = Link(u, 1)
  <2>1. 1 \in 1 .. n + 1
    BY <1>0
  <2>2. CASE n = 0
    BY <1>3, <1>5, <1>7, <2>1, <2>2
  <2>3. CASE n # 0
    BY <1>0, <1>3, <1>4, <1>5, <1>6, <1>7, <2>1, <2>3
  <2> QED
    BY <2>2, <2>3
<1>9. ASSUME NEW j \in 1 .. n + 1 PROVE d.next_hash[u[j]] = Link(u, j + 1)
  <2>1. CASE j = n + 1
    <3>1. u[j] = h /\ j + 1 = n + 2
      BY <1>0, <1>1, <2>1
    <3> QED
      BY <1>3, <3>1
  <2>2. CASE j # n + 1
    <3>1. u[j] = t[j] /\ j + 1 \in 1 .. n + 1 /\ j \in 1 .. n
      BY <1>0, <1>1, <2>2
    <3>2. Link(u, j + 1) = IF j = n THEN h ELSE Link(t, j + 1)
      BY <1>0, <1>3, <3>1
    <3> QED
      BY <1>4, <1>5, <1>7, <3>1, <3>2
  <2> QED
    BY <2>1, <2>2
<1> QED
  BY <1>1, <1>8, <1>9 DEF IsChain, u

\* The table after HandleTable::Insert has stored h, before elems_ is counted.
Storing(c, s, h, old) ==
    Assign([c EXCEPT !.next_hash[h] = IF old = Nil THEN Nil ELSE c.next_hash[old]],
           s, FindPointer(c, s, c.key[h], c.hash[h]), h)

\* d differs from c in the tables at most, which hold T and have kept their lengths.
NowHolds(c, d, T) ==
    /\ d \in States /\ InTables(d, T) /\ d.elems_ = c.elems_
    /\ \A r \in Shards : length_(d, r) = length_(c, r)
    /\ SameLists(c, d) /\ SameData(c, d) /\ SameCounts(c, d)

Stored(c, d, T, h, old) ==
    /\ old = Nil => NowHolds(c, d, T \cup {h}) /\ \A f \in T : ~ Match(c, f, c.key[h], c.hash[h])
    /\ old # Nil => /\ old \in T /\ Match(c, old, c.key[h], c.hash[h])
                    /\ NowHolds(c, Drop(d, old), (T \ {old}) \cup {h})

LEMMA StoringIs ==
    ASSUME NEW c \in States, NEW T \in SUBSET Entries, InTables(c, T), NEW s \in Shards,
           NEW h \in Entries, h \notin T, Shard(c.hash[h]) = s,
           NEW old, old = TableLookup(c, s, c.key[h], c.hash[h]), NEW d, d = Storing(c, s, h, old)
    PROVE  Stored(c, d, T, h, old)
<1> SUFFICES /\ old = Nil => NowHolds(c, d, T \cup {h}) /\ \A f \in T : ~ Match(c, f, c.key[h], c.hash[h])
             /\ old # Nil => /\ old \in T /\ Match(c, old, c.key[h], c.hash[h])
                             /\ NowHolds(c, Drop(d, old), (T \ {old}) \cup {h})
  BY DEF Stored
<1> DEFINE k == c.key[h]
           hash == c.hash[h]
<1>0. hash \in Nat
  BY DEF States
<1> HIDE DEF k, hash
<1>1. PICK b \in 0 .. length_(c, s) - 1 : \E t : \E m \in 0 .. Len(t) :
              /\ b = Bucket(hash, length_(c, s)) /\ b \in Nat
              /\ IsChain(c, s, b, t) /\ ToSet(t) = {f \in T : InBucket(c, f, s, b)}
              /\ FindPointer(c, s, k, hash) = Ptr(t, b, m)
              /\ TableLookup(c, s, k, hash) = Link(t, m + 1)
              /\ IF m < Len(t) THEN t[m + 1] \in T /\ Match(c, t[m + 1], k, hash)
                 ELSE m = Len(t) /\ \A f \in T : ~ Match(c, f, k, hash)
  BY <1>0, LookupIs DEF hash
<1>a. PICK t : \E m \in 0 .. Len(t) :
              /\ b = Bucket(hash, length_(c, s)) /\ b \in Nat
              /\ IsChain(c, s, b, t) /\ ToSet(t) = {f \in T : InBucket(c, f, s, b)}
              /\ FindPointer(c, s, k, hash) = Ptr(t, b, m)
              /\ TableLookup(c, s, k, hash) = Link(t, m + 1)
              /\ IF m < Len(t) THEN t[m + 1] \in T /\ Match(c, t[m + 1], k, hash)
                 ELSE m = Len(t) /\ \A f \in T : ~ Match(c, f, k, hash)
  BY <1>1
<1>2. PICK m \in 0 .. Len(t) :
              /\ b = Bucket(hash, length_(c, s)) /\ b \in Nat
              /\ IsChain(c, s, b, t) /\ ToSet(t) = {f \in T : InBucket(c, f, s, b)}
              /\ FindPointer(c, s, k, hash) = Ptr(t, b, m)
              /\ TableLookup(c, s, k, hash) = Link(t, m + 1)
              /\ IF m < Len(t) THEN t[m + 1] \in T /\ Match(c, t[m + 1], k, hash)
                 ELSE m = Len(t) /\ \A f \in T : ~ Match(c, f, k, hash)
  BY <1>a
<1>3. t \in Seq(Entries) /\ Inj(t) /\ Len(t) \in Nat /\ h \notin ToSet(t)
  BY <1>2 DEF IsChain
<1> DEFINE ptr == Ptr(t, b, m)
           nh == IF old = Nil THEN Nil ELSE c.next_hash[old]
           d0 == [c EXCEPT !.next_hash[h] = nh]
<1>4. old = Link(t, m + 1) /\ d = Assign(d0, s, ptr, h)
  BY <1>2 DEF Storing, k, hash
<1>5. /\ m = 0 => ptr = b /\ ptr \notin Entries
      /\ m # 0 => ptr \in Entries /\ ptr \in ToSet(t)
      /\ \A i \in 1 .. Len(t) : t[i] = ptr <=> i = m
  <2>1. StoredAt(ptr, t, b, m)
    BY <1>2, <1>3, PtrFacts
  <2> QED
    BY <2>1 DEF StoredAt
<1>6. InBucket(c, h, s, b)
  BY <1>2 DEF InBucket, hash
<1> HIDE DEF ptr
<1>7. m + 1 \in Nat /\ m + 2 \in Nat /\ m + 1 + 1 = m + 2
  BY <1>3
<1>8. old # Nil => m < Len(t) /\ m + 1 \in 1 .. Len(t) /\ m \in 0 .. Len(t) - 1 /\ old = t[m + 1] /\ old \in Entries
  BY <1>3, <1>4, <1>7, LinkFacts
<1>9. old = Nil => ~ (m < Len(t)) /\ m = Len(t)
  <2>1. m < Len(t) => m + 1 \in 1 .. Len(t)
    BY <1>3
  <2> QED
    BY <1>2, <1>3, <1>4, <1>7, <2>1, LinkFacts
<1>10. nh \in Entries \cup {Nil} /\ (old = Nil => nh = Nil) /\ (old # Nil => nh = Link(t, m + 2))
  <2>1. old # Nil => c.next_hash[old] = Link(t, m + 2)
    BY <1>2, <1>7, <1>8 DEF IsChain
  <2>2. Link(t, m + 2) \in Entries \cup {Nil}
    BY <1>3, <1>7, LinkFacts
  <2> QED
    BY <2>1, <2>2
<1> HIDE DEF nh
<1>11. NextHashAssigned(c, d0, h, nh)
  <2> HIDE DEF d0
  <2>1. d0 = [c EXCEPT !.next_hash[h] = nh]
    BY DEF d0
  <2> QED
    BY <1>10, <2>1, NextHashEffect
<1> HIDE DEF d0
<1>12. /\ d0 \in States /\ d0.next_hash = [c.next_hash EXCEPT ![h] = nh]
       /\ d0.list_ = c.list_ /\ d0.elems_ = c.elems_
       /\ SameLists(c, d0) /\ SameData(c, d0) /\ SameCounts(c, d0)
  BY <1>11 DEF NextHashAssigned
<1>13. \A r \in Shards : length_(d0, r) = length_(c, r)
  BY <1>12 DEF length_
<1>14. ptr \in Entries \cup (0 .. length_(d0, s) - 1)
  BY <1>1, <1>5, <1>13
<1>15. Assigned(d0, d, s, ptr, h)
  BY <1>4, <1>12, <1>14, AssignEffect
<1>16. /\ \A r \in Shards : length_(d, r) = length_(c, r)
       /\ \A r \in Shards : \A a \in 0 .. length_(c, r) - 1 :
                 d.list_[r][a] = IF r = s /\ a = ptr THEN h ELSE c.list_[r][a]
  <2>1. /\ \A r \in Shards : length_(d, r) = length_(d0, r)
        /\ \A r \in Shards : \A a \in 0 .. length_(d0, r) - 1 :
                 d.list_[r][a] = IF r = s /\ a = ptr THEN h ELSE d0.list_[r][a]
    BY <1>4, <1>12, <1>14, AssignLength
  <2> QED
    BY <1>12, <1>13, <2>1
<1>17. \A x \in Entries : d.next_hash[x] = IF x = ptr THEN h ELSE IF x = h THEN nh ELSE c.next_hash[x]
  <2>1. c.next_hash \in [Entries -> Entries \cup {Nil}]
    BY DEF States
  <2>2. \A x \in Entries : d0.next_hash[x] = IF x = h THEN nh ELSE c.next_hash[x]
    BY <1>12, <2>1
  <2>3. d0.next_hash \in [Entries -> Entries \cup {Nil}]
    BY <1>12 DEF States
  <2>4. /\ ptr \in Entries => d.next_hash = [d0.next_hash EXCEPT ![ptr] = h]
        /\ ptr \notin Entries => d.next_hash = d0.next_hash
    BY <1>15 DEF Assigned
  <2>5. \A x \in Entries : d.next_hash[x] = IF x = ptr THEN h ELSE d0.next_hash[x]
    BY <2>3, <2>4
  <2> QED
    BY <2>2, <2>5
<1>18. d \in States /\ d.elems_ = c.elems_ /\ SameLists(c, d) /\ SameData(c, d) /\ SameCounts(c, d)
  BY <1>12, <1>15, SameTrans DEF Assigned
<1>19. \A r \in Shards : \A a \in 0 .. length_(c, r) - 1 : (r # s \/ a # b) => d.list_[r][a] = c.list_[r][a]
  <2>1. ASSUME NEW r \in Shards, NEW a \in 0 .. length_(c, r) - 1, r # s \/ a # b PROVE ~ (r = s /\ a = ptr)
    <3>1. a \in Nat /\ a \notin Entries
      <4>1. length_(c, r) \in Nat
        BY LengthIs
      <4> QED
        BY <4>1, TableAssumption
    <3> QED
      BY <1>5, <2>1, <3>1
  <2> QED
    BY <1>16, <2>1
<1>20. ptr # h /\ (ptr \in Entries => InBucket(c, ptr, s, b)) /\ ToSet(t) \subseteq Entries
  <2>1. ptr \in Entries => ptr \in ToSet(t)
    BY <1>5
  <2>2. b \notin Entries
    BY <1>2, TableAssumption
  <2> QED
    BY <1>2, <1>3, <1>5, <2>1, <2>2
<1>21. d.next_hash[h] = nh /\ d.list_[s][b] = IF b = ptr THEN h ELSE c.list_[s][b]
  BY <1>1, <1>16, <1>17, <1>20
<1>22. CASE old = Nil
  <2> DEFINE u == Append(t, h)
             T2 == T \cup {h}
  <2>1. m = Len(t) /\ \A f \in T : ~ Match(c, f, k, hash)
    BY <1>2, <1>9, <1>22
  <2>2. IsChain(d, s, b, u)
    <3>1. \A x \in ToSet(t) : d.next_hash[x] = IF x = ptr THEN h ELSE c.next_hash[x]
      BY <1>3, <1>17, <1>20
    <3>2. ptr = Ptr(t, b, Len(t)) /\ d.next_hash[h] = Nil
      BY <1>10, <1>21, <1>22, <2>1 DEF ptr
    <3>3. Rewired(c, d, s, b, ToSet(t), Ptr(t, b, Len(t)), h)
      <4>1. Rewired(c, d, s, b, ToSet(t), ptr, h)
        BY <1>21, <3>1 DEF Rewired
      <4> QED
        BY <3>2, <4>1
    <3> QED
      BY <1>2, <1>3, <3>2, <3>3, ChainAppend
  <2>3. ToSet(u) = {x \in T2 : InBucket(c, x, s, b)}
    <3>1. ToSet(u) = ToSet(t) \cup {h}
      BY <1>3, AppendFacts
    <3> QED
      BY <1>2, <1>6, <3>1
  <2>4. OnlyBucket(c, d, s, b, T, T2)
    <3>1. \A x \in T : ~ InBucket(c, x, s, b) => d.next_hash[x] = c.next_hash[x]
      BY <1>17, <1>20
    <3>2. \A x \in Entries : ~ InBucket(c, x, s, b) => (x \in T2 <=> x \in T)
      BY <1>6
    <3>3. \A x \in Entries : d.hash[x] = c.hash[x]
      BY <1>18 DEF SameData
    <3> HIDE DEF T2
    <3> QED
      BY <1>16, <1>19, <3>1, <3>2, <3>3 DEF OnlyBucket
  <2>5. T2 \in SUBSET Entries
    OBVIOUS
  <2> HIDE DEF T2, u
  <2>6. InTables(d, T2)
    BY <1>1, <2>2, <2>3, <2>4, <2>5, OneChainChanges
  <2>7. NowHolds(c, d, T2)
    BY <1>16, <1>18, <2>6 DEF NowHolds
  <2> QED
    BY <1>22, <2>1, <2>7 DEF T2, k, hash
<1>23. CASE old # Nil
  <2> DEFINE u == [t EXCEPT ![m + 1] = h]
             T2 == (T \ {old}) \cup {h}
             d2 == Drop(d, old)
  <2>1. m < Len(t) /\ m + 1 \in 1 .. Len(t) /\ m \in 0 .. Len(t) - 1 /\ old = t[m + 1] /\ old \in Entries
        /\ old \in T /\ Match(c, old, k, hash)
    BY <1>2, <1>8, <1>23
  <2>2. NextHashAssigned(d, d2, old, Nil)
    <3>1. d2 = [d EXCEPT !.next_hash[old] = Nil]
      BY DEF Drop
    <3> HIDE DEF d2
    <3> QED
      BY <1>18, <2>1, <3>1, NextHashEffect
  <2> HIDE DEF d2
  <2>3. d2 \in States /\ d2.elems_ = c.elems_ /\ SameLists(c, d2) /\ SameData(c, d2) /\ SameCounts(c, d2)
        /\ d2.list_ = d.list_ /\ d2.next_hash = [d.next_hash EXCEPT ![old] = Nil]
    BY <1>18, <2>2, SameTrans DEF NextHashAssigned
  <2>4. old # h /\ old # ptr /\ InBucket(c, old, s, b)
    <3>1. old \in ToSet(t)
      BY <1>3, <2>1, ToSetIs
    <3>2. m + 1 # m
      BY <1>3
    <3> QED
      BY <1>2, <1>3, <1>5, <2>1, <3>1, <3>2
  <2>5. \A x \in Entries : x # old => d2.next_hash[x] = d.next_hash[x]
    <3>1. d.next_hash \in [Entries -> Entries \cup {Nil}]
      BY <1>18 DEF States
    <3> QED
      BY <2>3, <3>1
  <2>6. IsChain(d2, s, b, u)
    <3>1. \A x \in ToSet(t) : x # t[m + 1] => d2.next_hash[x] = IF x = ptr THEN h ELSE c.next_hash[x]
      BY <1>3, <1>17, <1>20, <2>1, <2>5
    <3>2. d2.next_hash[h] = Link(t, m + 2)
      BY <1>10, <1>21, <1>23, <2>4, <2>5
    <3>3. d2.list_[s][b] = IF b = ptr THEN h ELSE c.list_[s][b]
      BY <1>21, <2>3
    <3>4. Rewired(c, d2, s, b, ToSet(t) \ {t[m + 1]}, Ptr(t, b, m), h)
      <4>1. Rewired(c, d2, s, b, ToSet(t) \ {t[m + 1]}, ptr, h)
        BY <3>1, <3>3 DEF Rewired
      <4> QED
        BY <4>1 DEF ptr
    <3> QED
      BY <1>2, <1>3, <2>1, <3>2, <3>4, ChainReplace
  <2>7. ToSet(u) = {x \in T2 : InBucket(c, x, s, b)}
    <3>1. ToSet(u) = (ToSet(t) \ {old}) \cup {h}
      BY <1>3, <2>1, ReplaceFacts
    <3> QED
      BY <1>2, <1>6, <3>1
  <2>8. \A r \in Shards : length_(d2, r) = length_(c, r)
    BY <1>16, <2>3 DEF length_
  <2>9. OnlyBucket(c, d2, s, b, T, T2)
    <3>1. \A x \in T : ~ InBucket(c, x, s, b) => d2.next_hash[x] = c.next_hash[x]
      BY <1>17, <1>20, <2>4, <2>5
    <3>2. \A x \in Entries : ~ InBucket(c, x, s, b) => (x \in T2 <=> x \in T)
      BY <1>6, <2>4
    <3>3. \A x \in Entries : d2.hash[x] = c.hash[x]
      BY <2>3 DEF SameData
    <3> HIDE DEF T2
    <3> QED
      BY <1>19, <2>3, <2>8, <3>1, <3>2, <3>3 DEF OnlyBucket
  <2>10. T2 \in SUBSET Entries
    OBVIOUS
  <2> HIDE DEF T2, u
  <2>11. InTables(d2, T2)
    BY <1>1, <2>6, <2>7, <2>9, <2>10, OneChainChanges
  <2>12. NowHolds(c, d2, T2)
    BY <2>3, <2>8, <2>11 DEF NowHolds
  <2> QED
    BY <1>23, <2>1, <2>12 DEF T2, k, hash, d2
<1> QED
  BY <1>22, <1>23

(***************************************************************************)
(* Resize of HandleTable.                                                  *)
(***************************************************************************)
LEMMA ConcatFacts ==
    ASSUME NEW t \in Seq(Entries), Inj(t), NEW u \in Seq(Entries), Inj(u), ToSet(t) \cap ToSet(u) = {}
    PROVE  t \o u \in Seq(Entries) /\ Inj(t \o u) /\ ToSet(t \o u) = ToSet(t) \cup ToSet(u)
<1> DEFINE v == t \o u
           m == Len(t)
           n == Len(u)
<1>1. /\ v \in Seq(Entries) /\ Len(v) = m + n /\ m \in Nat /\ n \in Nat
      /\ \A j \in 1 .. m + n : v[j] = IF j <= m THEN t[j] ELSE u[j - m]
  OBVIOUS
<1>2. /\ ToSet(t) = {t[j] : j \in 1 .. m} /\ ToSet(u) = {u[j] : j \in 1 .. n}
      /\ ToSet(v) = {v[j] : j \in 1 .. m + n}
  BY <1>1, ToSetIs
<1>3. /\ \A i, j \in 1 .. m : t[i] = t[j] => i = j
      /\ \A i, j \in 1 .. n : u[i] = u[j] => i = j
      /\ \A i \in 1 .. m, j \in 1 .. n : t[i] # u[j]
  BY <1>2 DEF Inj
<1> HIDE DEF m, n, v
<1>4. \A j \in 1 .. m + n : (j <= m => j \in 1 .. m) /\ (~ (j <= m) => j - m \in 1 .. n)
  BY <1>1
<1>5. ASSUME NEW i \in 1 .. m + n, NEW j \in 1 .. m + n, v[i] = v[j] PROVE i = j
  <2>1. CASE i <= m /\ j <= m
    BY <1>1, <1>3, <1>4, <1>5, <2>1
  <2>2. CASE ~ (i <= m) /\ ~ (j <= m)
    <3>1. i - m = j - m
      BY <1>1, <1>3, <1>4, <1>5, <2>2
    <3> QED
      BY <1>1, <3>1
  <2>3. CASE i <= m /\ ~ (j <= m)
    BY <1>1, <1>3, <1>4, <1>5, <2>3
  <2>4. CASE ~ (i <= m) /\ j <= m
    BY <1>1, <1>3, <1>4, <1>5, <2>4
  <2> QED
    BY <2>1, <2>2, <2>3, <2>4
<1>6. ToSet(v) = ToSet(t) \cup ToSet(u)
  <2>1. \A j \in 1 .. m + n : v[j] \in ToSet(t) \cup ToSet(u)
    BY <1>1, <1>2, <1>4
  <2>2. \A j \in 1 .. m : j \in 1 .. m + n /\ v[j] = t[j]
    BY <1>1
  <2>3. \A j \in 1 .. n : j + m \in 1 .. m + n /\ v[j + m] = u[j]
    <3>1. \A j \in 1 .. n : j + m \in 1 .. m + n /\ ~ (j + m <= m) /\ j + m - m = j
      BY <1>1
    <3> QED
      BY <1>1, <3>1
  <2> QED
    BY SMTT(30), <1>2, <2>1, <2>2, <2>3
<1> QED
  BY <1>1, <1>5, <1>6 DEF Inj, v

\* The function a loop over 1 .. N defines that starts with c.
IsLoop(f, N, V, c, G) ==
    f \in [0 .. N -> V] /\ f = [n \in 0 .. N |-> IF n = 0 THEN c ELSE G[n][f[n - 1]]]

LEMMA LoopExists ==
    ASSUME NEW N \in Nat, NEW V, NEW c \in V, NEW G \in [1 .. N -> [V -> V]]
    PROVE  \E f : IsLoop(f, N, V, c, G)
<1>1. PICK f : Follows(f, N, V, c, G)
  BY Recursion
<1>2. f \in [0 .. N -> V] /\ f[0] = c /\ \A n \in 1 .. N : f[n] = G[n][f[n - 1]]
  BY <1>1 DEF Follows
<1>3. \A n \in 0 .. N : n # 0 => n \in 1 .. N
  OBVIOUS
<1>4. f = [n \in 0 .. N |-> f[n]]
  BY <1>2
<1>5. f = [n \in 0 .. N |-> IF n = 0 THEN c ELSE G[n][f[n - 1]]]
  BY <1>2, <1>3, <1>4
<1>6. IsLoop(f, N, V, c, G)
  BY <1>2, <1>5 DEF IsLoop
<1> QED
  BY <1>6

IsFlatten(w, q) == w = [i \in 1 .. Len(q) |-> IF i = 1 THEN q[i] ELSE w[i - 1] \o q[i]]

\* The sequences of q hold different entries, each of them once.
Apart(q, N) ==
    /\ q \in [1 .. N -> Seq(Entries)]
    /\ \A i \in 1 .. N : Inj(q[i])
    /\ \A i, j \in 1 .. N : i # j => ToSet(q[i]) \cap ToSet(q[j]) = {}

LEMMA FlattenIs ==
    ASSUME NEW N \in Nat \ {0}, NEW q, Apart(q, N)
    PROVE  /\ FlattenSeq(q) \in Seq(Entries) /\ Inj(FlattenSeq(q))
           /\ ToSet(FlattenSeq(q)) = UNION {ToSet(q[i]) : i \in 1 .. N}
<1>0. /\ q \in [1 .. N -> Seq(Entries)] /\ \A i \in 1 .. N : Inj(q[i])
      /\ \A i, j \in 1 .. N : i # j => ToSet(q[i]) \cap ToSet(q[j]) = {}
  BY DEF Apart
<1>1. Len(q) = N /\ N # 0
  BY <1>0
<1> DEFINE V == Seq(Entries)
           G == [n \in 1 .. N |-> [v \in V |-> v \o q[n]]]
<1>2. FlattenSeq(q) = (CHOOSE w : IsFlatten(w, q))[N]
  BY <1>1 DEF FlattenSeq, IsFlatten
<1>3. <<>> \in V /\ \A v \in V, n \in 1 .. N : v \o q[n] \in V
  BY <1>0
<1>4. G \in [1 .. N -> [V -> V]]
  BY <1>3
<1>5. \A v \in V, n \in 1 .. N : G[n][v] = v \o q[n]
  OBVIOUS
<1> HIDE DEF G, V
<1>61. PICK f : IsLoop(f, N, V, <<>>, G)
  BY <1>3, <1>4, LoopExists
<1>6. f \in [0 .. N -> V] /\ f = [n \in 0 .. N |-> IF n = 0 THEN <<>> ELSE G[n][f[n - 1]]]
  BY <1>61 DEF IsLoop
<1>7. f[0] = <<>> /\ \A n \in 1 .. N : n - 1 \in 0 .. N /\ f[n - 1] \in V /\ f[n] = f[n - 1] \o q[n]
  <2>1. \A n \in 1 .. N : n \in 0 .. N /\ n # 0 /\ n - 1 \in 0 .. N
    OBVIOUS
  <2>2. 0 \in 0 .. N
    OBVIOUS
  <2> QED
    BY <1>5, <1>6, <2>1, <2>2
<1>8. f[1] = q[1] /\ q[1] \in V
  <2>1. 1 \in 1 .. N /\ 1 - 1 = 0
    OBVIOUS
  <2>2. f[1] = <<>> \o q[1] /\ q[1] \in V
    BY <1>0, <1>7, <2>1 DEF V
  <2> QED
    BY <2>2 DEF V
<1> DEFINE g == [i \in 1 .. N |-> f[i]]
<1>9. IsFlatten(g, q)
  <2>1. \A i \in 1 .. N : i # 1 => i - 1 \in 1 .. N
    OBVIOUS
  <2>2. \A i \in 1 .. N : g[i] = f[i]
    OBVIOUS
  <2>3. g = [i \in 1 .. N |-> g[i]]
    OBVIOUS
  <2> HIDE DEF g
  <2>4. \A i \in 1 .. N : g[i] = IF i = 1 THEN q[i] ELSE g[i - 1] \o q[i]
    BY <1>7, <1>8, <2>1, <2>2
  <2> QED
    BY <1>1, <2>3, <2>4 DEF IsFlatten
<1> DEFINE w == CHOOSE w : IsFlatten(w, q)
<1>10. IsFlatten(w, q)
  BY <1>9
<1> HIDE DEF w, g
<1>11. w = [i \in 1 .. N |-> IF i = 1 THEN q[i] ELSE w[i - 1] \o q[i]]
  BY <1>1, <1>10 DEF IsFlatten
<1>12. w[N] = f[N]
  <2> DEFINE S == {n \in 0 .. N : n = 0 \/ w[n] = f[n]}
  <2>1. 0 \in S
    OBVIOUS
  <2>2. ASSUME NEW n \in 1 .. N, n - 1 \in S PROVE n \in S
    <3>1. n = 1 => w[n] = f[n]
      BY <1>8, <1>11
    <3>2. n # 1 => n - 1 # 0 /\ n - 1 \in 1 .. N
      OBVIOUS
    <3>3. n # 1 => w[n] = w[n - 1] \o q[n]
      BY <1>11
    <3>4. n # 1 => w[n - 1] = f[n - 1]
      BY <2>2, <3>2
    <3>5. w[n] = f[n]
      BY <1>7, <3>1, <3>3, <3>4
    <3> QED
      BY <3>5
  <2> HIDE DEF S
  <2>3. N \in S
    BY <2>1, <2>2, StepByStep
  <2> QED
    BY <2>3 DEF S
<1> DEFINE U(n) == UNION {ToSet(q[i]) : i \in 1 .. n}
           S == {n \in 0 .. N : Inj(f[n]) /\ ToSet(f[n]) = U(n)}
<1>13. 0 \in S
  <2>1. Inj(f[0])
    BY <1>7 DEF Inj
  <2>2. ToSet(f[0]) = {}
    BY <1>7 DEF ToSet
  <2>3. U(0) = {}
    OBVIOUS
  <2> QED
    BY <2>1, <2>2, <2>3
<1>14. ASSUME NEW n \in 1 .. N, n - 1 \in S PROVE n \in S
  <2>1. Inj(f[n - 1]) /\ ToSet(f[n - 1]) = U(n - 1)
    BY <1>14
  <2>2. U(n) = U(n - 1) \cup ToSet(q[n])
    <3>1. \A i \in 1 .. n : i \in 1 .. n - 1 \/ i = n
      OBVIOUS
    <3>2. n \in 1 .. n /\ \A i \in 1 .. n - 1 : i \in 1 .. n
      OBVIOUS
    <3> QED
      BY <3>1, <3>2
  <2>3. ToSet(f[n - 1]) \cap ToSet(q[n]) = {}
    <3>1. \A i \in 1 .. n - 1 : i \in 1 .. N /\ i # n
      OBVIOUS
    <3>2. \A i \in 1 .. n - 1 : ToSet(q[i]) \cap ToSet(q[n]) = {}
      BY <1>0, <3>1
    <3> QED
      BY <2>1, <3>2
  <2> HIDE DEF U
  <2>4. Inj(f[n]) /\ ToSet(f[n]) = ToSet(f[n - 1]) \cup ToSet(q[n])
    <3>1. f[n - 1] \in Seq(Entries) /\ q[n] \in Seq(Entries) /\ Inj(q[n]) /\ f[n] = f[n - 1] \o q[n]
      BY <1>0, <1>7 DEF V
    <3>2. /\ Inj(f[n - 1] \o q[n])
          /\ ToSet(f[n - 1] \o q[n]) = ToSet(f[n - 1]) \cup ToSet(q[n])
      <4> HIDE DEF S
      <4> QED
        BY <2>1, <2>3, <3>1, ConcatFacts
    <3> QED
      BY <3>1, <3>2
  <2>5. n \in 0 .. N /\ ToSet(f[n]) = U(n)
    BY <2>1, <2>2, <2>4
  <2> QED
    BY <2>4, <2>5
<1> HIDE DEF S, U
<1>15. N \in S
  BY <1>13, <1>14, StepByStep
<1>16. f[N] \in Seq(Entries) /\ Inj(f[N]) /\ ToSet(f[N]) = U(N)
  BY <1>6, <1>15 DEF V, S
<1> QED
  BY <1>2, <1>12, <1>16 DEF w, U

\* d is c after h has become the head of the chain of bucket b.
Headed(c, d, s, b, h) ==
    /\ d \in States
    /\ d.next_hash = [c.next_hash EXCEPT ![h] = c.list_[s][b]]
    /\ d.list_ = [c.list_ EXCEPT ![s] = [c.list_[s] EXCEPT ![b] = h]]
    /\ d.elems_ = c.elems_
    /\ SameLists(c, d) /\ SameData(c, d) /\ SameCounts(c, d)

LEMMA HeadedEffect ==
    ASSUME NEW c \in States, NEW s \in Shards, NEW b \in 0 .. length_(c, s) - 1, NEW h \in Entries,
           NEW d, d = [c EXCEPT !.next_hash[h] = c.list_[s][b], !.list_[s][b] = h]
    PROVE  Headed(c, d, s, b, h)
<1> DEFINE x == c.list_[s][b]
           l == [c.list_ EXCEPT ![s] = [c.list_[s] EXCEPT ![b] = h]]
           nh == [c.next_hash EXCEPT ![h] = x]
<1>1. length_(c, s) \in Nat \ {0} /\ c.list_[s] \in [0 .. length_(c, s) - 1 -> Entries \cup {Nil}]
  BY LengthIs
<1>2. x \in Entries \cup {Nil}
  BY <1>1
<1>3. l \in [Shards -> Tables]
  <2>1. [c.list_[s] EXCEPT ![b] = h] \in [0 .. length_(c, s) - 1 -> Entries \cup {Nil}]
    BY <1>1
  <2>2. [c.list_[s] EXCEPT ![b] = h] \in Tables
    BY <1>1, <2>1 DEF Tables
  <2>3. c.list_ \in [Shards -> Tables]
    BY DEF States
  <2> QED
    BY <2>2, <2>3
<1>4. d = [c EXCEPT !.next_hash = nh, !.list_ = l]
  OBVIOUS
<1>41. nh \in [Entries -> Entries \cup {Nil}]
  BY <1>2 DEF States
<1> HIDE DEF x, l, nh
<1>5. d \in States
  BY <1>3, <1>4, <1>41 DEF States
<1>6. d.next_hash = nh /\ d.list_ = l
  BY <1>4 DEF States
<1>7. d.elems_ = c.elems_ /\ SameLists(c, d) /\ SameData(c, d) /\ SameCounts(c, d)
  BY <1>4 DEF States, SameLists, SameData, SameCounts
<1> QED
  BY <1>5, <1>6, <1>7 DEF Headed, x, l, nh

NewHead(c, d, s, b, t, h) ==
    /\ d.next_hash[h] = c.list_[s][b] /\ d.list_[s][b] = h
    /\ \A x \in ToSet(t) : d.next_hash[x] = c.next_hash[x]

LEMMA ChainPrepend ==
    ASSUME NEW c, NEW d, NEW s, NEW b, NEW t, IsChain(c, s, b, t), NEW h \in Entries, h \notin ToSet(t),
           NewHead(c, d, s, b, t, h)
    PROVE  IsChain(d, s, b, <<h>> \o t) /\ ToSet(<<h>> \o t) = ToSet(t) \cup {h}
<1>00. /\ d.next_hash[h] = c.list_[s][b] /\ d.list_[s][b] = h
       /\ \A x \in ToSet(t) : d.next_hash[x] = c.next_hash[x]
  BY DEF NewHead
<1> DEFINE u == <<h>> \o t
           n == Len(t)
<1>0. t \in Seq(Entries) /\ Inj(t) /\ n \in Nat
  BY DEF IsChain
<1>1. <<h>> \in Seq(Entries) /\ Inj(<<h>>) /\ ToSet(<<h>>) = {h}
  <2>1. <<h>> \in Seq(Entries) /\ Len(<<h>>) = 1 /\ <<h>>[1] = h
    OBVIOUS
  <2>2. ToSet(<<h>>) = {<<h>>[i] : i \in 1 .. 1}
    BY <2>1, ToSetIs
  <2>3. \A i \in 1 .. 1 : i = 1
    OBVIOUS
  <2> QED
    BY <2>1, <2>2, <2>3 DEF Inj
<1>2. u \in Seq(Entries) /\ Inj(u) /\ ToSet(u) = {h} \cup ToSet(t)
  <2>1. ToSet(<<h>>) \cap ToSet(t) = {}
    BY <1>1
  <2> QED
    BY <1>0, <1>1, <2>1, ConcatFacts
<1>3. Len(u) = n + 1 /\ u[1] = h /\ \A j \in 1 .. n : u[j + 1] = t[j]
  BY <1>0
<1> HIDE DEF u
<1>4. Link(u, 1) = h /\ \A j \in 1 .. n + 1 : Link(u, j + 1) = Link(t, j)
  <2>1. 1 \in 1 .. n + 1
    BY <1>0
  <2>2. \A j \in 1 .. n + 1 : j + 1 \in 1 .. n + 1 <=> j \in 1 .. n
    BY <1>0
  <2> QED
    BY <1>3, <2>1, <2>2 DEF Link
<1>5. c.list_[s][b] = Link(t, 1) /\ \A i \in 1 .. n : c.next_hash[t[i]] = Link(t, i + 1)
  BY DEF IsChain
<1>6. \A i \in 1 .. n : t[i] \in ToSet(t)
  BY <1>0, ToSetIs
<1> HIDE DEF n
<1>7. ASSUME NEW j \in 1 .. n + 1 PROVE d.next_hash[u[j]] = Link(u, j + 1)
  <2>1. CASE j = 1
    BY <1>00, <1>3, <1>4, <1>5, <2>1
  <2>2. CASE j # 1
    <3>1. j - 1 \in 1 .. n /\ j - 1 + 1 = j
      BY <1>0, <2>2
    <3>2. u[j] = t[j - 1]
      BY <1>3, <3>1
    <3>3. Link(u, j + 1) = Link(t, j)
      BY <1>4
    <3> QED
      BY <1>00, <1>5, <1>6, <3>1, <3>2, <3>3
  <2> QED
    BY <2>1, <2>2
<1> QED
  BY <1>00, <1>2, <1>3, <1>4, <1>7 DEF IsChain, u

\* What Resize does with one entry.
LEMMA MoveIs ==
    ASSUME NEW c \in States, NEW T \in SUBSET Entries, InTables(c, T), NEW s \in Shards,
           NEW h \in Entries, h \notin T, Shard(c.hash[h]) = s, NEW b, b = Bucket(c.hash[h], length_(c, s)),
           NEW d, d = [c EXCEPT !.next_hash[h] = c.list_[s][b], !.list_[s][b] = h]
    PROVE  NowHolds(c, d, T \cup {h})
<1>1. c.hash[h] \in Nat /\ c.next_hash \in [Entries -> Entries \cup {Nil}] /\ c.list_ \in [Shards -> Tables]
  BY DEF States
<1>2. b \in 0 .. length_(c, s) - 1 /\ length_(c, s) \in Nat /\ c.list_[s] \in [0 .. length_(c, s) - 1 -> Entries \cup {Nil}]
  BY <1>1, LengthIs
<1>3. Headed(c, d, s, b, h)
  BY <1>2, HeadedEffect
<1>4. PICK t : IsChain(c, s, b, t) /\ ToSet(t) = {e \in T : InBucket(c, e, s, b)}
  BY <1>2 DEF InTables
<1>5. /\ d \in States /\ d.elems_ = c.elems_ /\ SameLists(c, d) /\ SameData(c, d) /\ SameCounts(c, d)
      /\ d.next_hash = [c.next_hash EXCEPT ![h] = c.list_[s][b]]
      /\ d.list_ = [c.list_ EXCEPT ![s] = [c.list_[s] EXCEPT ![b] = h]]
  BY <1>3 DEF Headed
<1>6. d.next_hash[h] = c.list_[s][b] /\ \A x \in Entries : x # h => d.next_hash[x] = c.next_hash[x]
  BY <1>1, <1>5
<1>7. /\ d.list_[s] = [c.list_[s] EXCEPT ![b] = h] /\ \A r \in Shards : r # s => d.list_[r] = c.list_[r]
      /\ \A r \in Shards : DOMAIN d.list_[r] = DOMAIN c.list_[r]
  BY <1>1, <1>5
<1>8. \A r \in Shards : length_(d, r) = length_(c, r)
  BY <1>7 DEF length_
<1>9. d.list_[s][b] = h /\ \A a \in 0 .. length_(c, s) - 1 : a # b => d.list_[s][a] = c.list_[s][a]
  BY <1>2, <1>7
<1>10. h \notin ToSet(t) /\ ToSet(t) \subseteq Entries
  BY <1>4
<1>11. IsChain(d, s, b, <<h>> \o t) /\ ToSet(<<h>> \o t) = ToSet(t) \cup {h}
  <2>1. \A x \in ToSet(t) : d.next_hash[x] = c.next_hash[x]
    BY <1>6, <1>10
  <2>2. NewHead(c, d, s, b, t, h)
    BY <1>6, <1>9, <2>1 DEF NewHead
  <2> QED
    BY <1>4, <1>10, <2>2, ChainPrepend
<1>12. InBucket(c, h, s, b)
  BY DEF InBucket
<1> DEFINE T2 == T \cup {h}
           u == <<h>> \o t
<1>13. ToSet(u) = {x \in T2 : InBucket(c, x, s, b)}
  BY <1>4, <1>11, <1>12
<1>14. OnlyBucket(c, d, s, b, T, T2)
  <2>1. \A x \in Entries : ~ InBucket(c, x, s, b) => (x \in T2 <=> x \in T)
    BY <1>12
  <2>2. \A r \in Shards : \A a \in 0 .. length_(c, r) - 1 : (r # s \/ a # b) => d.list_[r][a] = c.list_[r][a]
    BY <1>7, <1>9
  <2>3. \A e \in Entries : d.hash[e] = c.hash[e]
    BY <1>5 DEF SameData
  <2>4. \A x \in T : ~ InBucket(c, x, s, b) => d.next_hash[x] = c.next_hash[x]
    BY <1>6, <1>12
  <2> HIDE DEF T2
  <2> QED
    BY <1>8, <2>1, <2>2, <2>3, <2>4 DEF OnlyBucket
<1>15. T2 \in SUBSET Entries
  OBVIOUS
<1> HIDE DEF T2, u
<1>16. IsChain(d, s, b, u)
  BY <1>11 DEF u
<1>17. InTables(d, T2)
  BY <1>2, <1>13, <1>14, <1>15, <1>16, OneChainChanges
<1>18. NowHolds(c, d, T2)
  BY <1>5, <1>8, <1>17 DEF NowHolds
<1> QED
  BY <1>18 DEF T2

IsDoubled(w) ==
    w = [j \in 0 .. Cardinality(Entries) |-> IF j = 0 THEN kInitialLength ELSE 2 * w[j - 1]]

\* Of the lengths of Resize one is large enough for all the entries there are.
LEMMA LengthsFacts ==
    /\ Lengths \subseteq Nat \ {0}
    /\ \E n \in Lengths : n >= Cardinality(Entries)
<1> DEFINE N == Cardinality(Entries)
           V == Nat \ {0}
           G == [n \in 1 .. N |-> [v \in V |-> 2 * v]]
<1>1. N \in Nat /\ kInitialLength \in V
  <2>1. N \in Nat
    BY TableAssumption, FS_CardinalityType
  <2>2. PICK n \in 0 .. 5 : kInitialLength = 2^n
    BY TableAssumption
  <2>3. n = 0 \/ n = 1 \/ n = 2 \/ n = 3 \/ n = 4 \/ n = 5
    BY <2>2
  <2>4. 2^0 = 1 /\ 2^1 = 2 /\ 2^2 = 4 /\ 2^3 = 8 /\ 2^4 = 16 /\ 2^5 = 32
    OBVIOUS
  <2>5. 2^n \in {1, 2, 4, 8, 16, 32}
    BY <2>3, <2>4
  <2> QED
    BY <2>1, <2>2, <2>5
<1>2. G \in [1 .. N -> [V -> V]] /\ \A n \in 1 .. N, v \in V : G[n][v] = 2 * v
  OBVIOUS
<1> HIDE DEF N, V, G
<1>3. PICK f : IsLoop(f, N, V, kInitialLength, G)
  BY <1>1, <1>2, LoopExists
<1>4. f \in [0 .. N -> V] /\ f = [n \in 0 .. N |-> IF n = 0 THEN kInitialLength ELSE G[n][f[n - 1]]]
  BY <1>3 DEF IsLoop
<1>5. f = [n \in 0 .. N |-> IF n = 0 THEN kInitialLength ELSE 2 * f[n - 1]]
  <2>1. \A n \in 0 .. N : n # 0 => n \in 1 .. N /\ n - 1 \in 0 .. N /\ f[n - 1] \in V
    BY <1>1, <1>4
  <2> QED
    BY <1>2, <1>4, <2>1
<1>6. IsDoubled(f)
  BY <1>5 DEF IsDoubled, N
<1> DEFINE w == CHOOSE w : IsDoubled(w)
<1>7. IsDoubled(w)
  BY <1>6
<1>8. Lengths = {w[j] : j \in 0 .. N}
  BY DEF Lengths, IsDoubled, N
<1> HIDE DEF w
<1>9. w = [j \in 0 .. N |-> IF j = 0 THEN kInitialLength ELSE 2 * w[j - 1]]
  BY <1>7 DEF IsDoubled, N
<1> DEFINE S == {n \in 0 .. N : w[n] \in V /\ w[n] >= n}
<1>10. 0 \in S
  <2>1. 0 \in 0 .. N
    BY <1>1
  <2>2. w[0] = kInitialLength
    BY <1>9, <2>1
  <2> QED
    BY <1>1, <2>1, <2>2 DEF V
<1>11. ASSUME NEW n \in 1 .. N, n - 1 \in S PROVE n \in S
  <2>1. n \in 0 .. N /\ n # 0
    BY <1>1
  <2>2. w[n] = 2 * w[n - 1]
    BY <1>9, <2>1
  <2>3. w[n - 1] \in V /\ w[n - 1] >= n - 1
    BY <1>11
  <2>4. w[n] \in V /\ w[n] >= n
    BY <1>1, <2>2, <2>3 DEF V
  <2> QED
    BY <2>1, <2>4
<1> HIDE DEF S
<1>12. \A n \in 0 .. N : n \in S
  BY <1>1, <1>10, <1>11, StepByStep
<1>13. \A n \in 0 .. N : w[n] \in V /\ w[n] >= n
  BY <1>12 DEF S
<1>14. N \in 0 .. N
  BY <1>1
<1> QED
  BY <1>8, <1>13, <1>14 DEF N, V

MoveTo(d, h, s, L) ==
    LET b == Bucket(d.hash[h], L) IN [d EXCEPT !.next_hash[h] = d.list_[s][b], !.list_[s][b] = h]

Emptied(c, s, L) == [c EXCEPT !.list_[s] = [b \in 0 .. L - 1 |-> Nil]]

IsResize(w, c, s, L, old) ==
    w = [n \in 0 .. Len(old) |-> IF n = 0 THEN Emptied(c, s, L) ELSE MoveTo(w[n - 1], old[n], s, L)]

NewLength(c, s) == Min({n \in Lengths : n >= c.elems_[s]})

OldEntries(c, s) == FlattenSeq([j \in 1 .. length_(c, s) |-> Chain(c, s, j - 1)])

LEMMA ResizeUnfolded ==
    ASSUME NEW c, NEW s
    PROVE  Resize(c, s) = (CHOOSE w : IsResize(w, c, s, NewLength(c, s), OldEntries(c, s)))[Len(OldEntries(c, s))]
BY DEF Resize, IsResize, NewLength, OldEntries, MoveTo, Emptied

LEMMA NewLengthIs ==
    ASSUME NEW c \in States, NEW s \in Shards, c.elems_[s] <= Cardinality(Entries)
    PROVE  NewLength(c, s) \in Nat \ {0} /\ NewLength(c, s) >= c.elems_[s]
<1> DEFINE S == {n \in Lengths : n >= c.elems_[s]}
<1>1. PICK n \in Lengths : n >= Cardinality(Entries)
  BY LengthsFacts
<1>2. n \in Nat /\ Cardinality(Entries) \in Nat /\ c.elems_[s] \in Int
  BY <1>1, LengthsFacts, TableAssumption, FS_CardinalityType DEF States
<1>3. n \in S
  BY <1>1, <1>2
<1>4. S \subseteq Nat /\ S # {}
  BY <1>3, LengthsFacts
<1>5. NewLength(c, s) = CHOOSE x \in S : \A y \in S : x <= y
  BY DEF NewLength, Min
<1> HIDE DEF S
<1>6. \E x \in S : \A y \in S : x <= y
  BY <1>4, LeastNumber
<1>7. NewLength(c, s) \in S
  BY <1>5, <1>6
<1> QED
  BY <1>7, LengthsFacts DEF S

InShard(c, T, s) == {e \in T : Shard(c.hash[e]) = s}

LEMMA OldEntriesAre ==
    ASSUME NEW c \in States, NEW T \in SUBSET Entries, InTables(c, T), NEW s \in Shards
    PROVE  /\ OldEntries(c, s) \in Seq(Entries) /\ Inj(OldEntries(c, s))
           /\ ToSet(OldEntries(c, s)) = InShard(c, T, s)
<1> DEFINE N == length_(c, s)
           q == [j \in 1 .. N |-> Chain(c, s, j - 1)]
<1>1. N \in Nat \ {0} /\ \A h \in Nat : Bucket(h, N) \in 0 .. N - 1
  BY LengthIs
<1>2. ASSUME NEW j \in 1 .. N
      PROVE  q[j] \in Seq(Entries) /\ Inj(q[j]) /\ ToSet(q[j]) = {e \in T : InBucket(c, e, s, j - 1)}
  <2>1. j - 1 \in 0 .. N - 1
    BY <1>1
  <2>2. PICK t : IsChain(c, s, j - 1, t) /\ ToSet(t) = {e \in T : InBucket(c, e, s, j - 1)}
    BY <2>1 DEF InTables
  <2>3. Chain(c, s, j - 1) = t
    BY <2>2, ChainIs
  <2>4. q[j] = t
    BY <2>3
  <2> HIDE DEF q
  <2> QED
    BY <2>2, <2>4 DEF IsChain
<1>3. Apart(q, N)
  <2>1. q = [j \in 1 .. N |-> q[j]]
    OBVIOUS
  <2> HIDE DEF q, N
  <2>2. q \in [1 .. N -> Seq(Entries)]
    BY <1>2, <2>1
  <2>3. ASSUME NEW i \in 1 .. N, NEW j \in 1 .. N, i # j PROVE ToSet(q[i]) \cap ToSet(q[j]) = {}
    <3>1. i - 1 # j - 1
      BY <1>1, <2>3
    <3> QED
      BY <1>2, <3>1 DEF InBucket
  <2> QED
    BY <1>2, <2>2, <2>3 DEF Apart
<1>4. OldEntries(c, s) = FlattenSeq(q)
  BY DEF OldEntries
<1> HIDE DEF q, N
<1>5. /\ FlattenSeq(q) \in Seq(Entries) /\ Inj(FlattenSeq(q))
      /\ ToSet(FlattenSeq(q)) = UNION {ToSet(q[i]) : i \in 1 .. N}
  BY <1>1, <1>3, FlattenIs
<1>6. UNION {ToSet(q[i]) : i \in 1 .. N} = InShard(c, T, s)
  <2>1. ASSUME NEW i \in 1 .. N, NEW e \in ToSet(q[i]) PROVE e \in InShard(c, T, s)
    BY <1>2, <2>1 DEF InShard, InBucket
  <2>2. ASSUME NEW e \in InShard(c, T, s) PROVE \E i \in 1 .. N : e \in ToSet(q[i])
    <3> DEFINE b == Bucket(c.hash[e], N)
    <3>1. e \in T /\ Shard(c.hash[e]) = s /\ c.hash[e] \in Nat
      BY <2>2 DEF InShard, States
    <3>2. b \in 0 .. N - 1
      BY <1>1, <3>1
    <3>3. InBucket(c, e, s, b)
      BY <3>1 DEF InBucket, N
    <3> HIDE DEF b
    <3>4. PICK j \in 1 .. N : j - 1 = b
      <4>1. b + 1 \in 1 .. N /\ b + 1 - 1 = b
        BY <1>1, <3>2
      <4> QED
        BY <1>1, <3>2, <4>1
    <3>5. ToSet(q[j]) = {x \in T : InBucket(c, x, s, j - 1)}
      BY <1>2
    <3> QED
      BY <3>1, <3>3, <3>4, <3>5
  <2> QED
    BY <2>1, <2>2
<1> QED
  BY <1>4, <1>5, <1>6

\* The other tables are those of c, that of shard s has L buckets, all of them empty.
Cleared(c, d, s, L) ==
    /\ d \in States /\ d.next_hash = c.next_hash /\ d.elems_ = c.elems_
    /\ d.list_[s] = [b \in 0 .. L - 1 |-> Nil] /\ \A r \in Shards : r # s => d.list_[r] = c.list_[r]
    /\ SameLists(c, d) /\ SameData(c, d) /\ SameCounts(c, d)

LEMMA EmptiedEffect ==
    ASSUME NEW c \in States, NEW s \in Shards, NEW L \in Nat \ {0}, NEW d, d = Emptied(c, s, L)
    PROVE  Cleared(c, d, s, L)
<1> DEFINE x == [b \in 0 .. L - 1 |-> Nil]
           l == [c.list_ EXCEPT ![s] = x]
<1>1. x \in Tables
  <2>1. x \in [0 .. L - 1 -> Entries \cup {Nil}]
    OBVIOUS
  <2> QED
    BY <2>1 DEF Tables
<1>2. d = [c EXCEPT !.list_ = l]
  BY DEF Emptied
<1> HIDE DEF x
<1>3. c.list_ \in [Shards -> Tables]
  BY DEF States
<1>4. l \in [Shards -> Tables] /\ l[s] = x /\ \A r \in Shards : r # s => l[r] = c.list_[r]
  BY <1>1, <1>3
<1> HIDE DEF l
<1>5. d \in States
  BY <1>2, <1>4 DEF States
<1>6. d.next_hash = c.next_hash /\ d.elems_ = c.elems_ /\ d.list_ = l
  BY <1>2 DEF States
<1>7. SameLists(c, d) /\ SameData(c, d) /\ SameCounts(c, d)
  BY <1>2 DEF States, SameLists, SameData, SameCounts
<1> QED
  BY <1>4, <1>5, <1>6, <1>7 DEF Cleared, x

LEMMA EmptiedIs ==
    ASSUME NEW c \in States, NEW T \in SUBSET Entries, InTables(c, T), NEW s \in Shards,
           NEW L \in Nat \ {0}, NEW d, d = Emptied(c, s, L)
    PROVE  /\ InTables(d, T \ InShard(c, T, s))
           /\ length_(d, s) = L /\ \A r \in Shards : r # s => length_(d, r) = length_(c, r)
<1>1. Cleared(c, d, s, L)
  BY EmptiedEffect
<1>2. /\ d \in States /\ d.next_hash = c.next_hash
      /\ d.list_[s] = [b \in 0 .. L - 1 |-> Nil] /\ \A r \in Shards : r # s => d.list_[r] = c.list_[r]
      /\ d.hash = c.hash
  BY <1>1 DEF Cleared, SameData
<1>3. length_(d, s) = L
  <2>1. DOMAIN d.list_[s] = 0 .. L - 1
    BY <1>2
  <2>2. Cardinality(0 .. L - 1) = L
    BY FS_Interval
  <2> QED
    BY <2>1, <2>2 DEF length_
<1>4. \A r \in Shards : r # s => length_(d, r) = length_(c, r)
  BY <1>2 DEF length_
<1> DEFINE T2 == T \ InShard(c, T, s)
<1>5. ASSUME NEW b \in 0 .. length_(d, s) - 1
      PROVE  \E t : IsChain(d, s, b, t) /\ ToSet(t) = {e \in T2 : InBucket(d, e, s, b)}
  <2>1. <<>> \in Seq(Entries) /\ Len(<<>>) = 0 /\ Inj(<<>>) /\ ToSet(<<>>) = {}
    BY DEF Inj, ToSet
  <2>2. d.list_[s][b] = Nil /\ Link(<<>>, 1) = Nil
    BY <1>2, <1>3, <2>1 DEF Link
  <2>3. IsChain(d, s, b, <<>>)
    BY <2>1, <2>2 DEF IsChain
  <2>4. {e \in T2 : InBucket(d, e, s, b)} = {}
    BY <1>2 DEF InBucket, InShard
  <2> QED
    BY <2>1, <2>3, <2>4
<1>6. ASSUME NEW r \in Shards, r # s, NEW b \in 0 .. length_(d, r) - 1
      PROVE  \E t : IsChain(d, r, b, t) /\ ToSet(t) = {e \in T2 : InBucket(d, e, r, b)}
  <2>0. b \in 0 .. length_(c, r) - 1
    BY <1>4, <1>6
  <2>1. PICK t : IsChain(c, r, b, t) /\ ToSet(t) = {e \in T : InBucket(c, e, r, b)}
    BY <2>0 DEF InTables
  <2>2. IsChain(d, r, b, t)
    BY <1>2, <1>6, <2>1, ChainFrame
  <2>3. {e \in T2 : InBucket(d, e, r, b)} = {e \in T : InBucket(c, e, r, b)}
    BY <1>2, <1>4, <1>6 DEF InBucket, InShard
  <2> QED
    BY <2>1, <2>2, <2>3
<1>7. InTables(d, T2)
  <2> HIDE DEF T2
  <2> QED
    BY <1>5, <1>6 DEF InTables
<1> QED
  BY <1>3, <1>4, <1>7

LEMMA NowHoldsTrans ==
    ASSUME NEW c, NEW d, NEW f, NEW T, NEW T2, NowHolds(c, d, T), NowHolds(d, f, T2)
    PROVE  NowHolds(c, f, T2)
<1>1. SameLists(c, f) /\ SameData(c, f) /\ SameCounts(c, f)
  BY SameTrans DEF NowHolds
<1> QED
  BY <1>1 DEF NowHolds

\* d is c with the table of shard s resized.
Resized(c, d, s, T) ==
    /\ d \in States /\ InTables(d, T) /\ d.elems_ = c.elems_
    /\ length_(d, s) >= c.elems_[s] /\ \A r \in Shards : r # s => length_(d, r) = length_(c, r)
    /\ SameLists(c, d) /\ SameData(c, d) /\ SameCounts(c, d)

LEMMA MoveKeepsType ==
    ASSUME NEW d \in States, NEW s \in Shards, NEW h \in Entries, NEW L \in Nat, L = length_(d, s)
    PROVE  MoveTo(d, h, s, L) \in States /\ length_(MoveTo(d, h, s, L), s) = L
<1> DEFINE b == Bucket(d.hash[h], L)
           f == MoveTo(d, h, s, L)
<1>1. d.hash[h] \in Nat /\ d.list_ \in [Shards -> Tables]
  BY DEF States
<1>2. b \in 0 .. length_(d, s) - 1 /\ d.list_[s] \in [0 .. length_(d, s) - 1 -> Entries \cup {Nil}]
  BY <1>1, LengthIs
<1>3. f = [d EXCEPT !.next_hash[h] = d.list_[s][b], !.list_[s][b] = h]
  BY DEF MoveTo
<1> HIDE DEF f, b
<1>4. Headed(d, f, s, b, h)
  BY <1>2, <1>3, HeadedEffect
<1>5. f \in States /\ f.list_ = [d.list_ EXCEPT ![s] = [d.list_[s] EXCEPT ![b] = h]]
  BY <1>4 DEF Headed
<1>6. f.list_[s] = [d.list_[s] EXCEPT ![b] = h]
  BY <1>1, <1>5
<1>7. DOMAIN f.list_[s] = DOMAIN d.list_[s]
  BY <1>6
<1> QED
  BY <1>5, <1>7 DEF length_, f

LEMMA ResizeIs ==
    ASSUME NEW c \in States, NEW T \in SUBSET Entries, InTables(c, T), NEW s \in Shards,
           c.elems_[s] <= Cardinality(Entries), NEW d, d = Resize(c, s)
    PROVE  Resized(c, d, s, T)
<1> DEFINE L == NewLength(c, s)
           old == OldEntries(c, s)
           N == Len(old)
           d0 == Emptied(c, s, L)
           T0 == T \ InShard(c, T, s)
           V == {x \in States : length_(x, s) = L}
           G == [n \in 1 .. N |-> [x \in V |-> MoveTo(x, old[n], s, L)]]
<1>1. L \in Nat \ {0} /\ L >= c.elems_[s]
  BY NewLengthIs
<1>2. old \in Seq(Entries) /\ Inj(old) /\ ToSet(old) = InShard(c, T, s)
  BY OldEntriesAre
<1>3. N \in Nat /\ \A n \in 1 .. N : old[n] \in Entries /\ old[n] \in ToSet(old)
  BY <1>2, ToSetIs
<1>4. d = (CHOOSE w : IsResize(w, c, s, L, old))[N]
  BY ResizeUnfolded
<1> HIDE DEF L, old, N
<1>5. Cleared(c, d0, s, L)
  BY <1>1, EmptiedEffect
<1>6. /\ InTables(d0, T0) /\ length_(d0, s) = L
      /\ \A r \in Shards : r # s => length_(d0, r) = length_(c, r)
  BY <1>1, EmptiedIs
<1>7. d0 \in V
  BY <1>5, <1>6 DEF Cleared
<1>8. ASSUME NEW n \in 1 .. N, NEW x \in V PROVE MoveTo(x, old[n], s, L) \in V
  BY <1>1, <1>3, MoveKeepsType
<1>9. G \in [1 .. N -> [V -> V]]
  BY <1>8
<1>10. \A n \in 1 .. N, x \in V : G[n][x] = MoveTo(x, old[n], s, L)
  OBVIOUS
<1>11. d0 = Emptied(c, s, L)
  OBVIOUS
<1> HIDE DEF G, V, d0
<1>12. PICK f : IsLoop(f, N, V, d0, G)
  BY <1>3, <1>7, <1>9, LoopExists
<1>13. f \in [0 .. N -> V] /\ f = [n \in 0 .. N |-> IF n = 0 THEN d0 ELSE G[n][f[n - 1]]]
  BY <1>12 DEF IsLoop
<1>14. f = [n \in 0 .. N |-> IF n = 0 THEN d0 ELSE MoveTo(f[n - 1], old[n], s, L)]
  <2>1. \A n \in 0 .. N : n # 0 => n \in 1 .. N /\ n - 1 \in 0 .. N /\ f[n - 1] \in V
    BY <1>3, <1>13
  <2> QED
    BY <1>10, <1>13, <2>1
<1>15. IsResize(f, c, s, L, old)
  BY <1>11, <1>14 DEF IsResize, N
<1> DEFINE w == CHOOSE w : IsResize(w, c, s, L, old)
<1>16. IsResize(w, c, s, L, old)
  BY <1>15
<1>17. d = w[N]
  BY <1>4
<1> HIDE DEF w
<1>18. w = [n \in 0 .. N |-> IF n = 0 THEN d0 ELSE MoveTo(w[n - 1], old[n], s, L)]
  BY <1>11, <1>16 DEF IsResize, N
<1> DEFINE Moved(n) == T0 \cup {old[i] : i \in 1 .. n}
           S == {n \in 0 .. N : NowHolds(d0, w[n], Moved(n))}
<1>19. 0 \in S
  <2>1. 0 \in 0 .. N /\ w[0] = d0
    BY <1>3, <1>18
  <2>2. Moved(0) = T0
    OBVIOUS
  <2>3. NowHolds(d0, d0, T0)
    BY <1>5, <1>6 DEF NowHolds, Cleared, SameLists, SameData, SameCounts
  <2> HIDE DEF Moved, T0
  <2> QED
    BY <2>1, <2>2, <2>3
<1>20. ASSUME NEW n \in 1 .. N, n - 1 \in S PROVE n \in S
  <2> DEFINE x == w[n - 1]
             y == w[n]
             h == old[n]
             b == Bucket(x.hash[h], length_(x, s))
  <2>1. NowHolds(d0, x, Moved(n - 1))
    BY <1>20
  <2>2. n \in 0 .. N /\ n # 0
    BY <1>3
  <2>3. y = MoveTo(x, h, s, L)
    BY <1>18, <2>2
  <2>4. h \in Entries /\ h \in InShard(c, T, s)
    BY <1>2, <1>3
  <2>5. h \notin Moved(n - 1)
    <3>1. \A i \in 1 .. n - 1 : i \in 1 .. N /\ i # n
      BY <1>3
    <3>2. \A i \in 1 .. n - 1 : old[i] # old[n]
      BY <1>2, <3>1 DEF Inj, N
    <3> QED
      BY <2>4, <3>2
  <2>6. Moved(n - 1) \in SUBSET Entries
    <3>1. \A i \in 1 .. n - 1 : old[i] \in Entries
      BY <1>3
    <3> QED
      BY <3>1
  <2>7. Moved(n) = Moved(n - 1) \cup {h}
    <3>1. \A i \in 1 .. n : i \in 1 .. n - 1 \/ i = n
      OBVIOUS
    <3>2. n \in 1 .. n /\ \A i \in 1 .. n - 1 : i \in 1 .. n
      OBVIOUS
    <3> QED
      BY <3>1, <3>2
  <2> HIDE DEF Moved, x, y, h, S, b
  <2>8. /\ x \in States /\ InTables(x, Moved(n - 1)) /\ length_(x, s) = L /\ x.hash = c.hash
    BY <1>5, <1>6, <2>1 DEF NowHolds, Cleared, SameData
  <2>9. Shard(x.hash[h]) = s
    BY <2>4, <2>8 DEF InShard
  <2>10. y = [x EXCEPT !.next_hash[h] = x.list_[s][b], !.list_[s][b] = h]
    BY <2>3, <2>8 DEF MoveTo, b
  <2>11. NowHolds(x, y, Moved(n - 1) \cup {h})
    BY <2>4, <2>5, <2>6, <2>8, <2>9, <2>10, MoveIs DEF b
  <2>12. NowHolds(d0, y, Moved(n))
    BY <2>1, <2>7, <2>11, NowHoldsTrans
  <2> QED
    BY <2>2, <2>12 DEF S, y
<1> HIDE DEF S
<1>21. N \in S
  BY <1>3, <1>19, <1>20, StepByStep
<1>22. NowHolds(d0, d, Moved(N))
  BY <1>17, <1>21 DEF S
<1>23. Moved(N) = T
  <2>1. {old[i] : i \in 1 .. N} = InShard(c, T, s)
    BY <1>2, ToSetIs DEF N
  <2> QED
    BY <2>1 DEF InShard
<1>24. SameLists(c, d) /\ SameData(c, d) /\ SameCounts(c, d)
  BY <1>5, <1>22, SameTrans DEF NowHolds, Cleared
<1> HIDE DEF Moved
<1> QED
  BY <1>1, <1>5, <1>6, <1>22, <1>23, <1>24 DEF NowHolds, Cleared, Resized

(***************************************************************************)
(* HandleTable with its count of elements.                                 *)
(***************************************************************************)
\* The tables hold T, elems_ counts it, and no table has more elements than buckets.
TableOK(c, T) ==
    /\ InTables(c, T)
    /\ \A s \in Shards : c.elems_[s] = Cardinality(InShard(c, T, s)) /\ c.elems_[s] <= length_(c, s)

LEMMA InTablesSame ==
    ASSUME NEW c, NEW d, NEW T, InTables(c, T), d.list_ = c.list_, d.next_hash = c.next_hash,
           \A x \in T : d.hash[x] = c.hash[x]
    PROVE  InTables(d, T) /\ \A r \in Shards : length_(d, r) = length_(c, r)
<1>1. \A r \in Shards : length_(d, r) = length_(c, r)
  BY DEF length_
<1>2. \A r \in Shards : \A b, t : IsChain(c, r, b, t) => IsChain(d, r, b, t)
  BY DEF IsChain
<1>3. \A r \in Shards : \A b, e : e \in T => (InBucket(d, e, r, b) <=> InBucket(c, e, r, b))
  BY <1>1 DEF InBucket
<1>4. ASSUME NEW r \in Shards, NEW b \in 0 .. length_(d, r) - 1
      PROVE  \E t : IsChain(d, r, b, t) /\ ToSet(t) = {e \in T : InBucket(d, e, r, b)}
  <2>1. b \in 0 .. length_(c, r) - 1
    BY <1>1, <1>4
  <2>2. PICK t : IsChain(c, r, b, t) /\ ToSet(t) = {e \in T : InBucket(c, e, r, b)}
    BY <2>1 DEF InTables
  <2> QED
    BY <1>2, <1>3, <2>2
<1> QED
  BY <1>1, <1>4 DEF InTables

LEMMA TableSame ==
    ASSUME NEW c, NEW d, NEW T, TableOK(c, T), SameTables(c, d), \A x \in T : d.hash[x] = c.hash[x]
    PROVE  TableOK(d, T)
<1>1. InTables(d, T) /\ \A r \in Shards : length_(d, r) = length_(c, r)
  BY InTablesSame DEF TableOK, SameTables
<1>2. \A r \in Shards : InShard(d, T, r) = InShard(c, T, r)
  BY DEF InShard
<1> QED
  BY <1>1, <1>2 DEF TableOK, SameTables

LEMMA ShardSizes ==
    ASSUME NEW c \in States, NEW T \in SUBSET Entries, NEW s \in Shards, NEW h \in Entries
    PROVE  /\ Cardinality(InShard(c, T, s)) \in Nat /\ Cardinality(InShard(c, T, s)) <= Cardinality(Entries)
           /\ h \notin T /\ Shard(c.hash[h]) = s =>
                Cardinality(InShard(c, T \cup {h}, s)) = Cardinality(InShard(c, T, s)) + 1
           /\ h \in T /\ Shard(c.hash[h]) = s =>
                Cardinality(InShard(c, T \ {h}, s)) = Cardinality(InShard(c, T, s)) - 1
           /\ Shard(c.hash[h]) # s =>
                InShard(c, T \cup {h}, s) = InShard(c, T, s) /\ InShard(c, T \ {h}, s) = InShard(c, T, s)
<1> DEFINE A == InShard(c, T, s)
<1>1. A \subseteq Entries /\ IsFiniteSet(Entries)
  BY TableAssumption DEF InShard
<1>2. IsFiniteSet(A) /\ Cardinality(A) \in Nat /\ Cardinality(A) <= Cardinality(Entries)
  <2> HIDE DEF A
  <2> QED
    BY <1>1, FS_Subset, FS_CardinalityType
<1>3. ASSUME h \notin T, Shard(c.hash[h]) = s PROVE Cardinality(InShard(c, T \cup {h}, s)) = Cardinality(A) + 1
  <2>1. InShard(c, T \cup {h}, s) = A \cup {h} /\ h \notin A
    BY <1>3 DEF InShard
  <2> HIDE DEF A
  <2> QED
    BY <1>2, <2>1, FS_AddElement
<1>4. ASSUME h \in T, Shard(c.hash[h]) = s PROVE Cardinality(InShard(c, T \ {h}, s)) = Cardinality(A) - 1
  <2>1. InShard(c, T \ {h}, s) = A \ {h} /\ h \in A
    BY <1>4 DEF InShard
  <2> HIDE DEF A
  <2> QED
    BY <1>2, <2>1, FS_RemoveElement
<1>5. ASSUME Shard(c.hash[h]) # s PROVE InShard(c, T \cup {h}, s) = A /\ InShard(c, T \ {h}, s) = A
  BY <1>5 DEF InShard
<1> QED
  BY <1>2, <1>3, <1>4, <1>5

TableRemoved(c, d, T, k, hash, e) ==
    /\ e = Nil => d = c /\ \A f \in T : ~ Match(c, f, k, hash)
    /\ e # Nil => /\ e \in T /\ Match(c, e, k, hash)
                  /\ d \in States /\ TableOK(d, T \ {e})
                  /\ SameLists(c, d) /\ SameData(c, d) /\ SameCounts(c, d)

LEMMA TableRemoveIs ==
    ASSUME NEW c \in States, NEW T \in SUBSET Entries, TableOK(c, T), NEW s \in Shards,
           NEW k, NEW hash \in Nat, Shard(hash) = s,
           NEW e, e = TableLookup(c, s, k, hash), NEW d, d = TableRemove(c, s, k, hash)
    PROVE  TableRemoved(c, d, T, k, hash, e)
<1> SUFFICES /\ e = Nil => d = c /\ \A f \in T : ~ Match(c, f, k, hash)
             /\ e # Nil => /\ e \in T /\ Match(c, e, k, hash)
                           /\ d \in States /\ TableOK(d, T \ {e})
                           /\ SameLists(c, d) /\ SameData(c, d) /\ SameCounts(c, d)
  BY DEF TableRemoved
<1>0. InTables(c, T)
  BY DEF TableOK
<1>00. Removed(c, d, T, s, k, hash, e)
  BY <1>0, RemoveIs
<1>1. CASE e = Nil
  BY <1>00, <1>1 DEF Removed
<1>2. CASE e # Nil
  <2>1. /\ e \in T /\ Match(c, e, k, hash)
        /\ d \in States /\ InTables(d, T \ {e})
        /\ d.elems_ = [c.elems_ EXCEPT ![s] = c.elems_[s] - 1]
        /\ \A r \in Shards : length_(d, r) = length_(c, r)
        /\ SameLists(c, d) /\ SameData(c, d) /\ SameCounts(c, d)
    BY <1>00, <1>2 DEF Removed
  <2>2. Shard(c.hash[e]) = s /\ e \in Entries
    BY <2>1 DEF Match
  <2>3. ASSUME NEW r \in Shards
        PROVE  d.elems_[r] = Cardinality(InShard(d, T \ {e}, r)) /\ d.elems_[r] <= length_(d, r)
    <3>1. InShard(d, T \ {e}, r) = InShard(c, T \ {e}, r)
      BY <2>1 DEF InShard, SameData
    <3>2. c.elems_[r] = Cardinality(InShard(c, T, r)) /\ c.elems_[r] <= length_(c, r)
      BY DEF TableOK
    <3>3. Cardinality(InShard(c, T, r)) \in Nat /\ length_(c, r) \in Nat
      BY <2>2, ShardSizes, LengthIs
    <3>4. c.elems_ \in [Shards -> Int]
      BY DEF States
    <3>5. CASE r = s
      <4>1. Cardinality(InShard(c, T \ {e}, r)) = Cardinality(InShard(c, T, r)) - 1
        BY <2>1, <2>2, <3>5, ShardSizes
      <4>2. d.elems_[r] = c.elems_[r] - 1
        BY <2>1, <3>4, <3>5
      <4> QED
        BY <2>1, <3>1, <3>2, <3>3, <4>1, <4>2
    <3>6. CASE r # s
      <4>1. InShard(c, T \ {e}, r) = InShard(c, T, r)
        BY <2>2, <3>6, ShardSizes
      <4>2. d.elems_[r] = c.elems_[r]
        BY <2>1, <3>4, <3>6
      <4> QED
        BY <2>1, <3>1, <3>2, <4>1, <4>2
    <3> QED
      BY <3>5, <3>6
  <2>4. TableOK(d, T \ {e})
    BY <2>1, <2>3 DEF TableOK
  <2> QED
    BY <1>2, <2>1, <2>4
<1> QED
  BY <1>1, <1>2

TableInserted(c, d, T, h, old) ==
    /\ d \in States /\ SameLists(c, d) /\ SameData(c, d) /\ SameCounts(c, d)
    /\ old = Nil => TableOK(d, T \cup {h}) /\ \A f \in T : ~ Match(c, f, c.key[h], c.hash[h])
    /\ old # Nil => /\ old \in T /\ Match(c, old, c.key[h], c.hash[h])
                    /\ TableOK(d, (T \ {old}) \cup {h})

LEMMA TableInsertIs ==
    ASSUME NEW c \in States, NEW T \in SUBSET Entries, TableOK(c, T), NEW s \in Shards,
           NEW h \in Entries, h \notin T, Shard(c.hash[h]) = s,
           NEW old, old = TableLookup(c, s, c.key[h], c.hash[h]), NEW d, d = TableInsert(c, s, h)
    PROVE  TableInserted(c, d, T, h, old)
<1> SUFFICES /\ d \in States /\ SameLists(c, d) /\ SameData(c, d) /\ SameCounts(c, d)
             /\ old = Nil => TableOK(d, T \cup {h}) /\ \A f \in T : ~ Match(c, f, c.key[h], c.hash[h])
             /\ old # Nil => /\ old \in T /\ Match(c, old, c.key[h], c.hash[h])
                             /\ TableOK(d, (T \ {old}) \cup {h})
  BY DEF TableInserted
<1> DEFINE d0 == Storing(c, s, h, old)
           d1 == [d0 EXCEPT !.elems_[s] = @ + 1]
<1>0. InTables(c, T)
  BY DEF TableOK
<1>1. d = IF old # Nil THEN Drop(d0, old)
          ELSE IF c.elems_[s] + 1 > length_(c, s) THEN Resize(d1, s) ELSE d1
  BY DEF TableInsert, TableLookup, Storing
<1>2. d0 = Storing(c, s, h, old)
  OBVIOUS
<1> HIDE DEF d0
<1>3. /\ old = Nil => NowHolds(c, d0, T \cup {h}) /\ \A f \in T : ~ Match(c, f, c.key[h], c.hash[h])
      /\ old # Nil => /\ old \in T /\ Match(c, old, c.key[h], c.hash[h])
                      /\ NowHolds(c, Drop(d0, old), (T \ {old}) \cup {h})
  <2>1. Stored(c, d0, T, h, old)
    BY <1>0, <1>2, StoringIs
  <2> QED
    BY <2>1 DEF Stored
<1>4. c.elems_ \in [Shards -> Int] /\ \A r \in Shards : length_(c, r) \in Nat
  BY LengthIs DEF States
<1>5. \A r \in Shards : c.elems_[r] = Cardinality(InShard(c, T, r)) /\ c.elems_[r] <= length_(c, r)
  BY DEF TableOK
<1>6. CASE old # Nil
  <2> DEFINE T2 == (T \ {old}) \cup {h}
  <2>1. /\ old \in T /\ Match(c, old, c.key[h], c.hash[h]) /\ NowHolds(c, d, T2)
    BY <1>1, <1>3, <1>6
  <2>2. Shard(c.hash[old]) = s /\ old \in Entries
    BY <2>1 DEF Match
  <2> HIDE DEF T2
  <2>3. ASSUME NEW r \in Shards
        PROVE  d.elems_[r] = Cardinality(InShard(d, T2, r)) /\ d.elems_[r] <= length_(d, r)
    <3>1. InShard(d, T2, r) = InShard(c, T2, r) /\ d.elems_[r] = c.elems_[r] /\ length_(d, r) = length_(c, r)
      BY <2>1 DEF InShard, SameData, NowHolds
    <3>2. Cardinality(InShard(c, T2, r)) = Cardinality(InShard(c, T, r))
      <4>0. T \ {old} \in SUBSET Entries /\ h \notin T \ {old}
        OBVIOUS
      <4>1. Cardinality(InShard(c, T, r)) \in Nat
        BY <2>2, ShardSizes
      <4>2. CASE r = s
        <5>1. Cardinality(InShard(c, T \ {old}, r)) = Cardinality(InShard(c, T, r)) - 1
          BY <2>1, <2>2, <4>2, ShardSizes
        <5>2. Cardinality(InShard(c, (T \ {old}) \cup {h}, r)) = Cardinality(InShard(c, T \ {old}, r)) + 1
          BY <4>0, <4>2, ShardSizes
        <5> QED
          BY <4>1, <5>1, <5>2 DEF T2
      <4>3. CASE r # s
        <5>1. InShard(c, T \ {old}, r) = InShard(c, T, r)
          BY <2>2, <4>3, ShardSizes
        <5>2. InShard(c, (T \ {old}) \cup {h}, r) = InShard(c, T \ {old}, r)
          BY <4>0, <4>3, ShardSizes
        <5> QED
          BY <5>1, <5>2 DEF T2
      <4> QED
        BY <4>2, <4>3
    <3> QED
      BY <1>5, <3>1, <3>2
  <2>4. TableOK(d, T2)
    BY <2>1, <2>3 DEF TableOK, NowHolds
  <2> QED
    BY <1>6, <2>1, <2>4 DEF NowHolds, T2
<1>7. CASE old = Nil
  <2> DEFINE T2 == T \cup {h}
  <2>1. NowHolds(c, d0, T2) /\ \A f \in T : ~ Match(c, f, c.key[h], c.hash[h])
    BY <1>3, <1>7
  <2>2. T2 \in SUBSET Entries
    OBVIOUS
  <2>3. /\ Cardinality(InShard(c, T2, s)) = Cardinality(InShard(c, T, s)) + 1
        /\ \A r \in Shards : r # s => InShard(c, T2, r) = InShard(c, T, r)
    BY ShardSizes
  <2> HIDE DEF T2
  <2>4. Cardinality(InShard(c, T2, s)) <= Cardinality(Entries) /\ Cardinality(InShard(c, T, s)) \in Nat
    BY <2>2, ShardSizes
  <2> DEFINE n == c.elems_[s] + 1
  <2>5. d0.elems_[s] + 1 = n /\ n \in Int /\ d0 \in States
    BY <1>4, <2>1 DEF NowHolds
  <2>6. n = Cardinality(InShard(c, T2, s)) /\ n <= Cardinality(Entries)
    BY <1>5, <2>3, <2>4
  <2> HIDE DEF n
  <2>7. ElemsAssigned(d0, d1, s, n)
    <3>1. d1 = [d0 EXCEPT !.elems_[s] = n]
      BY <2>5 DEF States
    <3> HIDE DEF d1
    <3> QED
      BY <2>5, <3>1, ElemsEffect
  <2> HIDE DEF d1
  <2>8. /\ d1 \in States /\ d1.elems_ = [c.elems_ EXCEPT ![s] = n]
        /\ d1.list_ = d0.list_ /\ d1.next_hash = d0.next_hash /\ d1.hash = d0.hash
        /\ SameLists(c, d1) /\ SameData(c, d1) /\ SameCounts(c, d1)
    BY <2>1, <2>7, SameTrans DEF ElemsAssigned, NowHolds, SameData
  <2>9. InTables(d1, T2) /\ \A r \in Shards : length_(d1, r) = length_(c, r)
    <3>1. InTables(d0, T2) /\ \A r \in Shards : length_(d0, r) = length_(c, r)
      BY <2>1 DEF NowHolds
    <3>2. \A x \in T2 : d1.hash[x] = d0.hash[x]
      BY <2>8
    <3>3. InTables(d1, T2) /\ \A r \in Shards : length_(d1, r) = length_(d0, r)
      BY <2>8, <3>1, <3>2, InTablesSame
    <3> QED
      BY <3>1, <3>3
  <2>10. d1.elems_[s] = n /\ \A r \in Shards : r # s => d1.elems_[r] = c.elems_[r]
    BY <1>4, <2>8
  <2>11. \A r \in Shards : d1.elems_[r] = Cardinality(InShard(d1, T2, r))
    <3>1. \A r \in Shards : InShard(d1, T2, r) = InShard(c, T2, r)
      BY <2>8 DEF InShard, SameData
    <3> QED
      BY <1>5, <2>3, <2>6, <2>10, <3>1
  <2>12. CASE ~ (n > length_(c, s))
    <3>1. d = d1
      BY <1>1, <1>7, <2>12 DEF n
    <3>2. \A r \in Shards : d1.elems_[r] <= length_(d1, r)
      BY <1>4, <1>5, <2>5, <2>9, <2>10, <2>12
    <3> QED
      BY <1>7, <2>1, <2>8, <2>9, <2>11, <3>1, <3>2 DEF TableOK, T2
  <2>13. CASE n > length_(c, s)
    <3>1. d = Resize(d1, s)
      BY <1>1, <1>7, <2>13 DEF n
    <3>2. d1.elems_[s] <= Cardinality(Entries)
      BY <2>6, <2>10
    <3>3. Resized(d1, d, s, T2)
      BY <2>2, <2>8, <2>9, <3>1, <3>2, ResizeIs
    <3>4. /\ d \in States /\ InTables(d, T2) /\ d.elems_ = d1.elems_
          /\ length_(d, s) >= d1.elems_[s] /\ \A r \in Shards : r # s => length_(d, r) = length_(d1, r)
          /\ SameLists(c, d) /\ SameData(c, d) /\ SameCounts(c, d) /\ d.hash = d1.hash
      BY <2>8, <3>3, SameTrans DEF Resized, SameData
    <3>5. \A r \in Shards : InShard(d, T2, r) = InShard(d1, T2, r)
      BY <3>4 DEF InShard
    <3>6. \A r \in Shards : d.elems_[r] <= length_(d, r)
      <4>1. length_(d, s) \in Nat
        BY <3>4, LengthIs
      <4> QED
        BY <1>5, <2>5, <2>9, <2>10, <3>4, <4>1
    <3> QED
      BY <1>7, <2>1, <2>11, <3>4, <3>5, <3>6 DEF TableOK, T2
  <2> QED
    BY <2>12, <2>13
<1> QED
  BY <1>6, <1>7

(***************************************************************************)
(* The assignments of LRUCache to an entry.                                *)
(***************************************************************************)
\* The record after an assignment to refs.
RefsSet(c, d, e, n) ==
    /\ d \in States /\ d.refs = [c.refs EXCEPT ![e] = n]
    /\ d.in_cache = c.in_cache /\ d.usage_ = c.usage_
    /\ SameLists(c, d) /\ SameTables(c, d) /\ SameData(c, d)

LEMMA RefsEffect ==
    ASSUME NEW c \in States, NEW e \in Entries, NEW n \in Int, NEW d, d = [c EXCEPT !.refs[e] = n]
    PROVE  RefsSet(c, d, e, n)
<1> DEFINE r == [c.refs EXCEPT ![e] = n]
<1>1. r \in [Entries -> Int]
  BY DEF States
<1>2. d = [c EXCEPT !.refs = r]
  OBVIOUS
<1> HIDE DEF r
<1>3. d \in States /\ d.refs = r /\ d.in_cache = c.in_cache /\ d.usage_ = c.usage_
  BY <1>1, <1>2 DEF States
<1>4. SameLists(c, d) /\ SameTables(c, d) /\ SameData(c, d)
  BY <1>2 DEF States, SameLists, SameTables, SameData
<1> QED
  BY <1>3, <1>4 DEF RefsSet, r

\* free(e).
Freed(c, d, e) ==
    /\ d \in States
    /\ d.next = [c.next EXCEPT ![e] = Nil] /\ d.prev = [c.prev EXCEPT ![e] = Nil]
    /\ d.key = [c.key EXCEPT ![e] = Nil] /\ d.charge = [c.charge EXCEPT ![e] = 0]
    /\ d.hash = [c.hash EXCEPT ![e] = 0]
    /\ SameTables(c, d) /\ SameCounts(c, d)

LEMMA FreeEffect ==
    ASSUME NEW c \in States, NEW e \in Entries, NEW d, d = Free(c, e)
    PROVE  Freed(c, d, e)
<1> DEFINE nx == [c.next EXCEPT ![e] = Nil]
           pv == [c.prev EXCEPT ![e] = Nil]
           k == [c.key EXCEPT ![e] = Nil]
           ch == [c.charge EXCEPT ![e] = 0]
           h == [c.hash EXCEPT ![e] = 0]
<1>1. /\ c.next \in [Nodes -> Nodes \cup {Nil}] /\ c.prev \in [Nodes -> Nodes \cup {Nil}]
      /\ c.key \in [Entries -> Keys \cup {Nil}] /\ c.charge \in [Entries -> Nat] /\ c.hash \in [Entries -> Nat]
  BY DEF States
<1>2. /\ nx \in [Nodes -> Nodes \cup {Nil}] /\ pv \in [Nodes -> Nodes \cup {Nil}]
      /\ k \in [Entries -> Keys \cup {Nil}] /\ ch \in [Entries -> Nat] /\ h \in [Entries -> Nat]
  BY <1>1
<1>3. d = [c EXCEPT !.next = nx, !.prev = pv, !.key = k, !.charge = ch, !.hash = h]
  BY DEF Free
<1> HIDE DEF nx, pv, k, ch, h
<1>4. d \in States
  BY <1>2, <1>3 DEF States
<1>5. d.next = nx /\ d.prev = pv /\ d.key = k /\ d.charge = ch /\ d.hash = h
  BY <1>3 DEF States
<1>6. SameTables(c, d) /\ SameCounts(c, d)
  BY <1>3 DEF States, SameTables, SameCounts
<1> QED
  BY <1>4, <1>5, <1>6 DEF Freed, nx, pv, k, ch, h

\* in_cache of e becomes b, and usage_ of s becomes u.
Marked(c, d, s, e, b, u) ==
    /\ d \in States /\ d.in_cache = [c.in_cache EXCEPT ![e] = b] /\ d.usage_ = [c.usage_ EXCEPT ![s] = u]
    /\ d.refs = c.refs
    /\ SameLists(c, d) /\ SameTables(c, d) /\ SameData(c, d)

LEMMA UnmarkEffect ==
    ASSUME NEW c \in States, NEW s \in Shards, NEW e \in Entries, NEW u \in Int,
           NEW d, d = [c EXCEPT !.in_cache[e] = FALSE, !.usage_[s] = u]
    PROVE  Marked(c, d, s, e, FALSE, u)
<1> DEFINE i == [c.in_cache EXCEPT ![e] = FALSE]
           us == [c.usage_ EXCEPT ![s] = u]
<1>1. i \in [Entries -> BOOLEAN] /\ us \in [Shards -> Int]
  BY DEF States
<1>2. d = [c EXCEPT !.in_cache = i, !.usage_ = us]
  OBVIOUS
<1> HIDE DEF i, us
<1>3. d \in States
  BY <1>1, <1>2 DEF States
<1>4. d.in_cache = i /\ d.usage_ = us /\ d.refs = c.refs
  BY <1>2 DEF States
<1>5. SameLists(c, d) /\ SameTables(c, d) /\ SameData(c, d)
  BY <1>2 DEF States, SameLists, SameTables, SameData
<1> QED
  BY <1>3, <1>4, <1>5 DEF Marked, i, us

\* The cache takes its own reference to e.
Taken(c, d, s, e, n, u) ==
    /\ d \in States /\ d.in_cache = [c.in_cache EXCEPT ![e] = TRUE] /\ d.usage_ = [c.usage_ EXCEPT ![s] = u]
    /\ d.refs = [c.refs EXCEPT ![e] = n]
    /\ SameLists(c, d) /\ SameTables(c, d) /\ SameData(c, d)

LEMMA TakeEffect ==
    ASSUME NEW c \in States, NEW s \in Shards, NEW e \in Entries, NEW n \in Int, NEW u \in Int,
           NEW d, d = [c EXCEPT !.refs[e] = n, !.in_cache[e] = TRUE, !.usage_[s] = u]
    PROVE  Taken(c, d, s, e, n, u)
<1> DEFINE i == [c.in_cache EXCEPT ![e] = TRUE]
           us == [c.usage_ EXCEPT ![s] = u]
           r == [c.refs EXCEPT ![e] = n]
<1>1. i \in [Entries -> BOOLEAN] /\ us \in [Shards -> Int] /\ r \in [Entries -> Int]
  BY DEF States
<1>2. d = [c EXCEPT !.refs = r, !.in_cache = i, !.usage_ = us]
  OBVIOUS
<1> HIDE DEF i, us, r
<1>3. d \in States
  BY <1>1, <1>2 DEF States
<1>4. d.in_cache = i /\ d.usage_ = us /\ d.refs = r
  BY <1>2 DEF States
<1>5. SameLists(c, d) /\ SameTables(c, d) /\ SameData(c, d)
  BY <1>2 DEF States, SameLists, SameTables, SameData
<1> QED
  BY <1>3, <1>4, <1>5 DEF Taken, i, us, r

\* malloc and the first assignments of Insert.
Made(c, d, e, k, hash, n) ==
    /\ d \in States
    /\ d.key = [c.key EXCEPT ![e] = k] /\ d.hash = [c.hash EXCEPT ![e] = hash]
    /\ d.charge = [c.charge EXCEPT ![e] = n]
    /\ d.in_cache = [c.in_cache EXCEPT ![e] = FALSE] /\ d.refs = [c.refs EXCEPT ![e] = 1]
    /\ d.usage_ = c.usage_ /\ SameLists(c, d) /\ SameTables(c, d)

LEMMA MakeEffect ==
    ASSUME NEW c \in States, NEW e \in Entries, NEW k \in Keys, NEW hash \in Nat, NEW n \in Nat,
           NEW d, d = [c EXCEPT !.key[e] = k, !.hash[e] = hash, !.charge[e] = n, !.in_cache[e] = FALSE, !.refs[e] = 1]
    PROVE  Made(c, d, e, k, hash, n)
<1> DEFINE ke == [c.key EXCEPT ![e] = k]
           h == [c.hash EXCEPT ![e] = hash]
           ch == [c.charge EXCEPT ![e] = n]
           i == [c.in_cache EXCEPT ![e] = FALSE]
           r == [c.refs EXCEPT ![e] = 1]
<1>1. /\ c.key \in [Entries -> Keys \cup {Nil}] /\ c.charge \in [Entries -> Nat] /\ c.hash \in [Entries -> Nat]
      /\ c.refs \in [Entries -> Int] /\ c.in_cache \in [Entries -> BOOLEAN]
  BY DEF States
<1>2. ke \in [Entries -> Keys \cup {Nil}] /\ ch \in [Entries -> Nat] /\ h \in [Entries -> Nat] /\ r \in [Entries -> Int]
  BY <1>1
<1>3. i \in [Entries -> BOOLEAN]
  BY <1>1
<1>4. d = [c EXCEPT !.key = ke, !.hash = h, !.charge = ch, !.in_cache = i, !.refs = r]
  OBVIOUS
<1> HIDE DEF ke, h, ch, i, r
<1>5. d \in States
  BY ZenonT(60), <1>2, <1>3, <1>4 DEF States
<1>6. d.key = ke /\ d.hash = h /\ d.charge = ch /\ d.in_cache = i /\ d.refs = r /\ d.usage_ = c.usage_
  BY <1>4 DEF States
<1>7. SameLists(c, d) /\ SameTables(c, d)
  BY <1>4 DEF States, SameLists, SameTables
<1> QED
  BY <1>5, <1>6, <1>7 DEF Made, ke, h, ch, i, r

\* The entries a record has cached.
CachedOf(c) == {e \in Entries : c.in_cache[e]}

\* e leaves the cache, or joins it.
Uncaches(c, d, e) == d.in_cache = [c.in_cache EXCEPT ![e] = FALSE]
Caches(c, d, e) == d.in_cache = [c.in_cache EXCEPT ![e] = TRUE]

LEMMA UncachesIs ==
    ASSUME NEW c \in States, NEW d, NEW e \in Entries, Uncaches(c, d, e)
    PROVE  CachedOf(d) = CachedOf(c) \ {e}
<1>1. c.in_cache \in [Entries -> BOOLEAN]
  BY DEF States
<1>2. ~ d.in_cache[e] /\ \A x \in Entries : x # e => d.in_cache[x] = c.in_cache[x]
  BY <1>1, Zenon DEF Uncaches
<1> QED
  BY <1>2, Zenon DEF CachedOf

LEMMA CachesIs ==
    ASSUME NEW c \in States, NEW d, NEW e \in Entries, Caches(c, d, e)
    PROVE  CachedOf(d) = CachedOf(c) \cup {e}
<1>1. c.in_cache \in [Entries -> BOOLEAN]
  BY DEF States
<1>2. d.in_cache[e] /\ \A x \in Entries : x # e => d.in_cache[x] = c.in_cache[x]
  BY <1>1, Zenon DEF Caches
<1> QED
  BY <1>2, Zenon DEF CachedOf

\* The pointers of an entry that is in no list do not matter.
LEMMA ListsForget ==
    ASSUME NEW c, NEW d, NEW P \in SUBSET Entries, NEW place, NEW e \in Entries, e \notin P,
           \A x \in Nodes : x # e => d.next[x] = c.next[x] /\ d.prev[x] = c.prev[x], Lists(c, P, place)
    PROVE  Lists(d, P, place) /\ \A h \in Heads : ListOf(d, h) = ListOf(c, h)
<1>1. ASSUME NEW h \in Heads PROVE Listed(d, h, {x \in P : place[x] = h}) /\ ListOf(d, h) = ListOf(c, h)
  <2> DEFINE t == ListOf(c, h)
             S == {x \in P : place[x] = h}
  <2>1. Listed(c, h, S)
    BY DEF Lists
  <2>2. t \in Seq(Entries) /\ Inj(t) /\ ToSet(t) = S /\ Ring(c.next, c.prev, h, t)
    BY <2>1 DEF Listed
  <2>3. h # e /\ h \in Nodes /\ e \notin S /\ S \subseteq Nodes
    BY HeadFacts DEF Nodes
  <2> HIDE DEF t, S
  <2>4. \A x \in {h} \cup ToSet(t) : d.next[x] = c.next[x] /\ d.prev[x] = c.prev[x]
    BY <2>2, <2>3
  <2>5. Ring(d.next, d.prev, h, t)
    BY <2>2, <2>4, RingFrame
  <2>6. Listed(d, h, ToSet(t)) /\ ListOf(d, h) = t
    BY <2>2, <2>5, ListedIs
  <2> QED
    BY <2>2, <2>6 DEF t, S
<1> QED
  BY <1>1 DEF Lists

(***************************************************************************)
(* Sums of charges.                                                        *)
(***************************************************************************)
\* A sum of natural numbers, counted in units.
Units(f, S) == {p \in S \X Nat : p[2] \in 1 .. f[p[1]]}

SumOf(f, S) == Cardinality(Units(f, S))

LEMMA UnitsOfOne ==
    ASSUME NEW x, NEW n \in Nat
    PROVE  IsFiniteSet({x} \X (1 .. n)) /\ Cardinality({x} \X (1 .. n)) = n
<1> DEFINE S == 1 .. n
           T == {x} \X S
           f == [i \in S |-> <<x, i>>]
<1>1. IsFiniteSet(S) /\ Cardinality(S) = n
  BY FS_Interval
<1>2. f \in [S -> T] /\ \A a, b \in S : f[a] = f[b] => a = b
  OBVIOUS
<1>3. \A t \in T : \E s \in S : f[s] = t
  OBVIOUS
<1>4. DOMAIN f = S
  OBVIOUS
<1> HIDE DEF f
<1>5. f \in Injection(S, T)
  BY <1>2, <1>4 DEF Injection, IsInjective
<1>6. f \in Surjection(S, T)
  BY <1>2, <1>3 DEF Surjection
<1>7. IsFiniteSet(T) /\ Cardinality(T) = Cardinality(S)
  <2> HIDE DEF S, T
  <2> QED
    BY <1>1, <1>5, <1>6, FS_Surjection
<1> QED
  BY <1>1, <1>7

LEMMA UnitsFinite ==
    ASSUME NEW S, IsFiniteSet(S), NEW f, \A x \in S : f[x] \in Nat
    PROVE  IsFiniteSet(Units(f, S))
<1> DEFINE g == [x \in S |-> {x} \X (1 .. f[x])]
           Q == {g[x] : x \in S}
<1>1. g \in Surjection(S, Q)
  BY DEF Surjection
<1>2. IsFiniteSet(Q)
  <2> HIDE DEF g, Q
  <2> QED
    BY <1>1, FS_Surjection
<1>3. \A q \in Q : IsFiniteSet(q)
  <2>1. ASSUME NEW x \in S PROVE IsFiniteSet(g[x])
    <3>1. g[x] = {x} \X (1 .. f[x])
      OBVIOUS
    <3>2. f[x] \in Nat
      OBVIOUS
    <3> HIDE DEF g
    <3> QED
      BY <3>1, <3>2, UnitsOfOne
  <2> HIDE DEF g
  <2> QED
    BY <2>1
<1>4. Units(f, S) = UNION Q
  <2>1. ASSUME NEW p \in Units(f, S) PROVE p \in UNION Q
    <3>1. p \in S \X Nat /\ p[2] \in 1 .. f[p[1]]
      BY <2>1 DEF Units
    <3>2. p[1] \in S /\ p \in {p[1]} \X (1 .. f[p[1]])
      BY <3>1
    <3>3. p \in g[p[1]]
      BY <3>2
    <3> HIDE DEF g
    <3> QED
      BY <3>2, <3>3
  <2>2. ASSUME NEW x \in S, NEW p \in g[x] PROVE p \in Units(f, S)
    <3>1. p \in {x} \X (1 .. f[x])
      BY <2>2
    <3>2. p \in S \X Nat /\ p[2] \in 1 .. f[p[1]]
      BY <3>1
    <3> QED
      BY <3>2 DEF Units
  <2> HIDE DEF g
  <2> QED
    BY <2>1, <2>2
<1> HIDE DEF Q, g
<1> QED
  BY <1>2, <1>3, <1>4, FS_UNION

LEMMA SumType ==
    ASSUME NEW S, IsFiniteSet(S), NEW f, \A x \in S : f[x] \in Nat
    PROVE  SumOf(f, S) \in Nat
BY UnitsFinite, FS_CardinalityType DEF SumOf

LEMMA SumEmpty ==
    ASSUME NEW f
    PROVE  SumOf(f, {}) = 0
<1>1. Units(f, {}) = {}
  BY DEF Units
<1> QED
  BY <1>1, FS_EmptySet DEF SumOf

LEMMA SumAdd ==
    ASSUME NEW S, IsFiniteSet(S), NEW f, NEW e, e \notin S, f[e] \in Nat, \A x \in S : f[x] \in Nat
    PROVE  SumOf(f, S \cup {e}) = SumOf(f, S) + f[e]
<1> DEFINE A == Units(f, S)
           B == {e} \X (1 .. f[e])
<1>1. IsFiniteSet(A) /\ IsFiniteSet(B) /\ Cardinality(B) = f[e]
  BY UnitsFinite, UnitsOfOne
<1>2. Units(f, S \cup {e}) = A \cup B
  <2>1. ASSUME NEW p \in Units(f, S \cup {e}) PROVE p \in A \cup B
    <3>1. p \in (S \cup {e}) \X Nat /\ p[2] \in 1 .. f[p[1]]
      BY <2>1 DEF Units
    <3>2. CASE p[1] = e
      BY <3>1, <3>2
    <3>3. CASE p[1] \in S
      <4>1. p \in S \X Nat
        BY <3>1, <3>3
      <4> QED
        BY <3>1, <4>1 DEF Units
    <3> QED
      BY <3>1, <3>2, <3>3
  <2>2. ASSUME NEW p \in A PROVE p \in Units(f, S \cup {e})
    BY <2>2 DEF Units
  <2>3. ASSUME NEW p \in B PROVE p \in Units(f, S \cup {e})
    BY <2>3 DEF Units
  <2> QED
    BY <2>1, <2>2, <2>3
<1>3. A \cap B = {}
  BY DEF Units
<1> HIDE DEF A, B
<1>4. Cardinality(A \cup B) = Cardinality(A) + Cardinality(B) - 0 /\ Cardinality(A) \in Nat
  BY <1>1, <1>3, FS_Union, FS_EmptySet, FS_CardinalityType
<1>41. Cardinality(A \cup B) = Cardinality(A) + f[e]
  <2>1. f[e] \in Nat
    OBVIOUS
  <2> QED
    BY <1>1, <1>4, <2>1
<1>5. Cardinality(Units(f, S \cup {e})) = Cardinality(A) + f[e]
  BY <1>2, <1>41
<1> QED
  BY <1>5 DEF A, SumOf

LEMMA SumRemove ==
    ASSUME NEW S, IsFiniteSet(S), NEW f, NEW e \in S, \A x \in S : f[x] \in Nat
    PROVE  SumOf(f, S \ {e}) = SumOf(f, S) - f[e] /\ SumOf(f, S \ {e}) \in Nat
<1> DEFINE R == S \ {e}
<1>1. IsFiniteSet(R) /\ e \notin R /\ R \cup {e} = S /\ \A x \in R : f[x] \in Nat
  BY FS_RemoveElement
<1> HIDE DEF R
<1>2. SumOf(f, R \cup {e}) = SumOf(f, R) + f[e] /\ SumOf(f, R) \in Nat
  BY <1>1, SumAdd, SumType
<1>3. SumOf(f, S) = SumOf(f, R) + f[e] /\ f[e] \in Nat
  BY <1>1, <1>2
<1>4. SumOf(f, R) = SumOf(f, S) - f[e]
  BY <1>2, <1>3
<1> QED
  BY <1>2, <1>4 DEF R

LEMMA SumSubset ==
    ASSUME NEW S, IsFiniteSet(S), NEW R, R \subseteq S, NEW f, \A x \in S : f[x] \in Nat
    PROVE  SumOf(f, R) <= SumOf(f, S) /\ SumOf(f, R) \in Nat
<1>1. Units(f, R) \subseteq Units(f, S) /\ IsFiniteSet(Units(f, S))
  BY UnitsFinite DEF Units
<1> QED
  BY <1>1, FS_Subset, FS_CardinalityType DEF SumOf

LEMMA SumSame ==
    ASSUME NEW S, NEW f, NEW g, \A x \in S : f[x] = g[x]
    PROVE  SumOf(f, S) = SumOf(g, S)
<1>1. Units(f, S) = Units(g, S)
  BY DEF Units
<1> QED
  BY <1>1 DEF SumOf

LEMMA SumDisjoint ==
    ASSUME NEW S, IsFiniteSet(S), NEW R, IsFiniteSet(R), S \cap R = {},
           NEW f, \A x \in S \cup R : f[x] \in Nat
    PROVE  SumOf(f, S \cup R) = SumOf(f, S) + SumOf(f, R)
<1> DEFINE A == Units(f, S)
           B == Units(f, R)
<1>1. IsFiniteSet(A) /\ IsFiniteSet(B)
  BY UnitsFinite
<1>2. Units(f, S \cup R) = A \cup B /\ A \cap B = {}
  BY DEF Units
<1> HIDE DEF A, B
<1>3. Cardinality(A \cup B) = Cardinality(A) + Cardinality(B) - 0 /\ Cardinality(A) \in Nat /\ Cardinality(B) \in Nat
  BY <1>1, <1>2, FS_Union, FS_EmptySet, FS_CardinalityType
<1>31. Cardinality(A \cup B) = Cardinality(A) + Cardinality(B)
  BY <1>3
<1>4. Cardinality(Units(f, S \cup R)) = Cardinality(A) + Cardinality(B)
  BY <1>2, <1>31
<1> QED
  BY <1>4 DEF SumOf, A, B

\* The recursive function of MapThenSumSet.
IsSum(w, f, S) ==
    w = [s \in SUBSET S |-> IF s = {} THEN 0 ELSE LET x == CHOOSE x \in s : TRUE IN f[x] + w[s \ {x}]]

LEMMA SumIs ==
    ASSUME NEW S, IsFiniteSet(S), NEW f, \A x \in S : f[x] \in Nat
    PROVE  (CHOOSE w : IsSum(w, f, S))[S] = SumOf(f, S)
<1> DEFINE pick(s) == CHOOSE x \in s : TRUE
           g == [s \in SUBSET S |-> SumOf(f, s)]
<1>1. ASSUME NEW s \in SUBSET S, s # {}
      PROVE  /\ pick(s) \in s /\ s \ {pick(s)} \in SUBSET S
             /\ SumOf(f, s) = f[pick(s)] + SumOf(f, s \ {pick(s)})
             /\ Cardinality(s \ {pick(s)}) = Cardinality(s) - 1 /\ IsFiniteSet(s)
  <2>1. pick(s) \in s
    BY <1>1
  <2> HIDE DEF pick
  <2>2. IsFiniteSet(s) /\ \A x \in s : f[x] \in Nat
    BY FS_Subset
  <2>3. SumOf(f, s \ {pick(s)}) = SumOf(f, s) - f[pick(s)] /\ SumOf(f, s) \in Nat
    BY <2>1, <2>2, SumRemove, SumType
  <2>4. f[pick(s)] \in Nat
    BY <2>1, <2>2
  <2>5. Cardinality(s \ {pick(s)}) = Cardinality(s) - 1
    BY <2>1, <2>2, FS_RemoveElement
  <2> QED
    BY <2>1, <2>2, <2>3, <2>4, <2>5
<1>2. IsSum(g, f, S)
  <2>1. \A s \in SUBSET S : g[s] = SumOf(f, s)
    OBVIOUS
  <2>2. g = [s \in SUBSET S |-> g[s]]
    OBVIOUS
  <2> HIDE DEF g, pick
  <2>3. \A s \in SUBSET S : g[s] = IF s = {} THEN 0 ELSE f[pick(s)] + g[s \ {pick(s)}]
    BY <1>1, <2>1, SumEmpty
  <2>4. g = [s \in SUBSET S |-> IF s = {} THEN 0 ELSE f[pick(s)] + g[s \ {pick(s)}]]
    BY <2>2, <2>3
  <2> QED
    BY <2>4 DEF IsSum, pick
<1> DEFINE w == CHOOSE w : IsSum(w, f, S)
<1>3. IsSum(w, f, S)
  BY <1>2
<1> HIDE DEF w, g
<1>4. w = [s \in SUBSET S |-> IF s = {} THEN 0 ELSE f[pick(s)] + w[s \ {pick(s)}]]
  BY <1>3 DEF IsSum
<1> HIDE DEF pick
<1>5. \A s \in SUBSET S : w[s] = IF s = {} THEN 0 ELSE f[pick(s)] + w[s \ {pick(s)}]
  BY <1>4
<1> DEFINE N == Cardinality(S)
           Z == {n \in 0 .. N : \A s \in SUBSET S : Cardinality(s) = n => w[s] = SumOf(f, s)}
<1>6. N \in Nat /\ N \in 0 .. N
  BY FS_CardinalityType
<1>7. 0 \in Z
  <2>1. ASSUME NEW s \in SUBSET S, Cardinality(s) = 0 PROVE w[s] = SumOf(f, s)
    <3>1. s = {}
      BY <2>1, FS_Subset, FS_EmptySet
    <3> QED
      BY <1>5, <3>1, SumEmpty
  <2> QED
    BY <1>6, <2>1
<1>8. ASSUME NEW n \in 1 .. N, n - 1 \in Z PROVE n \in Z
  <2>1. ASSUME NEW s \in SUBSET S, Cardinality(s) = n PROVE w[s] = SumOf(f, s)
    <3>1. s # {}
      <4>1. n # 0
        OBVIOUS
      <4> QED
        BY <2>1, <4>1, FS_EmptySet
    <3>2. Cardinality(s \ {pick(s)}) = n - 1 /\ s \ {pick(s)} \in SUBSET S
      BY <1>1, <2>1, <3>1
    <3>3. w[s \ {pick(s)}] = SumOf(f, s \ {pick(s)})
      BY <1>8, <3>2
    <3> QED
      BY <1>1, <1>5, <3>1, <3>3
  <2>2. n \in 0 .. N
    BY <1>6
  <2> QED
    BY <2>1, <2>2
<1> HIDE DEF Z, N
<1>9. N \in Z
  BY <1>6, <1>7, <1>8, StepByStep
<1>10. w[S] = SumOf(f, S)
  BY <1>9 DEF Z, N
<1> QED
  BY <1>10 DEF w

(***************************************************************************)
(* The invariant of the shards, and FinishErase.                           *)
(***************************************************************************)
LEMMA ShardIs ==
    ASSUME NEW h \in 0 .. HashRange - 1
    PROVE  Shard(h) \in Shards
<1> DEFINE K == kNumShards
           q == HashRange \div K
           r == h \div q
<1>1. K \in Nat \ {0} /\ HashRange \in Nat \ {0} /\ HashRange % K = 0
  BY CacheAssumption
<1>2. q \in Nat /\ HashRange = K * q
  BY <1>1
<1> HIDE DEF q, K
<1>3. q # 0
  <2>1. K * 0 = 0
    BY <1>1
  <2> QED
    BY <1>1, <1>2, <2>1
<1>4. r \in Nat /\ q * r <= h
  BY <1>1, <1>2, <1>3
<1> HIDE DEF r
<1>5. ASSUME r >= K PROVE FALSE
  <2>1. q * r >= q * K
    BY <1>1, <1>2, <1>3, <1>4, <1>5
  <2>2. q * K = K * q /\ h < K * q
    BY <1>1, <1>2
  <2>3. q * r \in Nat /\ K * q \in Nat /\ h \in Nat
    BY <1>1, <1>2, <1>4
  <2> QED
    BY <1>4, <2>1, <2>2, <2>3
<1>6. r \in 0 .. K - 1
  BY <1>1, <1>4, <1>5
<1> QED
  BY <1>6 DEF Shard, Shards, r, q, K

\* The parts of the invariant of the shards, given the hash hs and the handles held.
Hashed(c, hs) ==
    \A e \in Entries : c.hash[e] \in 0 .. HashRange - 1 /\ (e \in CachedOf(c) => c.key[e] \in Keys /\ c.hash[e] = hs[c.key[e]])

UniqueIn(c, T) == \A e, f \in T : c.key[e] = c.key[f] => e = f

RefsOK(c, held) ==
    \A e \in Entries : c.refs[e] = held[e] + (IF e \in CachedOf(c) THEN 1 ELSE 0)

PlaceOf(c, held) ==
    [e \in Entries |-> IF held[e] = 0 THEN lru_(Shard(c.hash[e])) ELSE in_use_(Shard(c.hash[e]))]

UsageOK(c) == \A s \in Shards : c.usage_[s] = SumOf(c.charge, InShard(c, CachedOf(c), s))

Sound(c, held, hs) ==
    /\ c \in States /\ Hashed(c, hs) /\ RefsOK(c, held) /\ UsageOK(c)
    /\ Lists(c, CachedOf(c), PlaceOf(c, held))

ShardsOK(c, held, hs) == Sound(c, held, hs) /\ TableOK(c, CachedOf(c)) /\ UniqueIn(c, CachedOf(c))

LEMMA PlaceIs ==
    ASSUME NEW c \in States, NEW held, NEW hs, Hashed(c, hs)
    PROVE  PlaceOf(c, held) \in [Entries -> Heads]
<1>1. \A e \in Entries : Shard(c.hash[e]) \in Shards
  BY ShardIs DEF Hashed
<1> QED
  BY <1>1, HeadFacts DEF PlaceOf

\* d is c without e in its lists and in its counts; its memory is freed if nobody holds it.
Erased(c, d, held, e) ==
    /\ d \in States
    /\ CachedOf(d) = CachedOf(c) \ {e}
    /\ d.refs = [c.refs EXCEPT ![e] = held[e]]
    /\ d.usage_ = [c.usage_ EXCEPT ![Shard(c.hash[e])] = c.usage_[Shard(c.hash[e])] - c.charge[e]]
    /\ \A x \in Entries : x # e => d.key[x] = c.key[x] /\ d.hash[x] = c.hash[x] /\ d.charge[x] = c.charge[x]
    /\ d.hash[e] \in {0, c.hash[e]}
    /\ Lists(d, CachedOf(c) \ {e}, PlaceOf(c, held))
    /\ LeftList(c, d, PlaceOf(c, held)[e], e)

LEMMA FinishEraseEffect ==
    ASSUME NEW c, NEW held \in [Entries -> Nat], NEW hs, Sound(c, held, hs), NEW e \in CachedOf(c),
           NEW s, s = Shard(c.hash[e]), NEW d, d = FinishErase(c, s, e)
    PROVE  Erased(c, d, held, e) /\ SameTables(c, d)
<1> DEFINE P == CachedOf(c)
           place == PlaceOf(c, held)
           c1 == LRU_Remove(c, e)
           u == c.usage_[s] - c.charge[e]
           c2 == [c1 EXCEPT !.in_cache[e] = FALSE, !.usage_[s] = u]
           c3 == [c2 EXCEPT !.refs[e] = held[e]]
<1>1. c \in States /\ Hashed(c, hs) /\ RefsOK(c, held) /\ Lists(c, P, place)
  BY DEF Sound
<1>2. e \in Entries /\ P \in SUBSET Entries /\ e \in P
  BY DEF CachedOf
<1>3. s \in Shards /\ place \in [Entries -> Heads] /\ e # Nil
  BY <1>1, <1>2, ShardIs, PlaceIs, TableAssumption DEF Hashed
<1>4. u \in Int /\ held[e] \in Nat /\ c.refs[e] = held[e] + 1
  BY <1>1, <1>2, <1>3 DEF States, RefsOK
<1>5. d = Unref([c1 EXCEPT !.in_cache[e] = FALSE, !.usage_[s] = @ - c.charge[e]], s, e)
  BY <1>3 DEF FinishErase
<1>6. c1 = LRU_Remove(c, e)
  OBVIOUS
<1> HIDE DEF P, place, c1
<1>7. /\ c1 \in States /\ SameTables(c, c1) /\ SameData(c, c1) /\ SameCounts(c, c1)
      /\ Lists(c1, P \ {e}, place) /\ LeftList(c, c1, place[e], e)
  BY <1>1, <1>2, <1>3, <1>6, ListsRemove
<1>8. d = Unref(c2, s, e)
  <2>1. c1.usage_[s] = c.usage_[s]
    BY <1>7 DEF SameCounts
  <2> QED
    BY <1>5, <2>1
<1> HIDE DEF u
<1>9. Marked(c1, c2, s, e, FALSE, u)
  <2>1. c2 = [c1 EXCEPT !.in_cache[e] = FALSE, !.usage_[s] = u]
    OBVIOUS
  <2> HIDE DEF c2
  <2> QED
    BY <1>2, <1>3, <1>4, <1>7, <2>1, UnmarkEffect
<1> HIDE DEF c2
<1>10. /\ c2 \in States /\ c2.in_cache = [c.in_cache EXCEPT ![e] = FALSE] /\ c2.usage_ = [c.usage_ EXCEPT ![s] = u]
       /\ c2.refs = c.refs /\ SameTables(c, c2) /\ SameData(c, c2)
       /\ c2.next = c1.next /\ c2.prev = c1.prev
  BY <1>7, <1>9 DEF Marked, SameTables, SameData, SameCounts, SameLists
<1>11. ~ c2.in_cache[e] /\ c2.refs[e] - 1 = held[e]
  <2>1. c.in_cache \in [Entries -> BOOLEAN]
    BY <1>1 DEF States
  <2>2. ~ c2.in_cache[e]
    BY <1>2, <1>10, <2>1, Zenon
  <2>3. c2.refs[e] - 1 = held[e]
    BY <1>4, <1>10
  <2> QED
    BY <2>2, <2>3
<1>12. RefsSet(c2, c3, e, held[e]) /\ c3 = [c2 EXCEPT !.refs[e] = @ - 1]
  <2>1. c3 = [c2 EXCEPT !.refs[e] = held[e]]
    OBVIOUS
  <2>2. c3 = [c2 EXCEPT !.refs[e] = @ - 1]
    BY <1>11
  <2> HIDE DEF c3
  <2>3. held[e] \in Int
    BY <1>4
  <2> QED
    BY <1>2, <1>10, <2>1, <2>2, <2>3, RefsEffect
<1> HIDE DEF c3
<1>13. /\ c3 \in States /\ c3.refs = [c.refs EXCEPT ![e] = held[e]]
       /\ c3.in_cache = [c.in_cache EXCEPT ![e] = FALSE] /\ c3.usage_ = [c.usage_ EXCEPT ![s] = u]
       /\ SameTables(c, c3) /\ SameData(c, c3) /\ c3.next = c1.next /\ c3.prev = c1.prev
  BY <1>10, <1>12 DEF RefsSet, SameTables, SameData, SameLists
<1>14. ~ c3.in_cache[e] /\ c3.refs[e] = held[e]
  <2>1. c3.in_cache = c2.in_cache /\ c2.refs \in [Entries -> Int] /\ c3.refs = [c2.refs EXCEPT ![e] = held[e]]
    BY <1>10, <1>12 DEF RefsSet, States
  <2>2. c3.refs[e] = held[e]
    BY <1>2, <2>1
  <2> QED
    BY <1>11, <2>1, <2>2
<1>15. d = IF held[e] = 0 THEN Free(c3, e) ELSE c3
  BY <1>8, <1>12, <1>14 DEF Unref
<1>16. CachedOf(c3) = P \ {e}
  <2>1. Uncaches(c, c3, e)
    BY <1>13 DEF Uncaches
  <2> QED
    BY <1>1, <1>2, <2>1, UncachesIs DEF P
<1>17. Lists(c3, P \ {e}, place) /\ \A g \in Heads : ListOf(c3, g) = ListOf(c1, g)
  <2>1. SameLists(c1, c3) /\ P \ {e} \in SUBSET Entries
    BY <1>2, <1>13 DEF SameLists
  <2> QED
    BY <1>7, <2>1, ListsSame
<1>18. /\ d \in States /\ SameTables(c3, d) /\ d.refs = c3.refs /\ d.usage_ = c3.usage_ /\ CachedOf(d) = CachedOf(c3)
       /\ \A x \in Entries : x # e => d.key[x] = c3.key[x] /\ d.hash[x] = c3.hash[x] /\ d.charge[x] = c3.charge[x]
       /\ d.hash[e] \in {0, c3.hash[e]}
       /\ Lists(d, P \ {e}, place) /\ \A g \in Heads : ListOf(d, g) = ListOf(c3, g)
  <2>1. CASE held[e] # 0
    <3>1. d = c3
      BY <1>15, <2>1
    <3> QED
      BY <1>13, <1>17, <3>1 DEF SameTables
  <2>2. CASE held[e] = 0
    <3>1. d = Free(c3, e)
      BY <1>15, <2>2
    <3>2. Freed(c3, d, e)
      BY <1>2, <1>13, <3>1, FreeEffect
    <3>3. /\ c3.key \in [Entries -> Keys \cup {Nil}] /\ c3.charge \in [Entries -> Nat] /\ c3.hash \in [Entries -> Nat]
          /\ c3.next \in [Nodes -> Nodes \cup {Nil}] /\ c3.prev \in [Nodes -> Nodes \cup {Nil}]
      BY <1>13 DEF States
    <3>4. /\ d \in States /\ SameTables(c3, d) /\ d.refs = c3.refs /\ d.usage_ = c3.usage_ /\ d.in_cache = c3.in_cache
      BY <3>2 DEF Freed, SameCounts
    <3>5. /\ \A x \in Entries : x # e => d.key[x] = c3.key[x] /\ d.hash[x] = c3.hash[x] /\ d.charge[x] = c3.charge[x]
          /\ d.hash[e] = 0
      BY <1>2, <3>2, <3>3 DEF Freed
    <3>6. \A x \in Nodes : x # e => d.next[x] = c3.next[x] /\ d.prev[x] = c3.prev[x]
      BY <3>2, <3>3 DEF Freed
    <3>7. Lists(d, P \ {e}, place) /\ \A g \in Heads : ListOf(d, g) = ListOf(c3, g)
      <4>1. P \ {e} \in SUBSET Entries /\ e \notin P \ {e}
        BY <1>2
      <4> QED
        BY <1>2, <1>17, <3>6, <4>1, ListsForget
    <3>8. CachedOf(d) = CachedOf(c3)
      BY <3>4 DEF CachedOf
    <3> QED
      BY <3>4, <3>5, <3>7, <3>8
  <2> QED
    BY <2>1, <2>2
<1>19. LeftList(c, d, place[e], e)
  <2>1. place[e] \in Heads
    BY <1>2, <1>3
  <2> QED
    BY <1>7, <1>17, <1>18, <2>1 DEF LeftList
<1>20. SameTables(c, d)
  BY <1>13, <1>18 DEF SameTables
<1>21. /\ \A x \in Entries : x # e => d.key[x] = c.key[x] /\ d.hash[x] = c.hash[x] /\ d.charge[x] = c.charge[x]
       /\ d.hash[e] \in {0, c.hash[e]}
  BY <1>13, <1>18 DEF SameData
<1>22. d.refs = [c.refs EXCEPT ![e] = held[e]] /\ d.usage_ = [c.usage_ EXCEPT ![s] = u] /\ CachedOf(d) = P \ {e}
  BY <1>13, <1>16, <1>18
<1> QED
  BY <1>18, <1>19, <1>20, <1>21, <1>22 DEF Erased, P, place, u

LEMMA ErasedSound ==
    ASSUME NEW c, NEW held \in [Entries -> Nat], NEW hs, Sound(c, held, hs), NEW e \in CachedOf(c),
           NEW d, Erased(c, d, held, e)
    PROVE  Sound(d, held, hs)
<1> DEFINE P == CachedOf(c)
           s == Shard(c.hash[e])
           u == c.usage_[s] - c.charge[e]
<1>1. c \in States /\ Hashed(c, hs) /\ RefsOK(c, held) /\ UsageOK(c)
  BY DEF Sound
<1>2. e \in Entries /\ P \in SUBSET Entries /\ e \in P
  BY DEF CachedOf
<1>3. /\ d \in States /\ CachedOf(d) = P \ {e} /\ d.refs = [c.refs EXCEPT ![e] = held[e]]
      /\ d.usage_ = [c.usage_ EXCEPT ![s] = u]
      /\ \A x \in Entries : x # e => d.key[x] = c.key[x] /\ d.hash[x] = c.hash[x] /\ d.charge[x] = c.charge[x]
      /\ d.hash[e] \in {0, c.hash[e]}
      /\ Lists(d, P \ {e}, PlaceOf(c, held))
  BY DEF Erased
<1>4. s \in Shards
  BY <1>1, <1>2, ShardIs DEF Hashed
<1> HIDE DEF P, s
<1>5. Hashed(d, hs)
  <2>1. 0 \in 0 .. HashRange - 1
    BY CacheAssumption
  <2>2. ASSUME NEW x \in Entries PROVE d.hash[x] \in 0 .. HashRange - 1
    BY <1>1, <1>3, <2>1 DEF Hashed
  <2>3. ASSUME NEW x \in Entries, x \in CachedOf(d) PROVE d.key[x] \in Keys /\ d.hash[x] = hs[d.key[x]]
    <3>1. x # e /\ x \in CachedOf(c)
      BY <1>3, <2>3 DEF P
    <3> QED
      BY <1>1, <1>3, <3>1 DEF Hashed
  <2> QED
    BY <2>2, <2>3 DEF Hashed
<1>6. RefsOK(d, held)
  <2>1. c.refs \in [Entries -> Int]
    BY <1>1 DEF States
  <2>2. ASSUME NEW x \in Entries PROVE d.refs[x] = held[x] + (IF x \in CachedOf(d) THEN 1 ELSE 0)
    <3>1. CASE x = e
      BY <1>3, <2>1, <3>1
    <3>2. CASE x # e
      <4>1. d.refs[x] = c.refs[x] /\ (x \in CachedOf(d) <=> x \in CachedOf(c))
        BY <1>3, <2>1, <3>2 DEF P
      <4> QED
        BY <1>1, <4>1 DEF RefsOK
    <3> QED
      BY <3>1, <3>2
  <2> QED
    BY <2>2 DEF RefsOK
<1>7. UsageOK(d)
  <2>1. c.usage_ \in [Shards -> Int] /\ c.charge \in [Entries -> Nat] /\ IsFiniteSet(Entries)
    BY <1>1, TableAssumption DEF States
  <2>2. ASSUME NEW r \in Shards PROVE d.usage_[r] = SumOf(d.charge, InShard(d, CachedOf(d), r))
    <3> DEFINE A == InShard(c, P, r)
               B == InShard(d, CachedOf(d), r)
    <3>1. A \subseteq Entries /\ IsFiniteSet(A) /\ \A x \in A : c.charge[x] \in Nat
      <4>1. A \subseteq Entries
        BY <1>2 DEF InShard
      <4> QED
        BY <2>1, <4>1, FS_Subset
    <3>2. B = A \ {e}
      BY <1>2, <1>3 DEF InShard
    <3>3. c.usage_[r] = SumOf(c.charge, A)
      BY <1>1 DEF UsageOK, P
    <3>4. e \in A <=> r = s
      BY <1>2 DEF InShard, s
    <3> HIDE DEF A, B
    <3>5. SumOf(d.charge, B) = SumOf(c.charge, B)
      <4>1. \A x \in B : d.charge[x] = c.charge[x]
        BY <1>3, <3>1, <3>2
      <4> QED
        BY <4>1, SumSame
    <3>6. CASE r = s
      <4>1. SumOf(c.charge, B) = SumOf(c.charge, A) - c.charge[e]
        BY <3>1, <3>2, <3>4, <3>6, SumRemove
      <4>2. d.usage_[r] = c.usage_[r] - c.charge[e]
        BY <1>3, <1>4, <2>1, <3>6
      <4> QED
        BY <3>3, <3>5, <4>1, <4>2 DEF B
    <3>7. CASE r # s
      <4>1. B = A
        BY <3>2, <3>4, <3>7
      <4>2. d.usage_[r] = c.usage_[r]
        BY <1>3, <2>1, <3>7
      <4> QED
        BY <3>3, <3>5, <4>1, <4>2 DEF B
    <3> QED
      BY <3>6, <3>7
  <2> QED
    BY <2>2 DEF UsageOK
<1>8. Lists(d, CachedOf(d), PlaceOf(d, held))
  <2>1. SameLists(d, d) /\ P \ {e} \in SUBSET Entries
    BY <1>2 DEF SameLists
  <2>2. \A x \in P \ {e} : PlaceOf(d, held)[x] = PlaceOf(c, held)[x]
    <3>1. \A x \in P \ {e} : x \in Entries /\ d.hash[x] = c.hash[x]
      BY <1>2, <1>3
    <3> QED
      BY <3>1 DEF PlaceOf
  <2>3. Lists(d, P \ {e}, PlaceOf(d, held))
    BY <1>3, <2>1, <2>2, ListsSame
  <2> QED
    BY <1>3, <2>3
<1> QED
  BY <1>3, <1>5, <1>6, <1>7, <1>8 DEF Sound

LEMMA FinishEraseIs ==
    ASSUME NEW c, NEW held \in [Entries -> Nat], NEW hs, Sound(c, held, hs), NEW e \in CachedOf(c),
           TableOK(c, CachedOf(c) \ {e}), UniqueIn(c, CachedOf(c) \ {e}),
           NEW s, s = Shard(c.hash[e]), NEW d, d = FinishErase(c, s, e)
    PROVE  ShardsOK(d, held, hs) /\ Erased(c, d, held, e)
<1>1. Erased(c, d, held, e) /\ SameTables(c, d)
  BY FinishEraseEffect
<1>2. Sound(d, held, hs)
  BY <1>1, ErasedSound
<1> DEFINE T == CachedOf(c) \ {e}
<1>3. T \subseteq Entries /\ e \notin T /\ CachedOf(d) = T
  BY <1>1 DEF CachedOf, Erased
<1> HIDE DEF T
<1>4. \A x \in T : d.hash[x] = c.hash[x] /\ d.key[x] = c.key[x]
  BY <1>1, <1>3 DEF Erased
<1>5. TableOK(c, T) /\ UniqueIn(c, T)
  BY DEF T
<1>6. TableOK(d, T)
  BY <1>1, <1>4, <1>5, TableSame
<1>7. UniqueIn(d, T)
  BY <1>4, <1>5 DEF UniqueIn
<1> QED
  BY <1>1, <1>2, <1>3, <1>6, <1>7 DEF ShardsOK

\* Moving from c to a record with the same lists, data and counts.
LEMMA SoundSame ==
    ASSUME NEW c, NEW held, NEW hs, Sound(c, held, hs),
           NEW d \in States, SameLists(c, d), SameData(c, d), SameCounts(c, d)
    PROVE  /\ Sound(d, held, hs) /\ CachedOf(d) = CachedOf(c) /\ PlaceOf(d, held) = PlaceOf(c, held)
           /\ \A h \in Heads : ListOf(d, h) = ListOf(c, h)
<1>1. CachedOf(d) = CachedOf(c)
  BY DEF CachedOf, SameCounts
<1>2. PlaceOf(d, held) = PlaceOf(c, held)
  BY DEF PlaceOf, SameData
<1>3. Hashed(d, hs) /\ RefsOK(d, held)
  BY <1>1 DEF Hashed, RefsOK, SameData, SameCounts, Sound
<1>4. UsageOK(d)
  BY <1>1 DEF UsageOK, SameData, SameCounts, Sound, InShard
<1>5. CachedOf(c) \in SUBSET Entries /\ Lists(c, CachedOf(c), PlaceOf(c, held))
  BY DEF CachedOf, Sound
<1>6. Lists(d, CachedOf(c), PlaceOf(c, held)) /\ \A h \in Heads : ListOf(d, h) = ListOf(c, h)
  BY <1>5, ListsSame
<1> QED
  BY <1>1, <1>2, <1>3, <1>4, <1>6 DEF Sound

\* Erased, seen from a record that differs in its tables.
LEMMA ErasedFrom ==
    ASSUME NEW c, NEW b, NEW d, NEW held, NEW e \in Entries, Erased(b, d, held, e),
           SameData(c, b), SameCounts(c, b), \A h \in Heads : ListOf(b, h) = ListOf(c, h),
           PlaceOf(c, held)[e] \in Heads
    PROVE  Erased(c, d, held, e)
<1>1. CachedOf(b) = CachedOf(c)
  BY DEF CachedOf, SameCounts
<1>2. PlaceOf(b, held) = PlaceOf(c, held)
  BY DEF PlaceOf, SameData
<1>3. LeftList(c, d, PlaceOf(c, held)[e], e)
  BY <1>2 DEF Erased, LeftList
<1> QED
  BY <1>1, <1>2, <1>3 DEF Erased, SameData, SameCounts

\* What Erase of a key does: found is the entry it looks up.
KeyErased(c, d, held, k, found) ==
    /\ found = Nil => d = c /\ \A f \in CachedOf(c) : c.key[f] # k
    /\ found # Nil => found \in CachedOf(c) /\ c.key[found] = k /\ Erased(c, d, held, found)

LEMMA EraseKeyIs ==
    ASSUME NEW c, NEW held \in [Entries -> Nat], NEW hs \in [Keys -> 0 .. HashRange - 1], ShardsOK(c, held, hs),
           NEW k \in Keys, NEW hash, hash = hs[k], NEW s, s = Shard(hash),
           NEW e, e = TableLookup(c, s, k, hash), NEW d, d = EraseKey(c, s, k, hash)
    PROVE  ShardsOK(d, held, hs) /\ KeyErased(c, d, held, k, e)
<1> DEFINE b == TableRemove(c, s, k, hash)
           P == CachedOf(c)
<1>1. c \in States /\ Sound(c, held, hs) /\ TableOK(c, P) /\ UniqueIn(c, P) /\ Hashed(c, hs)
  BY DEF ShardsOK, Sound
<1>2. s \in Shards /\ hash \in Nat /\ P \in SUBSET Entries
  BY ShardIs DEF CachedOf
<1>3. d = FinishErase(b, s, e) /\ b = TableRemove(c, s, k, hash)
  BY DEF EraseKey
<1> HIDE DEF b, P
<1>4. TableRemoved(c, b, P, k, hash, e)
  BY <1>1, <1>2, <1>3, TableRemoveIs
<1>5. CASE e = Nil
  <2>1. b = c /\ \A f \in P : ~ Match(c, f, k, hash)
    BY <1>4, <1>5 DEF TableRemoved
  <2>2. d = c
    BY <1>3, <1>5, <2>1 DEF FinishErase
  <2>3. \A f \in P : c.key[f] # k
    <3>1. \A f \in P : c.hash[f] = hs[c.key[f]]
      BY <1>1, <1>2 DEF Hashed, P
    <3> QED
      BY <2>1, <3>1 DEF Match
  <2> QED
    BY <1>5, <2>2, <2>3 DEF KeyErased, P
<1>6. CASE e # Nil
  <2>1. /\ e \in P /\ Match(c, e, k, hash) /\ b \in States /\ TableOK(b, P \ {e})
        /\ SameLists(c, b) /\ SameData(c, b) /\ SameCounts(c, b)
    BY <1>4, <1>6 DEF TableRemoved
  <2>2. /\ Sound(b, held, hs) /\ CachedOf(b) = P /\ PlaceOf(b, held) = PlaceOf(c, held)
        /\ \A h \in Heads : ListOf(b, h) = ListOf(c, h)
    BY <1>1, <2>1, SoundSame DEF P
  <2>3. s = Shard(b.hash[e]) /\ e \in CachedOf(b) /\ e \in Entries /\ c.key[e] = k
    BY <1>2, <2>1, <2>2 DEF Match, SameData
  <2>4. UniqueIn(b, CachedOf(b) \ {e})
    BY <1>1, <2>1, <2>2 DEF UniqueIn, SameData
  <2>5. TableOK(b, CachedOf(b) \ {e})
    BY <2>1, <2>2
  <2>6. ShardsOK(d, held, hs) /\ Erased(b, d, held, e)
    BY <1>3, <2>2, <2>3, <2>4, <2>5, FinishEraseIs
  <2>7. PlaceOf(c, held)[e] \in Heads
    <3>1. PlaceOf(c, held) \in [Entries -> Heads]
      BY <1>1, PlaceIs
    <3> QED
      BY <2>3, <3>1
  <2>8. Erased(c, d, held, e)
    BY <2>1, <2>2, <2>3, <2>6, <2>7, ErasedFrom
  <2> QED
    BY <1>6, <2>1, <2>3, <2>6, <2>8 DEF KeyErased, P
<1> QED
  BY <1>5, <1>6

(***************************************************************************)
(* Ref and Unref.                                                          *)
(***************************************************************************)
\* The same entries are cached, with the same data.
Kept(c, d) ==
    /\ d \in States /\ CachedOf(d) = CachedOf(c) /\ d.usage_ = c.usage_ /\ SameTables(c, d)
    /\ \A x \in CachedOf(c) : d.key[x] = c.key[x] /\ d.hash[x] = c.hash[x] /\ d.charge[x] = c.charge[x]
    /\ \A x \in Entries : d.hash[x] \in {0, c.hash[x]}

LEMMA KeptOK ==
    ASSUME NEW c, NEW held, NEW hs, ShardsOK(c, held, hs), NEW d, Kept(c, d),
           NEW held2, RefsOK(d, held2), Lists(d, CachedOf(d), PlaceOf(d, held2))
    PROVE  ShardsOK(d, held2, hs)
<1> DEFINE P == CachedOf(c)
<1>1. c \in States /\ Hashed(c, hs) /\ UsageOK(c) /\ TableOK(c, P) /\ UniqueIn(c, P)
  BY DEF ShardsOK, Sound
<1>2. /\ d \in States /\ CachedOf(d) = P /\ d.usage_ = c.usage_ /\ SameTables(c, d)
      /\ \A x \in P : d.key[x] = c.key[x] /\ d.hash[x] = c.hash[x] /\ d.charge[x] = c.charge[x]
      /\ \A x \in Entries : d.hash[x] \in {0, c.hash[x]}
  BY DEF Kept
<1>3. Hashed(d, hs)
  <2>1. 0 \in 0 .. HashRange - 1
    BY CacheAssumption
  <2>2. \A x \in Entries : d.hash[x] \in 0 .. HashRange - 1
    BY <1>1, <1>2, <2>1 DEF Hashed
  <2>3. \A x \in Entries : x \in P => d.key[x] \in Keys /\ d.hash[x] = hs[d.key[x]]
    BY <1>1, <1>2 DEF Hashed
  <2> QED
    BY <1>2, <2>2, <2>3 DEF Hashed
<1>4. UsageOK(d)
  <2>1. ASSUME NEW s \in Shards PROVE d.usage_[s] = SumOf(d.charge, InShard(d, P, s))
    <3>1. InShard(d, P, s) = InShard(c, P, s)
      BY <1>2 DEF InShard
    <3>2. \A x \in InShard(c, P, s) : d.charge[x] = c.charge[x]
      BY <1>2 DEF InShard
    <3>3. SumOf(d.charge, InShard(c, P, s)) = SumOf(c.charge, InShard(c, P, s))
      BY <3>2, SumSame
    <3> QED
      BY <1>1, <1>2, <3>1, <3>3 DEF UsageOK
  <2> QED
    BY <1>2, <2>1 DEF UsageOK
<1> HIDE DEF P
<1>5. TableOK(d, P)
  BY <1>1, <1>2, TableSame
<1>6. UniqueIn(d, P)
  BY <1>1, <1>2 DEF UniqueIn
<1> QED
  BY <1>2, <1>3, <1>4, <1>5, <1>6 DEF ShardsOK, Sound

\* What a step does to the idle entries of the shards.
IdleSame(c, d) == \A r \in Shards : ListOf(d, lru_(r)) = ListOf(c, lru_(r))

IdleLeft(c, d, s, e) ==
    /\ \E i \in 1 .. Len(ListOf(c, lru_(s))) :
            ListOf(c, lru_(s))[i] = e /\ ListOf(d, lru_(s)) = CutOut(ListOf(c, lru_(s)), i)
    /\ \A r \in Shards : r # s => ListOf(d, lru_(r)) = ListOf(c, lru_(r))

IdleJoined(c, d, s, e) ==
    /\ ListOf(d, lru_(s)) = Append(ListOf(c, lru_(s)), e)
    /\ \A r \in Shards : r # s => ListOf(d, lru_(r)) = ListOf(c, lru_(r))

\* e moves from one list to the other.
LEMMA MoveListIs ==
    ASSUME NEW c, NEW held \in [Entries -> Nat], NEW hs, Sound(c, held, hs), NEW e \in CachedOf(c),
           NEW h \in Heads, NEW d, d = LRU_Append(LRU_Remove(c, e), h, e),
           NEW place2, PlacedAt(PlaceOf(c, held), place2, CachedOf(c) \ {e}, e, h)
    PROVE  /\ d \in States /\ SameTables(c, d) /\ SameData(c, d) /\ SameCounts(c, d)
           /\ Lists(d, CachedOf(c), place2)
           /\ \E b : LeftList(c, b, PlaceOf(c, held)[e], e) /\ JoinedList(b, d, h, e)
<1> DEFINE b == LRU_Remove(c, e)
           P == CachedOf(c)
           place == PlaceOf(c, held)
<1>1. c \in States /\ Lists(c, P, place) /\ place \in [Entries -> Heads] /\ P \in SUBSET Entries /\ e \in P
  BY PlaceIs DEF Sound, CachedOf
<1>2. b = LRU_Remove(c, e) /\ d = LRU_Append(b, h, e) /\ PlacedAt(place, place2, P \ {e}, e, h)
  OBVIOUS
<1> HIDE DEF b, P, place
<1>3. /\ b \in States /\ SameTables(c, b) /\ SameData(c, b) /\ SameCounts(c, b)
      /\ Lists(b, P \ {e}, place) /\ LeftList(c, b, place[e], e)
  BY <1>1, <1>2, ListsRemove
<1>4. P \ {e} \in SUBSET Entries /\ e \notin P \ {e} /\ e \in Entries /\ (P \ {e}) \cup {e} = P
  BY <1>1
<1>5. /\ d \in States /\ SameTables(b, d) /\ SameData(b, d) /\ SameCounts(b, d)
      /\ Lists(d, (P \ {e}) \cup {e}, place2) /\ JoinedList(b, d, h, e)
  BY <1>2, <1>3, <1>4, ListsAppend
<1>6. SameTables(c, d) /\ SameData(c, d) /\ SameCounts(c, d) /\ Lists(d, P, place2)
  BY <1>3, <1>4, <1>5 DEF SameTables, SameData, SameCounts
<1> QED
  BY <1>3, <1>5, <1>6 DEF P, place

\* A handle more, or one less.
More(held, e) == [held EXCEPT ![e] = held[e] + 1]
Less(held, e) == [held EXCEPT ![e] = held[e] - 1]

LEMMA MovedIdle ==
    ASSUME NEW c, NEW d, NEW s \in Shards, NEW e
    PROVE  /\ (\E b : LeftList(c, b, lru_(s), e) /\ JoinedList(b, d, in_use_(s), e)) => IdleLeft(c, d, s, e)
           /\ (\E b : LeftList(c, b, in_use_(s), e) /\ JoinedList(b, d, lru_(s), e)) => IdleJoined(c, d, s, e)
<1>0. \A r \in Shards : /\ lru_(r) \in Heads /\ in_use_(r) \in Heads /\ lru_(r) # in_use_(s)
                        /\ (r # s => lru_(r) # lru_(s))
  BY HeadFacts
<1>1. ASSUME NEW b, LeftList(c, b, lru_(s), e), JoinedList(b, d, in_use_(s), e) PROVE IdleLeft(c, d, s, e)
  <2>1. \A r \in Shards : ListOf(d, lru_(r)) = ListOf(b, lru_(r))
    BY <1>0, <1>1 DEF JoinedList
  <2>2. \A r \in Shards : r # s => ListOf(b, lru_(r)) = ListOf(c, lru_(r))
    BY <1>0, <1>1 DEF LeftList
  <2> QED
    BY <1>1, <2>1, <2>2 DEF IdleLeft, LeftList
<1>2. ASSUME NEW b, LeftList(c, b, in_use_(s), e), JoinedList(b, d, lru_(s), e) PROVE IdleJoined(c, d, s, e)
  <2>1. \A r \in Shards : ListOf(b, lru_(r)) = ListOf(c, lru_(r))
    BY <1>0, <1>2 DEF LeftList
  <2>2. \A r \in Shards : r # s => ListOf(d, lru_(r)) = ListOf(b, lru_(r))
    BY <1>0, <1>2 DEF JoinedList
  <2> QED
    BY <1>2, <2>1, <2>2 DEF IdleJoined, JoinedList
<1> QED
  BY <1>1, <1>2

LEMMA RefIs ==
    ASSUME NEW c, NEW held \in [Entries -> Nat], NEW hs, ShardsOK(c, held, hs), NEW e \in CachedOf(c),
           NEW s, s = Shard(c.hash[e]), NEW d, d = Ref(c, s, e)
    PROVE  /\ ShardsOK(d, More(held, e), hs) /\ Kept(c, d) /\ SameData(c, d)
           /\ d.refs = [c.refs EXCEPT ![e] = held[e] + 2]
           /\ held[e] = 0 => IdleLeft(c, d, s, e)
           /\ held[e] # 0 => IdleSame(c, d)
<1> DEFINE P == CachedOf(c)
           held2 == More(held, e)
           c1 == IF held[e] = 0 THEN LRU_Append(LRU_Remove(c, e), in_use_(s), e) ELSE c
           place2 == PlaceOf(c, held2)
<1>1. c \in States /\ Sound(c, held, hs) /\ Hashed(c, hs) /\ RefsOK(c, held) /\ Lists(c, P, PlaceOf(c, held))
  BY DEF ShardsOK, Sound
<1>2. e \in Entries /\ P \in SUBSET Entries /\ e \in P /\ c.in_cache[e]
  BY DEF CachedOf
<1>3. s \in Shards /\ in_use_(s) \in Heads
  BY <1>1, <1>2, ShardIs, HeadFacts DEF Hashed
<1>4. c.refs[e] = held[e] + 1 /\ held[e] \in Nat
  BY <1>1, <1>2 DEF RefsOK
<1>5. held2 \in [Entries -> Nat] /\ held2[e] = held[e] + 1 /\ \A x \in Entries : x # e => held2[x] = held[x]
  BY <1>2 DEF More
<1>6. d = [c1 EXCEPT !.refs[e] = @ + 1]
  <2>1. (c.refs[e] = 1 /\ c.in_cache[e]) <=> held[e] = 0
    BY <1>2, <1>4
  <2> QED
    BY <2>1 DEF Ref
<1> HIDE DEF held2
<1>7. place2[e] = in_use_(s) /\ \A x \in P \ {e} : place2[x] = PlaceOf(c, held)[x]
  <2>1. held2[e] # 0
    BY <1>4, <1>5
  <2> QED
    BY <1>2, <1>5, <2>1 DEF PlaceOf
<1> HIDE DEF place2
<1>8. /\ c1 \in States /\ SameTables(c, c1) /\ SameData(c, c1) /\ SameCounts(c, c1) /\ Lists(c1, P, place2)
      /\ held[e] = 0 => IdleLeft(c, c1, s, e)
      /\ held[e] # 0 => IdleSame(c, c1)
  <2>1. CASE held[e] = 0
    <3>1. c1 = LRU_Append(LRU_Remove(c, e), in_use_(s), e)
      BY <2>1
    <3> HIDE DEF c1
    <3>2. PlacedAt(PlaceOf(c, held), place2, P \ {e}, e, in_use_(s)) /\ PlaceOf(c, held)[e] = lru_(s)
      BY <1>2, <1>7, <2>1 DEF PlacedAt, PlaceOf
    <3>3. /\ c1 \in States /\ SameTables(c, c1) /\ SameData(c, c1) /\ SameCounts(c, c1)
          /\ Lists(c1, P, place2)
          /\ \E b : LeftList(c, b, PlaceOf(c, held)[e], e) /\ JoinedList(b, c1, in_use_(s), e)
      BY <1>1, <1>2, <1>3, <3>1, <3>2, MoveListIs
    <3>4. IdleLeft(c, c1, s, e)
      BY <1>3, <3>2, <3>3, MovedIdle
    <3> QED
      BY <2>1, <3>3, <3>4
  <2>2. CASE held[e] # 0
    <3>1. c1 = c
      BY <2>2
    <3>2. \A x \in P : place2[x] = PlaceOf(c, held)[x]
      <4>1. PlaceOf(c, held)[e] = in_use_(s)
        BY <1>2, <2>2 DEF PlaceOf
      <4> QED
        BY <1>7, <4>1
    <3>3. SameLists(c, c) /\ SameTables(c, c) /\ SameData(c, c) /\ SameCounts(c, c)
      BY DEF SameLists, SameTables, SameData, SameCounts
    <3>4. Lists(c, P, place2)
      BY <1>1, <1>2, <3>2, <3>3, ListsSame
    <3> HIDE DEF c1
    <3> QED
      BY <1>1, <2>2, <3>1, <3>3, <3>4 DEF IdleSame
  <2> QED
    BY <2>1, <2>2
<1> HIDE DEF c1
<1>9. c1.refs[e] + 1 = held[e] + 2 /\ held[e] + 2 \in Int
  BY <1>4, <1>8 DEF SameCounts
<1>10. RefsSet(c1, d, e, held[e] + 2)
  <2> DEFINE n == held[e] + 2
  <2>1. n \in Int /\ d = [c1 EXCEPT !.refs[e] = n]
    BY <1>6, <1>9
  <2> HIDE DEF n
  <2>2. RefsSet(c1, d, e, n)
    BY <1>2, <1>8, <2>1, RefsEffect
  <2> QED
    BY <2>2 DEF n
<1>11. /\ d \in States /\ d.refs = [c.refs EXCEPT ![e] = held[e] + 2]
       /\ d.in_cache = c.in_cache /\ d.usage_ = c.usage_
       /\ SameLists(c1, d) /\ SameTables(c, d) /\ SameData(c, d)
  BY <1>8, <1>10 DEF RefsSet, SameTables, SameData, SameCounts
<1>12. CachedOf(d) = P
  BY <1>11 DEF CachedOf, P
<1>13. Kept(c, d)
  BY <1>11, <1>12 DEF Kept, SameData, P
<1>14. RefsOK(d, held2)
  <2>1. c.refs \in [Entries -> Int]
    BY <1>1 DEF States
  <2>2. ASSUME NEW x \in Entries PROVE d.refs[x] = held2[x] + (IF x \in CachedOf(d) THEN 1 ELSE 0)
    <3>1. CASE x = e
      BY <1>2, <1>4, <1>5, <1>11, <1>12, <2>1, <3>1
    <3>2. CASE x # e
      <4>1. d.refs[x] = c.refs[x] /\ held2[x] = held[x]
        BY <1>5, <1>11, <2>1, <3>2
      <4> QED
        BY <1>1, <1>12, <4>1 DEF RefsOK, P
    <3> QED
      BY <3>1, <3>2
  <2> QED
    BY <2>2 DEF RefsOK
<1>15. Lists(d, P, place2) /\ \A h \in Heads : ListOf(d, h) = ListOf(c1, h)
  BY <1>2, <1>8, <1>11, ListsSame
<1>16. PlaceOf(d, held2) = place2
  BY <1>11 DEF PlaceOf, place2, SameData
<1>17. ShardsOK(d, held2, hs)
  BY <1>12, <1>13, <1>14, <1>15, <1>16, KeptOK
<1>18. \A r \in Shards : ListOf(d, lru_(r)) = ListOf(c1, lru_(r))
  BY <1>15, HeadFacts
<1>19. (held[e] = 0 => IdleLeft(c, d, s, e)) /\ (held[e] # 0 => IdleSame(c, d))
  BY <1>3, <1>8, <1>18 DEF IdleLeft, IdleSame
<1> QED
  BY <1>11, <1>13, <1>17, <1>19 DEF held2

\* What the release of a handle does to the idle entries.
ReleasedIdle(c, d, held, s, e) ==
    IF held[e] = 1 /\ e \in CachedOf(c) THEN IdleJoined(c, d, s, e) ELSE IdleSame(c, d)

LEMMA ReleaseIs ==
    ASSUME NEW c, NEW held \in [Entries -> Nat], NEW hs, ShardsOK(c, held, hs), NEW e \in Entries, held[e] > 0,
           NEW s, s = Shard(c.hash[e]), NEW d, d = Unref(c, s, e)
    PROVE  /\ ShardsOK(d, Less(held, e), hs) /\ Kept(c, d)
           /\ d.refs = [c.refs EXCEPT ![e] = c.refs[e] - 1]
           /\ ReleasedIdle(c, d, held, s, e)
<1> DEFINE P == CachedOf(c)
           held2 == Less(held, e)
           c1 == [c EXCEPT !.refs[e] = @ - 1]
           n == c.refs[e] - 1
           place2 == PlaceOf(c, held2)
<1>1. /\ c \in States /\ Sound(c, held, hs) /\ Hashed(c, hs) /\ RefsOK(c, held)
      /\ Lists(c, P, PlaceOf(c, held)) /\ c.refs \in [Entries -> Int]
  BY DEF ShardsOK, Sound, States
<1>2. P \in SUBSET Entries /\ (e \in P <=> c.in_cache[e])
  BY DEF CachedOf
<1>3. s \in Shards /\ lru_(s) \in Heads
  BY <1>1, ShardIs, HeadFacts DEF Hashed
<1>4. n \in Int /\ held[e] \in Nat /\ (e \in P => n = held[e]) /\ (e \notin P => n = held[e] - 1)
  BY <1>1 DEF RefsOK
<1>5. held2 \in [Entries -> Nat] /\ held2[e] = held[e] - 1 /\ \A x \in Entries : x # e => held2[x] = held[x]
  BY <1>4 DEF Less
<1>6. d = IF c1.refs[e] = 0 THEN Free(c1, e)
          ELSE IF c1.in_cache[e] /\ c1.refs[e] = 1 THEN LRU_Append(LRU_Remove(c1, e), lru_(s), e)
          ELSE c1
  BY DEF Unref
<1> HIDE DEF held2, n, P
<1>7. RefsSet(c, c1, e, n)
  <2>1. c1 = [c EXCEPT !.refs[e] = n]
    BY DEF n
  <2> HIDE DEF c1
  <2> QED
    BY <1>1, <1>4, <2>1, RefsEffect
<1> HIDE DEF c1
<1>8. /\ c1 \in States /\ c1.refs = [c.refs EXCEPT ![e] = n] /\ c1.in_cache = c.in_cache /\ c1.usage_ = c.usage_
      /\ SameLists(c, c1) /\ SameTables(c, c1) /\ SameData(c, c1) /\ c1.refs[e] = n
  <2>1. c1.refs = [c.refs EXCEPT ![e] = n]
    BY <1>7 DEF RefsSet
  <2>2. c1.refs[e] = n
    BY <1>1, <2>1
  <2> QED
    BY <1>7, <2>2 DEF RefsSet
<1>9. CachedOf(c1) = P /\ PlaceOf(c1, held) = PlaceOf(c, held) /\ PlaceOf(c1, held2) = place2
  BY <1>8 DEF CachedOf, P, PlaceOf, SameData
<1>10. Lists(c1, P, PlaceOf(c, held)) /\ \A h \in Heads : ListOf(c1, h) = ListOf(c, h)
  BY <1>1, <1>2, <1>8, ListsSame
<1>11. d = IF n = 0 THEN Free(c1, e)
           ELSE IF e \in P /\ n = 1 THEN LRU_Append(LRU_Remove(c1, e), lru_(s), e)
           ELSE c1
  <2>1. c1.in_cache[e] <=> e \in P
    BY <1>2, <1>8
  <2> QED
    BY <1>6, <1>8, <2>1
\* What is left to show of d.
<1> DEFINE Good == /\ d \in States /\ d.refs = c1.refs /\ d.in_cache = c1.in_cache /\ d.usage_ = c1.usage_
                   /\ SameTables(c1, d)
                   /\ \A x \in P : d.key[x] = c1.key[x] /\ d.hash[x] = c1.hash[x] /\ d.charge[x] = c1.charge[x]
                   /\ \A x \in Entries : d.hash[x] \in {0, c1.hash[x]}
                   /\ Lists(d, P, place2)
                   /\ ReleasedIdle(c, d, held, s, e)
<1>12. ASSUME n # 0, ~ (e \in P /\ n = 1) PROVE Good
  <2>1. d = c1
    BY <1>11, <1>12
  <2>2. \A x \in P : place2[x] = PlaceOf(c, held)[x]
    <3>1. \A x \in P : held2[x] = 0 <=> held[x] = 0
      BY <1>2, <1>4, <1>5, <1>12
    <3> QED
      BY <1>2, <3>1 DEF PlaceOf
  <2>3. SameLists(c1, c1) /\ SameTables(c1, c1)
    BY DEF SameLists, SameTables
  <2>4. Lists(c1, P, place2)
    BY <1>2, <1>10, <2>2, <2>3, ListsSame
  <2>5. ~ (held[e] = 1 /\ e \in P)
    BY <1>4, <1>12
  <2>6. IdleSame(c, c1)
    BY <1>10, HeadFacts DEF IdleSame
  <2>7. ReleasedIdle(c, c1, held, s, e)
    BY <2>5, <2>6 DEF ReleasedIdle, P
  <2> QED
    BY <1>8, <2>1, <2>3, <2>4, <2>7
<1>13. ASSUME n # 0, e \in P, n = 1 PROVE Good
  <2>1. d = LRU_Append(LRU_Remove(c1, e), lru_(s), e)
    BY <1>11, <1>13
  <2>2. held[e] = 1 /\ held2[e] = 0
    BY <1>4, <1>5, <1>13
  <2>3. place2[e] = lru_(s) /\ \A x \in P \ {e} : place2[x] = PlaceOf(c, held)[x]
    BY <1>2, <1>5, <2>2 DEF PlaceOf
  <2>4. PlaceOf(c, held)[e] = in_use_(s)
    BY <2>2 DEF PlaceOf
  <2> DEFINE b == LRU_Remove(c1, e)
             place == PlaceOf(c, held)
  <2>5. place \in [Entries -> Heads]
    BY <1>1, PlaceIs
  <2>6. b = LRU_Remove(c1, e) /\ d = LRU_Append(b, lru_(s), e) /\ PlacedAt(place, place2, P \ {e}, e, lru_(s))
    BY <2>1, <2>3 DEF PlacedAt
  <2>61. Lists(c1, P, place) /\ place[e] = in_use_(s)
    BY <1>10, <2>4
  <2> HIDE DEF b, place, place2
  <2>7. /\ b \in States /\ SameTables(c1, b) /\ SameData(c1, b) /\ SameCounts(c1, b)
        /\ Lists(b, P \ {e}, place) /\ LeftList(c1, b, place[e], e)
    BY <1>2, <1>8, <1>13, <2>5, <2>6, <2>61, ListsRemove
  <2>8. P \ {e} \in SUBSET Entries /\ e \notin P \ {e} /\ (P \ {e}) \cup {e} = P
    BY <1>2, <1>13
  <2>9. /\ d \in States /\ SameTables(b, d) /\ SameData(b, d) /\ SameCounts(b, d)
        /\ Lists(d, (P \ {e}) \cup {e}, place2) /\ JoinedList(b, d, lru_(s), e)
    BY <1>3, <2>6, <2>7, <2>8, ListsAppend
  <2>10. IdleJoined(c1, d, s, e)
    BY <1>3, <2>61, <2>7, <2>9, MovedIdle
  <2>11. IdleJoined(c, d, s, e)
    <3>1. \A r \in Shards : ListOf(c1, lru_(r)) = ListOf(c, lru_(r))
      BY <1>10, HeadFacts
    <3> QED
      BY <1>3, <2>10, <3>1 DEF IdleJoined
  <2>12. ReleasedIdle(c, d, held, s, e)
    BY <1>13, <2>2, <2>11 DEF ReleasedIdle, P
  <2>13. SameTables(c1, d) /\ SameData(c1, d) /\ SameCounts(c1, d) /\ Lists(d, P, place2)
    BY <2>7, <2>8, <2>9 DEF SameTables, SameData, SameCounts
  <2> QED
    BY <2>9, <2>12, <2>13 DEF SameData, SameCounts
<1>14. ASSUME n = 0 PROVE Good
  <2>1. d = Free(c1, e) /\ e \notin P
    BY <1>4, <1>11, <1>14
  <2>2. Freed(c1, d, e)
    BY <1>8, <2>1, FreeEffect
  <2>3. /\ c1.key \in [Entries -> Keys \cup {Nil}] /\ c1.charge \in [Entries -> Nat] /\ c1.hash \in [Entries -> Nat]
        /\ c1.next \in [Nodes -> Nodes \cup {Nil}] /\ c1.prev \in [Nodes -> Nodes \cup {Nil}]
    BY <1>8 DEF States
  <2>4. d \in States /\ d.refs = c1.refs /\ d.in_cache = c1.in_cache /\ d.usage_ = c1.usage_ /\ SameTables(c1, d)
    BY <2>2 DEF Freed, SameCounts
  <2>5. /\ \A x \in Entries : x # e => d.key[x] = c1.key[x] /\ d.hash[x] = c1.hash[x] /\ d.charge[x] = c1.charge[x]
        /\ d.hash[e] = 0
    BY <2>2, <2>3 DEF Freed
  <2>6. /\ \A x \in P : d.key[x] = c1.key[x] /\ d.hash[x] = c1.hash[x] /\ d.charge[x] = c1.charge[x]
        /\ \A x \in Entries : d.hash[x] \in {0, c1.hash[x]}
    BY <1>2, <2>1, <2>5
  <2>7. \A x \in Nodes : x # e => d.next[x] = c1.next[x] /\ d.prev[x] = c1.prev[x]
    BY <2>2, <2>3 DEF Freed
  <2>8. Lists(d, P, PlaceOf(c, held)) /\ \A h \in Heads : ListOf(d, h) = ListOf(c1, h)
    BY <1>2, <1>10, <2>1, <2>7, ListsForget
  <2>9. \A x \in P : place2[x] = PlaceOf(c, held)[x]
    <3>1. \A x \in P : x \in Entries /\ held2[x] = held[x]
      BY <1>2, <1>5, <2>1
    <3> QED
      BY <3>1 DEF PlaceOf
  <2>10. Lists(d, P, place2)
    <3>1. SameLists(d, d)
      BY DEF SameLists
    <3> QED
      BY <1>2, <2>8, <2>9, <3>1, ListsSame
  <2>11. IdleSame(c, d)
    BY <1>10, <2>8, HeadFacts DEF IdleSame
  <2>12. ReleasedIdle(c, d, held, s, e)
    BY <2>1, <2>11 DEF ReleasedIdle, P
  <2> QED
    BY <2>4, <2>6, <2>10, <2>12
<1>15. Good
  BY <1>12, <1>13, <1>14
<1>16. CachedOf(d) = P /\ d.refs = [c.refs EXCEPT ![e] = n]
  BY <1>8, <1>9, <1>15 DEF CachedOf
<1>17. Kept(c, d)
  BY <1>8, <1>15, <1>16 DEF Kept, SameTables, SameData, P
<1>18. RefsOK(d, held2)
  <2>1. ASSUME NEW x \in Entries PROVE d.refs[x] = held2[x] + (IF x \in CachedOf(d) THEN 1 ELSE 0)
    <3>1. CASE x = e
      <4>1. d.refs[x] = n
        BY <1>1, <1>16, <3>1
      <4> QED
        BY <1>4, <1>5, <1>16, <3>1, <4>1
    <3>2. CASE x # e
      <4>1. d.refs[x] = c.refs[x] /\ held2[x] = held[x]
        BY <1>1, <1>5, <1>16, <3>2
      <4> QED
        BY <1>1, <1>16, <4>1 DEF RefsOK, P
    <3> QED
      BY <3>1, <3>2
  <2> QED
    BY <2>1 DEF RefsOK
<1>19. Lists(d, P, PlaceOf(d, held2))
  <2>1. \A x \in P : PlaceOf(d, held2)[x] = place2[x]
    <3>1. \A x \in P : x \in Entries /\ d.hash[x] = c.hash[x]
      BY <1>2, <1>17 DEF Kept, P
    <3> QED
      BY <3>1 DEF PlaceOf
  <2>2. SameLists(d, d) /\ Lists(d, P, place2)
    BY <1>15 DEF SameLists
  <2> HIDE DEF place2
  <2> QED
    BY <1>2, <2>1, <2>2, ListsSame
<1>20. ShardsOK(d, held2, hs)
  BY <1>16, <1>17, <1>18, <1>19, KeptOK
<1> QED
  BY <1>15, <1>16, <1>17, <1>20 DEF held2, n

(***************************************************************************)
(* The loop that evicts idle entries.                                      *)
(***************************************************************************)
\* The idle entries of a shard.
LEMMA IdleIs ==
    ASSUME NEW c, NEW held \in [Entries -> Nat], NEW hs, Sound(c, held, hs), NEW s \in Shards,
           NEW t, t = ListOf(c, lru_(s))
    PROVE  /\ t \in Seq(Entries) /\ Inj(t) /\ Len(t) \in Nat
           /\ ToSet(t) = {e \in InShard(c, CachedOf(c), s) : held[e] = 0}
           /\ Len(t) = 0 => c.next[lru_(s)] = lru_(s)
           /\ Len(t) # 0 => c.next[lru_(s)] = t[1] /\ t[1] \in Entries
<1> DEFINE h == lru_(s)
           P == CachedOf(c)
           place == PlaceOf(c, held)
<1>1. h \in Heads /\ h \notin Entries
  BY HeadFacts
<1>2. c \in States /\ Hashed(c, hs) /\ Lists(c, P, place)
  BY DEF Sound
<1>3. Listed(c, h, {e \in P : place[e] = h})
  BY <1>1, <1>2 DEF Lists
<1>4. t \in Seq(Entries) /\ Inj(t) /\ ToSet(t) = {e \in P : place[e] = h} /\ Ring(c.next, c.prev, h, t)
  BY <1>3 DEF Listed
<1>5. Len(t) \in Nat /\ 0 \in 0 .. Len(t)
  BY <1>4
<1>6. c.next[At(h, t, 0)] = At(h, t, 1)
  BY <1>4, <1>5 DEF Ring
<1>7. At(h, t, 0) = h /\ (Len(t) = 0 => At(h, t, 1) = h) /\ (Len(t) # 0 => At(h, t, 1) = t[1] /\ t[1] \in Entries)
  BY <1>4, <1>5 DEF At
<1>8. {e \in P : place[e] = h} = {e \in InShard(c, P, s) : held[e] = 0}
  <2>1. ASSUME NEW e \in P PROVE place[e] = h <=> Shard(c.hash[e]) = s /\ held[e] = 0
    <3>1. e \in Entries /\ Shard(c.hash[e]) \in Shards
      BY <1>2, ShardIs DEF CachedOf, Hashed
    <3>2. place[e] = IF held[e] = 0 THEN lru_(Shard(c.hash[e])) ELSE in_use_(Shard(c.hash[e]))
      BY <3>1 DEF PlaceOf
    <3> QED
      BY <3>1, <3>2, HeadFacts
  <2> HIDE DEF P, place, h
  <2> QED
    BY <2>1 DEF InShard
<1> HIDE DEF h, P, place
<1> QED
  BY <1>4, <1>5, <1>6, <1>7, <1>8 DEF h, P

\* One round of the loop of Insert and Prune.
EvictStep(c, s, limit) ==
    LET old == c.next[lru_(s)]
    IN  IF c.usage_[s] > limit /\ old # lru_(s) THEN EraseKey(c, s, c.key[old], c.hash[old]) ELSE c

\* The round evicts the oldest entry.
OldestGone(c, d, held, hs, s) ==
    LET t == ListOf(c, lru_(s))
    IN  /\ ShardsOK(d, held, hs) /\ Erased(c, d, held, t[1])
        /\ ListOf(d, lru_(s)) = CutOut(t, 1)
        /\ \A r \in Shards : r # s => ListOf(d, lru_(r)) = ListOf(c, lru_(r))

LEMMA EvictStepIs ==
    ASSUME NEW c, NEW held \in [Entries -> Nat], NEW hs \in [Keys -> 0 .. HashRange - 1], ShardsOK(c, held, hs),
           NEW s \in Shards, NEW limit, NEW d, d = EvictStep(c, s, limit)
    PROVE  /\ ~ (c.usage_[s] > limit) \/ Len(ListOf(c, lru_(s))) = 0 => d = c
           /\ c.usage_[s] > limit /\ Len(ListOf(c, lru_(s))) # 0 => OldestGone(c, d, held, hs, s)
<1> DEFINE t == ListOf(c, lru_(s))
           old == c.next[lru_(s)]
           P == CachedOf(c)
<1>1. Sound(c, held, hs) /\ Hashed(c, hs) /\ UniqueIn(c, P) /\ P \subseteq Entries
  BY DEF ShardsOK, Sound, CachedOf
<1>2. /\ t \in Seq(Entries) /\ Inj(t) /\ Len(t) \in Nat
      /\ ToSet(t) = {e \in InShard(c, P, s) : held[e] = 0}
      /\ Len(t) = 0 => old = lru_(s)
      /\ Len(t) # 0 => old = t[1] /\ t[1] \in Entries
  BY <1>1, IdleIs
<1>3. lru_(s) \notin Entries /\ lru_(s) \in Heads
  BY HeadFacts
<1>4. d = IF c.usage_[s] > limit /\ old # lru_(s) THEN EraseKey(c, s, c.key[old], c.hash[old]) ELSE c
  BY DEF EvictStep
<1> HIDE DEF t, old, P
<1>5. ASSUME ~ (c.usage_[s] > limit) \/ Len(t) = 0 PROVE d = c
  BY <1>2, <1>4, <1>5
<1>6. ASSUME c.usage_[s] > limit, Len(t) # 0 PROVE OldestGone(c, d, held, hs, s)
  <2>1. old = t[1] /\ 1 \in 1 .. Len(t) /\ old \in Entries
    BY <1>2, <1>6
  <2>2. old \in P /\ Shard(c.hash[old]) = s /\ held[old] = 0
    <3>1. old \in ToSet(t)
      BY <1>2, <2>1, ToSetIs
    <3> QED
      BY <1>2, <3>1 DEF InShard
  <2> DEFINE k == c.key[old]
             hash == c.hash[old]
             e == TableLookup(c, s, k, hash)
  <2>3. k \in Keys /\ hash = hs[k] /\ s = Shard(hash)
    BY <1>1, <2>1, <2>2 DEF Hashed, P
  <2>4. d = EraseKey(c, s, k, hash)
    BY <1>3, <1>4, <1>6, <2>1
  <2>5. c.key[old] = k
    OBVIOUS
  <2> HIDE DEF k, hash, e
  <2>6. ShardsOK(d, held, hs) /\ KeyErased(c, d, held, k, e)
    BY <2>3, <2>4, EraseKeyIs DEF e
  <2>7. e # Nil
    BY <2>2, <2>5, <2>6 DEF KeyErased, P
  <2>8. e \in P /\ c.key[e] = k /\ Erased(c, d, held, e)
    BY <2>6, <2>7 DEF KeyErased, P
  <2>9. e = old
    BY <1>1, <2>2, <2>5, <2>8 DEF UniqueIn
  <2>10. PlaceOf(c, held)[old] = lru_(s)
    BY <2>1, <2>2 DEF PlaceOf
  <2>11. LeftList(c, d, lru_(s), old)
    BY <2>8, <2>9, <2>10 DEF Erased
  <2>12. PICK i \in 1 .. Len(t) : t[i] = old /\ ListOf(d, lru_(s)) = CutOut(t, i)
    BY <2>11 DEF LeftList, t
  <2>13. i = 1
    BY <1>2, <2>1, <2>12 DEF Inj
  <2>14. \A r \in Shards : r # s => ListOf(d, lru_(r)) = ListOf(c, lru_(r))
    <3>1. \A r \in Shards : r # s => lru_(r) \in Heads /\ lru_(r) # lru_(s)
      BY HeadFacts
    <3> QED
      BY <2>11, <3>1 DEF LeftList
  <2> QED
    BY <2>1, <2>6, <2>8, <2>9, <2>12, <2>13, <2>14 DEF OldestGone, t
<1> QED
  BY <1>5, <1>6 DEF t

\* What is left of a list after its first m entries.
After(t, m) == [j \in 1 .. Len(t) - m |-> t[j + m]]

FirstOf(t, m) == {t[i] : i \in 1 .. m}

\* The loop has evicted the m oldest entries of shard s, each because usage_ exceeded the limit.
Evicted(c, d, held, hs, s, limit, m) ==
    LET t == ListOf(c, lru_(s))
    IN  /\ ShardsOK(d, held, hs) /\ m \in 0 .. Len(t)
        /\ ListOf(d, lru_(s)) = After(t, m)
        /\ \A r \in Shards : r # s => ListOf(d, lru_(r)) = ListOf(c, lru_(r))
        /\ CachedOf(d) = CachedOf(c) \ FirstOf(t, m)
        /\ \A x \in CachedOf(d) : d.key[x] = c.key[x] /\ d.hash[x] = c.hash[x] /\ d.charge[x] = c.charge[x]
        /\ \A j \in 0 .. m - 1 : SumOf(c.charge, InShard(c, CachedOf(c), s) \ FirstOf(t, j)) > limit

LEMMA AfterFacts ==
    ASSUME NEW t \in Seq(Entries), Inj(t), NEW m \in 0 .. Len(t)
    PROVE  /\ After(t, m) \in Seq(Entries) /\ Len(After(t, m)) = Len(t) - m
           /\ m = 0 => After(t, m) = t
           /\ m < Len(t) => /\ After(t, m)[1] = t[m + 1] /\ CutOut(After(t, m), 1) = After(t, m + 1)
                            /\ FirstOf(t, m + 1) = FirstOf(t, m) \cup {t[m + 1]}
           /\ FirstOf(t, 0) = {}
<1> DEFINE n == Len(t)
<1>1. n \in Nat /\ m \in Nat /\ n - m \in Nat
  OBVIOUS
<1>2. \A j \in 1 .. n - m : j + m \in 1 .. n
  BY <1>1
<1>3. After(t, m) \in [1 .. n - m -> Entries]
  BY <1>2 DEF After
<1>4. After(t, m) \in Seq(Entries) /\ Len(After(t, m)) = n - m
  BY <1>1, <1>3, FunctionIsSeq
<1>5. ASSUME m = 0 PROVE After(t, m) = t
  <2>1. t = [j \in 1 .. n |-> t[j]]
    OBVIOUS
  <2>2. n - m = n /\ \A j \in 1 .. n : j + m = j
    BY <1>5
  <2> QED
    BY <2>1, <2>2 DEF After
<1>6. ASSUME m < n PROVE After(t, m)[1] = t[m + 1]
  <2>1. 1 \in 1 .. n - m /\ 1 + m = m + 1
    BY <1>1, <1>6
  <2> QED
    BY <2>1 DEF After
<1>7. ASSUME m < n PROVE CutOut(After(t, m), 1) = After(t, m + 1)
  <2>1. CutOut(After(t, m), 1) = [j \in 1 .. n - m - 1 |-> After(t, m)[j + 1]]
    <3>1. \A j \in 1 .. n - m - 1 : ~ (j < 1)
      BY <1>1
    <3> QED
      BY <1>4, <3>1 DEF CutOut
  <2>2. \A j \in 1 .. n - m - 1 : After(t, m)[j + 1] = t[j + (m + 1)]
    <3>1. \A j \in 1 .. n - m - 1 : j + 1 \in 1 .. n - m /\ j + 1 + m = j + (m + 1)
      BY <1>1
    <3> QED
      BY <3>1 DEF After
  <2>3. n - m - 1 = n - (m + 1)
    BY <1>1
  <2> QED
    BY <2>1, <2>2, <2>3 DEF After
<1>8. FirstOf(t, m + 1) = FirstOf(t, m) \cup {t[m + 1]}
  <2>1. \A i \in 1 .. m + 1 : i \in 1 .. m \/ i = m + 1
    BY <1>1
  <2>2. m + 1 \in 1 .. m + 1 /\ \A i \in 1 .. m : i \in 1 .. m + 1
    BY <1>1
  <2> QED
    BY <2>1, <2>2 DEF FirstOf
<1>9. FirstOf(t, 0) = {}
  BY DEF FirstOf
<1> QED
  BY <1>4, <1>5, <1>6, <1>7, <1>8, <1>9

LEMMA EvictNothing ==
    ASSUME NEW c, NEW held \in [Entries -> Nat], NEW hs, ShardsOK(c, held, hs), NEW s \in Shards, NEW limit
    PROVE  Evicted(c, c, held, hs, s, limit, 0)
<1> DEFINE t == ListOf(c, lru_(s))
<1>1. Sound(c, held, hs)
  BY DEF ShardsOK
<1>2. t \in Seq(Entries) /\ Inj(t) /\ Len(t) \in Nat
  BY <1>1, IdleIs
<1>3. 0 \in 0 .. Len(t) /\ 0 .. 0 - 1 = {}
  BY <1>2
<1> HIDE DEF t
<1>4. After(t, 0) = t /\ FirstOf(t, 0) = {}
  BY <1>2, <1>3, AfterFacts
<1> QED
  BY <1>3, <1>4 DEF Evicted, t

\* A round of the loop, after m of them that evicted an entry.
Round(c, x, y, held, hs, s, limit, m) ==
    /\ x.usage_[s] > limit /\ m # Len(ListOf(c, lru_(s))) => Evicted(c, y, held, hs, s, limit, m + 1)
    /\ ~ (x.usage_[s] > limit) \/ m = Len(ListOf(c, lru_(s))) => y = x

LEMMA EvictRound ==
    ASSUME NEW c, NEW held \in [Entries -> Nat], NEW hs \in [Keys -> 0 .. HashRange - 1], ShardsOK(c, held, hs),
           NEW s \in Shards, NEW limit \in Int, NEW x, NEW m, Evicted(c, x, held, hs, s, limit, m),
           NEW y, y = EvictStep(x, s, limit)
    PROVE  Round(c, x, y, held, hs, s, limit, m)
<1> DEFINE t == ListOf(c, lru_(s))
           P == CachedOf(c)
           A == InShard(c, P, s)
<1>1. /\ ShardsOK(x, held, hs) /\ m \in 0 .. Len(t)
      /\ ListOf(x, lru_(s)) = After(t, m)
      /\ \A r \in Shards : r # s => ListOf(x, lru_(r)) = ListOf(c, lru_(r))
      /\ CachedOf(x) = P \ FirstOf(t, m)
      /\ \A e \in CachedOf(x) : x.key[e] = c.key[e] /\ x.hash[e] = c.hash[e] /\ x.charge[e] = c.charge[e]
      /\ \A j \in 0 .. m - 1 : SumOf(c.charge, A \ FirstOf(t, j)) > limit
  BY DEF Evicted
<1>2. Sound(c, held, hs) /\ P \subseteq Entries
  BY DEF ShardsOK, CachedOf
<1>3. t \in Seq(Entries) /\ Inj(t) /\ Len(t) \in Nat
  BY <1>2, IdleIs
<1> HIDE DEF t, A, P
<1>4. /\ After(t, m) \in Seq(Entries) /\ Len(After(t, m)) = Len(t) - m
      /\ m < Len(t) => /\ After(t, m)[1] = t[m + 1] /\ CutOut(After(t, m), 1) = After(t, m + 1)
                       /\ FirstOf(t, m + 1) = FirstOf(t, m) \cup {t[m + 1]}
  BY <1>1, <1>3, AfterFacts
<1>5. /\ ~ (x.usage_[s] > limit) \/ Len(ListOf(x, lru_(s))) = 0 => y = x
      /\ x.usage_[s] > limit /\ Len(ListOf(x, lru_(s))) # 0 => OldestGone(x, y, held, hs, s)
  BY <1>1, EvictStepIs
<1>6. Len(ListOf(x, lru_(s))) = 0 <=> m = Len(t)
  BY <1>1, <1>3, <1>4
<1>7. ASSUME ~ (x.usage_[s] > limit) \/ m = Len(t) PROVE y = x
  BY <1>5, <1>6, <1>7
<1>8. ASSUME x.usage_[s] > limit, m # Len(t) PROVE Evicted(c, y, held, hs, s, limit, m + 1)
  <2> DEFINE e == t[m + 1]
  <2>1. m < Len(t) /\ m + 1 \in 0 .. Len(t) /\ m \in Nat
    BY <1>1, <1>3, <1>8
  <2>2. OldestGone(x, y, held, hs, s) /\ After(t, m)[1] = e /\ FirstOf(t, m + 1) = FirstOf(t, m) \cup {e}
    BY <1>4, <1>5, <1>6, <1>8, <2>1
  <2> HIDE DEF e
  <2>3. /\ ShardsOK(y, held, hs) /\ Erased(x, y, held, e) /\ ListOf(y, lru_(s)) = After(t, m + 1)
        /\ \A r \in Shards : r # s => ListOf(y, lru_(r)) = ListOf(x, lru_(r))
    BY <1>1, <1>4, <2>1, <2>2 DEF OldestGone
  <2>4. CachedOf(y) = CachedOf(x) \ {e}
    BY <2>3 DEF Erased
  <2>5. CachedOf(y) = P \ FirstOf(t, m + 1)
    BY <1>1, <2>2, <2>4
  <2>6. ASSUME NEW f \in CachedOf(y) PROVE y.key[f] = c.key[f] /\ y.hash[f] = c.hash[f] /\ y.charge[f] = c.charge[f]
    <3>1. f \in CachedOf(x) /\ f # e /\ f \in Entries
      BY <2>4 DEF CachedOf
    <3>2. y.key[f] = x.key[f] /\ y.hash[f] = x.hash[f] /\ y.charge[f] = x.charge[f]
      BY <2>3, <3>1 DEF Erased
    <3> QED
      BY <1>1, <3>1, <3>2
  <2>7. SumOf(c.charge, A \ FirstOf(t, m)) > limit
    <3>1. x.usage_[s] = SumOf(x.charge, InShard(x, CachedOf(x), s))
      BY <1>1 DEF ShardsOK, Sound, UsageOK
    <3>2. InShard(x, CachedOf(x), s) = A \ FirstOf(t, m)
      BY <1>1 DEF InShard, A
    <3>3. \A f \in A \ FirstOf(t, m) : x.charge[f] = c.charge[f]
      BY <1>1 DEF InShard, A
    <3>4. SumOf(x.charge, A \ FirstOf(t, m)) = SumOf(c.charge, A \ FirstOf(t, m))
      BY <3>3, SumSame
    <3> QED
      BY <1>8, <3>1, <3>2, <3>4
  <2>8. \A j \in 0 .. m + 1 - 1 : SumOf(c.charge, A \ FirstOf(t, j)) > limit
    <3>1. \A j \in 0 .. m + 1 - 1 : j \in 0 .. m - 1 \/ j = m
      BY <2>1
    <3> QED
      BY <1>1, <2>7, <3>1
  <2>9. \A r \in Shards : r # s => ListOf(y, lru_(r)) = ListOf(c, lru_(r))
    BY <1>1, <2>3
  <2> QED
    BY <2>1, <2>3, <2>5, <2>6, <2>8, <2>9 DEF Evicted, A, P, t
<1> QED
  BY <1>7, <1>8 DEF t, Round

IsEvict(w, c, s, limit) ==
    w = [n \in 0 .. Cardinality(Entries) |-> IF n = 0 THEN c ELSE EvictStep(w[n - 1], s, limit)]

\* The loop ends when the limit is met or no idle entry is left.
LEMMA EvictOldestIs ==
    ASSUME NEW c, NEW held \in [Entries -> Nat], NEW hs \in [Keys -> 0 .. HashRange - 1], ShardsOK(c, held, hs),
           NEW s \in Shards, NEW limit \in Int, NEW d, d = EvictOldest(c, s, limit)
    PROVE  \E m : Evicted(c, d, held, hs, s, limit, m) /\ (m = Len(ListOf(c, lru_(s))) \/ ~ (d.usage_[s] > limit))
<1> DEFINE N == Cardinality(Entries)
           L == Len(ListOf(c, lru_(s)))
           V == {x \in States : ShardsOK(x, held, hs)}
           G == [n \in 1 .. N |-> [x \in V |-> EvictStep(x, s, limit)]]
<1>1. Sound(c, held, hs)
  BY DEF ShardsOK
<1>2. L \in Nat /\ L <= N /\ N \in Nat
  BY <1>1, IdleIs, InjLen
<1>3. d = (CHOOSE w : IsEvict(w, c, s, limit))[N]
  BY DEF EvictOldest, IsEvict, EvictStep
<1>4. c \in V
  BY DEF ShardsOK, Sound
<1>5. ASSUME NEW x \in V PROVE EvictStep(x, s, limit) \in V
  <2> DEFINE y == EvictStep(x, s, limit)
  <2>1. y = EvictStep(x, s, limit) /\ ShardsOK(x, held, hs)
    OBVIOUS
  <2> HIDE DEF y
  <2>2. y = x \/ OldestGone(x, y, held, hs, s)
    BY <2>1, EvictStepIs
  <2>3. ShardsOK(y, held, hs)
    BY <2>1, <2>2 DEF OldestGone
  <2>4. y \in States
    BY <2>3 DEF ShardsOK, Sound
  <2> QED
    BY <2>1, <2>3, <2>4
<1>6. G \in [1 .. N -> [V -> V]] /\ \A n \in 1 .. N, x \in V : G[n][x] = EvictStep(x, s, limit)
  BY <1>5
<1> HIDE DEF G, V, N, L
<1>7. PICK f : IsLoop(f, N, V, c, G)
  BY <1>2, <1>4, <1>6, LoopExists
<1>8. f \in [0 .. N -> V] /\ f = [n \in 0 .. N |-> IF n = 0 THEN c ELSE G[n][f[n - 1]]]
  BY <1>7 DEF IsLoop
<1>9. f = [n \in 0 .. N |-> IF n = 0 THEN c ELSE EvictStep(f[n - 1], s, limit)]
  <2>1. \A n \in 0 .. N : n # 0 => n \in 1 .. N /\ n - 1 \in 0 .. N /\ f[n - 1] \in V
    BY <1>2, <1>8
  <2> QED
    BY <1>6, <1>8, <2>1
<1>10. IsEvict(f, c, s, limit)
  BY <1>9 DEF IsEvict, N
<1> DEFINE w == CHOOSE w : IsEvict(w, c, s, limit)
<1>11. IsEvict(w, c, s, limit) /\ d = w[N]
  BY <1>3, <1>10
<1> HIDE DEF w
<1>12. w = [n \in 0 .. N |-> IF n = 0 THEN c ELSE EvictStep(w[n - 1], s, limit)]
  BY <1>11 DEF IsEvict, N
<1> DEFINE Done(n, m) == /\ Evicted(c, w[n], held, hs, s, limit, m)
                         /\ m = n \/ m = L \/ ~ (w[n].usage_[s] > limit)
           S == {n \in 0 .. N : \E m : Done(n, m)}
<1>13. 0 \in S
  <2>1. 0 \in 0 .. N /\ w[0] = c
    BY <1>2, <1>12
  <2>2. Evicted(c, c, held, hs, s, limit, 0)
    BY EvictNothing
  <2>3. Done(0, 0)
    BY <2>1, <2>2
  <2> HIDE DEF Done
  <2> QED
    BY <2>1, <2>3
<1>14. ASSUME NEW n \in 1 .. N, n - 1 \in S PROVE n \in S
  <2>1. PICK m : Done(n - 1, m)
    BY <1>14
  <2>2. n \in 0 .. N /\ w[n] = EvictStep(w[n - 1], s, limit)
    BY <1>2, <1>12
  <2>3. /\ w[n - 1].usage_[s] > limit /\ m # L => Evicted(c, w[n], held, hs, s, limit, m + 1)
        /\ ~ (w[n - 1].usage_[s] > limit) \/ m = L => w[n] = w[n - 1]
    <3> DEFINE x == w[n - 1]
               y == w[n]
    <3>1. Evicted(c, x, held, hs, s, limit, m) /\ y = EvictStep(x, s, limit)
      BY <2>1, <2>2
    <3> HIDE DEF x, y
    <3>2. Round(c, x, y, held, hs, s, limit, m)
      BY <3>1, EvictRound
    <3> QED
      BY <3>2 DEF Round, L, x, y
  <2>4. CASE w[n - 1].usage_[s] > limit /\ m # L
    <3>1. m = n - 1
      BY <2>1, <2>4
    <3>2. m + 1 = n
      BY <3>1
    <3>3. Done(n, n)
      BY <2>3, <2>4, <3>2
    <3> HIDE DEF Done
    <3> QED
      BY <2>2, <3>3
  <2>5. CASE ~ (w[n - 1].usage_[s] > limit) \/ m = L
    <3>1. w[n] = w[n - 1]
      BY <2>3, <2>5
    <3>2. Done(n, m)
      BY <2>1, <2>5, <3>1
    <3> HIDE DEF Done
    <3> QED
      BY <2>2, <3>2
  <2> QED
    BY <2>4, <2>5
<1> HIDE DEF S
<1>15. N \in S
  BY <1>2, <1>13, <1>14, StepByStep
<1>16. PICK m : Done(N, m)
  BY <1>15 DEF S
<1>17. m = N => m = L
  <2>1. m \in 0 .. L
    BY <1>16 DEF Evicted, L
  <2> QED
    BY <1>2, <2>1
<1>18. Evicted(c, d, held, hs, s, limit, m) /\ (m = L \/ ~ (d.usage_[s] > limit))
  BY <1>11, <1>16, <1>17
<1> QED
  BY <1>18 DEF L

(***************************************************************************)
(* Insert.                                                                 *)
(***************************************************************************)
One(held, e) == [held EXCEPT ![e] = 1]

\* An allocated entry that is not yet the cache's.
NowMade(c, d, held, hs, e, k, n) ==
    /\ ShardsOK(d, One(held, e), hs) /\ CachedOf(d) = CachedOf(c) /\ e \notin CachedOf(c) /\ held[e] = 0
    /\ IdleSame(c, d)
    /\ \A x \in CachedOf(c) : d.key[x] = c.key[x] /\ d.hash[x] = c.hash[x] /\ d.charge[x] = c.charge[x]
    /\ d.key[e] = k /\ d.hash[e] = hs[k] /\ d.charge[e] = n
    /\ d.refs = [c.refs EXCEPT ![e] = 1]

LEMMA MadeIs ==
    ASSUME NEW c, NEW held \in [Entries -> Nat], NEW hs \in [Keys -> 0 .. HashRange - 1], ShardsOK(c, held, hs),
           NEW e \in Entries, c.refs[e] = 0, NEW k \in Keys, NEW n \in Nat, NEW d, Made(c, d, e, k, hs[k], n)
    PROVE  NowMade(c, d, held, hs, e, k, n)
<1> DEFINE P == CachedOf(c)
           held2 == One(held, e)
<1>1. /\ c \in States /\ Hashed(c, hs) /\ RefsOK(c, held) /\ UsageOK(c) /\ Lists(c, P, PlaceOf(c, held))
      /\ TableOK(c, P) /\ UniqueIn(c, P) /\ P \subseteq Entries
  BY DEF ShardsOK, Sound, CachedOf
<1>2. /\ d \in States /\ d.key = [c.key EXCEPT ![e] = k] /\ d.hash = [c.hash EXCEPT ![e] = hs[k]]
      /\ d.charge = [c.charge EXCEPT ![e] = n] /\ d.in_cache = [c.in_cache EXCEPT ![e] = FALSE]
      /\ d.refs = [c.refs EXCEPT ![e] = 1] /\ d.usage_ = c.usage_ /\ SameLists(c, d) /\ SameTables(c, d)
  BY DEF Made
<1>3. e \notin P /\ held[e] = 0
  <2>1. held[e] \in Nat /\ c.refs[e] = held[e] + (IF e \in P THEN 1 ELSE 0)
    BY <1>1 DEF RefsOK
  <2> QED
    BY <2>1
<1>4. CachedOf(d) = P
  <2>1. Uncaches(c, d, e)
    BY <1>2 DEF Uncaches
  <2>2. CachedOf(d) = P \ {e}
    BY <1>1, <2>1, UncachesIs
  <2> QED
    BY <1>3, <2>2
<1>5. /\ \A x \in Entries : x # e => /\ d.key[x] = c.key[x] /\ d.hash[x] = c.hash[x] /\ d.charge[x] = c.charge[x]
                                     /\ d.refs[x] = c.refs[x] /\ held2[x] = held[x]
      /\ d.key[e] = k /\ d.hash[e] = hs[k] /\ d.charge[e] = n /\ d.refs[e] = 1 /\ held2[e] = 1
  BY <1>1, <1>2 DEF States, One
<1>0. SameLists(c, d) /\ SameTables(c, d)
  BY <1>2
<1> HIDE DEF P, held2
<1>6. Hashed(d, hs)
  <2>1. ASSUME NEW x \in Entries PROVE d.hash[x] \in 0 .. HashRange - 1 /\ (x \in P => d.key[x] \in Keys /\ d.hash[x] = hs[d.key[x]])
    <3>1. hs[k] \in 0 .. HashRange - 1
      OBVIOUS
    <3>2. CASE x = e
      BY <1>3, <1>5, <3>1, <3>2
    <3>3. CASE x # e
      BY <1>1, <1>5, <3>3 DEF Hashed, P
    <3> QED
      BY <3>2, <3>3
  <2> QED
    BY <1>4, <2>1 DEF Hashed
<1>7. RefsOK(d, held2)
  <2>1. ASSUME NEW x \in Entries PROVE d.refs[x] = held2[x] + (IF x \in P THEN 1 ELSE 0)
    <3>1. CASE x = e
      BY <1>3, <1>5, <3>1
    <3>2. CASE x # e
      BY <1>1, <1>5, <3>2 DEF RefsOK, P
    <3> QED
      BY <3>1, <3>2
  <2> QED
    BY <1>4, <2>1 DEF RefsOK
<1>8. \A x \in P : d.key[x] = c.key[x] /\ d.hash[x] = c.hash[x] /\ d.charge[x] = c.charge[x] /\ held2[x] = held[x]
  BY <1>1, <1>3, <1>5
<1>9. UsageOK(d)
  <2>1. ASSUME NEW s \in Shards PROVE d.usage_[s] = SumOf(d.charge, InShard(d, P, s))
    <3>1. d.usage_[s] = SumOf(c.charge, InShard(c, P, s))
      BY <1>1, <1>2 DEF UsageOK, P
    <3>2. InShard(d, P, s) = InShard(c, P, s)
      BY <1>8 DEF InShard
    <3>3. \A x \in InShard(c, P, s) : d.charge[x] = c.charge[x]
      BY <1>8 DEF InShard
    <3>4. SumOf(d.charge, InShard(c, P, s)) = SumOf(c.charge, InShard(c, P, s))
      BY <3>3, SumSame
    <3> QED
      BY <3>1, <3>2, <3>4
  <2> QED
    BY <1>4, <2>1 DEF UsageOK
<1>10. Lists(d, P, PlaceOf(d, held2)) /\ \A h \in Heads : ListOf(d, h) = ListOf(c, h)
  <2>1. \A x \in P : PlaceOf(d, held2)[x] = PlaceOf(c, held)[x]
    BY <1>1, <1>8 DEF PlaceOf
  <2>2. P \in SUBSET Entries
    BY <1>1
  <2> DEFINE p == PlaceOf(c, held)
             q == PlaceOf(d, held2)
  <2>3. Lists(c, P, p)
    BY <1>1
  <2> HIDE DEF p, q
  <2>4. Lists(d, P, q) /\ \A h \in Heads : ListOf(d, h) = ListOf(c, h)
    <3>1. \A x \in P : q[x] = p[x]
      BY <2>1 DEF p, q
    <3> QED
      BY <1>0, <2>2, <2>3, <3>1, ListsSame
  <2> QED
    BY <2>4 DEF q
<1>11. TableOK(d, P)
  <2>1. \A x \in P : d.hash[x] = c.hash[x]
    BY <1>8
  <2>2. TableOK(c, P)
    BY <1>1
  <2> QED
    BY <1>0, <2>1, <2>2, TableSame
<1>12. UniqueIn(d, P)
  BY <1>1, <1>8 DEF UniqueIn
<1>13. ShardsOK(d, held2, hs)
  BY <1>2, <1>4, <1>6, <1>7, <1>9, <1>10, <1>11, <1>12 DEF ShardsOK, Sound
<1>14. IdleSame(c, d)
  BY <1>10, HeadFacts DEF IdleSame
<1>15. \A x \in P : d.key[x] = c.key[x] /\ d.hash[x] = c.hash[x] /\ d.charge[x] = c.charge[x]
  BY <1>8
<1> QED
  BY <1>2, <1>3, <1>4, <1>5, <1>13, <1>14, <1>15 DEF NowMade, P, held2

LEMMA UsageAdd ==
    ASSUME NEW c \in States, NEW P \in SUBSET Entries, NEW e \in Entries, e \notin P, NEW s, s = Shard(c.hash[e])
    PROVE  SumOf(c.charge, InShard(c, P \cup {e}, s)) = SumOf(c.charge, InShard(c, P, s)) + c.charge[e]
<1> DEFINE S == InShard(c, P, s)
           F == c.charge
<1>1. InShard(c, P \cup {e}, s) = S \cup {e}
  BY DEF InShard
<1>2. S \subseteq Entries /\ e \notin S
  BY DEF InShard
<1>3. IsFiniteSet(S)
  BY <1>2, FS_Subset, TableAssumption
<1>4. F[e] \in Nat /\ \A x \in S : F[x] \in Nat
  BY <1>2 DEF States
<1> HIDE DEF S, F
<1>5. SumOf(F, S \cup {e}) = SumOf(F, S) + F[e]
  BY <1>2, <1>3, <1>4, SumAdd
<1> QED
  BY <1>1, <1>5 DEF S, F

LinkedTo(c, d, held, hs, e) ==
    /\ Sound(d, held, hs) /\ CachedOf(d) = CachedOf(c) \cup {e} /\ TableOK(d, CachedOf(c))
    /\ SameData(c, d) /\ IdleSame(c, d)

\* The entry linked into in_use_, before the table is asked.
LEMMA LinkedIs ==
    ASSUME NEW c, NEW held \in [Entries -> Nat], NEW hs \in [Keys -> 0 .. HashRange - 1], ShardsOK(c, held, hs),
           NEW e \in Entries, e \notin CachedOf(c), held[e] = 1, NEW k \in Keys, c.key[e] = k, c.hash[e] = hs[k],
           NEW s, s = Shard(c.hash[e]), NEW u, u = c.usage_[s] + c.charge[e],
           NEW b, Taken(c, b, s, e, 2, u),
           NEW d, d = LRU_Append(b, in_use_(s), e)
    PROVE  LinkedTo(c, d, held, hs, e)
<1> DEFINE P == CachedOf(c)
           Q == P \cup {e}
           h == in_use_(s)
           p == PlaceOf(c, held)
<1>1. /\ c \in States /\ Hashed(c, hs) /\ RefsOK(c, held) /\ UsageOK(c) /\ Lists(c, P, p)
      /\ TableOK(c, P) /\ P \subseteq Entries
  BY DEF ShardsOK, Sound, CachedOf
<1>2. s \in Shards /\ h \in Heads /\ u \in Int /\ \A r \in Shards : lru_(r) \in Heads /\ lru_(r) # h
  <2>1. s \in Shards
    BY <1>1, ShardIs DEF Hashed
  <2>2. c.usage_[s] \in Int /\ c.charge[e] \in Int
    BY <1>1, <2>1 DEF States
  <2> QED
    BY <2>1, <2>2, HeadFacts
<1>4. /\ b \in States /\ b.in_cache = [c.in_cache EXCEPT ![e] = TRUE] /\ b.usage_ = [c.usage_ EXCEPT ![s] = u]
      /\ b.refs = [c.refs EXCEPT ![e] = 2]
  BY DEF Taken
<1>5. SameLists(c, b) /\ SameTables(c, b) /\ SameData(c, b)
  BY DEF Taken
<1> HIDE DEF P, h, p, Q
<1>6. Lists(b, P, p) /\ \A g \in Heads : ListOf(b, g) = ListOf(c, g)
  <2>1. P \in SUBSET Entries /\ \A x \in P : p[x] = p[x]
    BY <1>1
  <2>2. Lists(c, P, p) /\ SameLists(c, b)
    BY <1>1, <1>5
  <2> QED
    BY <2>1, <2>2, ListsSame
<1>7. p[e] = h
  <2>1. held[e] # 0
    OBVIOUS
  <2> QED
    BY <2>1 DEF p, h, PlaceOf
<1>8. /\ d \in States /\ SameTables(b, d) /\ SameData(b, d) /\ SameCounts(b, d)
      /\ Lists(d, Q, p) /\ JoinedList(b, d, h, e)
  <2>1. PlacedAt(p, p, P, e, h)
    BY <1>7 DEF PlacedAt
  <2>2. P \in SUBSET Entries /\ e \notin P /\ d = LRU_Append(b, h, e)
    BY <1>1 DEF P, h
  <2> QED
    BY <1>2, <1>4, <1>6, <2>1, <2>2, ListsAppend DEF Q
<1>9. SameTables(c, d) /\ SameData(c, d)
  BY <1>5, <1>8 DEF SameTables, SameData
<1>10. IdleSame(c, d)
  BY <1>2, <1>6, <1>8 DEF IdleSame, JoinedList
<1>11. CachedOf(d) = Q
  <2>1. Caches(c, d, e)
    BY <1>4, <1>8 DEF Caches, SameCounts
  <2> QED
    BY <1>1, <2>1, CachesIs DEF P, Q
<1>12. Hashed(d, hs)
  <2>1. d.hash = c.hash /\ d.key = c.key
    BY <1>9 DEF SameData
  <2>2. \A x \in Q : x \in P \/ x = e
    BY DEF Q
  <2> QED
    BY <1>1, <1>11, <2>1, <2>2 DEF Hashed, P
<1>13. RefsOK(d, held)
  <2>1. ASSUME NEW x \in Entries PROVE d.refs[x] = held[x] + (IF x \in Q THEN 1 ELSE 0)
    <3>1. d.refs = [c.refs EXCEPT ![e] = 2] /\ c.refs \in [Entries -> Int]
      BY <1>1, <1>4, <1>8 DEF SameCounts, States
    <3>2. CASE x = e
      BY <3>1, <3>2 DEF Q
    <3>3. CASE x # e
      BY <1>1, <3>1, <3>3 DEF Q, RefsOK, P
    <3> QED
      BY <3>2, <3>3
  <2> QED
    BY <1>11, <2>1 DEF RefsOK
<1>14. UsageOK(d)
  <2>1. ASSUME NEW r \in Shards PROVE d.usage_[r] = SumOf(d.charge, InShard(d, Q, r))
    <3>1. d.usage_ = [c.usage_ EXCEPT ![s] = u] /\ c.usage_ \in [Shards -> Int] /\ c.charge \in [Entries -> Nat]
      BY <1>1, <1>4, <1>8 DEF SameCounts, States
    <3>2. c.usage_[r] = SumOf(c.charge, InShard(c, P, r))
      BY <1>1 DEF UsageOK, P
    <3>3. d.charge = c.charge /\ InShard(d, Q, r) = InShard(c, Q, r)
      BY <1>9 DEF SameData, InShard
    <3>4. CASE r # s
      <4>1. InShard(c, Q, r) = InShard(c, P, r)
        BY <3>4 DEF InShard, Q
      <4> QED
        BY <3>1, <3>2, <3>3, <3>4, <4>1
    <3>5. CASE r = s
      <4>4. SumOf(c.charge, InShard(c, Q, s)) = SumOf(c.charge, InShard(c, P, s)) + c.charge[e]
        BY <1>1, UsageAdd DEF P, Q
      <4>5. d.usage_[s] = c.usage_[s] + c.charge[e]
        BY <1>2, <3>1
      <4> QED
        BY <3>2, <3>3, <3>5, <4>4, <4>5
    <3> QED
      BY <3>4, <3>5
  <2> QED
    BY <1>11, <2>1 DEF UsageOK
<1>15. Lists(d, Q, PlaceOf(d, held))
  <2>1. PlaceOf(d, held) = p
    BY <1>9 DEF SameData, PlaceOf, p
  <2> QED
    BY <1>8, <2>1
<1>16. Sound(d, held, hs)
  BY <1>8, <1>11, <1>12, <1>13, <1>14, <1>15 DEF Sound
<1>17. TableOK(d, P)
  <2>1. \A x \in P : d.hash[x] = c.hash[x]
    BY <1>9 DEF SameData
  <2>2. TableOK(c, P) /\ SameTables(c, d)
    BY <1>1, <1>9
  <2> QED
    BY <2>1, <2>2, TableSame
<1> QED
  BY <1>9, <1>10, <1>11, <1>16, <1>17 DEF LinkedTo, P, Q

\* The new entry is cached, and the one of its key, if there was one, is not.
Added(c, d, held, e, k) ==
    \E old :
        /\ CachedOf(d) = (CachedOf(c) \ {old}) \cup {e}
        /\ \A x \in CachedOf(d) : d.key[x] = c.key[x] /\ d.hash[x] = c.hash[x] /\ d.charge[x] = c.charge[x]
        /\ old = Nil => IdleSame(c, d) /\ \A f \in CachedOf(c) : c.key[f] # k
        /\ old # Nil => /\ old \in CachedOf(c) /\ c.key[old] = k
                        /\ held[old] # 0 => IdleSame(c, d)
                        /\ held[old] = 0 => IdleLeft(c, d, Shard(c.hash[old]), old)

LEMMA AddToCacheIs ==
    ASSUME NEW c, NEW held \in [Entries -> Nat], NEW hs \in [Keys -> 0 .. HashRange - 1], ShardsOK(c, held, hs),
           NEW e \in Entries, e \notin CachedOf(c), held[e] = 1, NEW k \in Keys, c.key[e] = k, c.hash[e] = hs[k],
           NEW s, s = Shard(c.hash[e]), NEW d, d = AddToCache(c, s, e)
    PROVE  ShardsOK(d, held, hs) /\ Added(c, d, held, e, k)
<1> DEFINE P == CachedOf(c)
           Q == P \cup {e}
           u == c.usage_[s] + c.charge[e]
           b == [c EXCEPT !.refs[e] = 2, !.in_cache[e] = TRUE, !.usage_[s] = u]
           linked == LRU_Append(b, in_use_(s), e)
           old == TableLookup(linked, s, linked.key[e], linked.hash[e])
           a == TableInsert(linked, s, e)
<1>1. /\ c \in States /\ Hashed(c, hs) /\ RefsOK(c, held) /\ UniqueIn(c, P) /\ P \subseteq Entries
  BY DEF ShardsOK, Sound, CachedOf
<1>2. s \in Shards /\ u \in Int
  <2>1. s \in Shards
    BY <1>1, ShardIs DEF Hashed
  <2>2. c.usage_[s] \in Int /\ c.charge[e] \in Int
    BY <1>1, <2>1 DEF States
  <2> QED
    BY <2>1, <2>2
<1>3. c.refs[e] + 1 = 2
  BY <1>1 DEF RefsOK
<1>4. b = [c EXCEPT !.refs[e] = @ + 1, !.in_cache[e] = TRUE, !.usage_[s] = @ + c.charge[e]]
  BY <1>3
<1>5. d = FinishErase(TableInsert(linked, s, e), s, TableLookup(linked, s, c.key[e], c.hash[e]))
  BY <1>4 DEF AddToCache
<1>6. Taken(c, b, s, e, 2, u)
  <2>1. b = [c EXCEPT !.refs[e] = 2, !.in_cache[e] = TRUE, !.usage_[s] = u] /\ 2 \in Int
    OBVIOUS
  <2> HIDE DEF b, u, P, Q
  <2> QED
    BY <1>1, <1>2, <2>1, TakeEffect
<1>7. u = c.usage_[s] + c.charge[e] /\ linked = LRU_Append(b, in_use_(s), e)
  OBVIOUS
<1> HIDE DEF b, u, linked
<1>8. /\ Sound(linked, held, hs) /\ CachedOf(linked) = CachedOf(c) \cup {e} /\ TableOK(linked, CachedOf(c))
      /\ SameData(c, linked) /\ IdleSame(c, linked)
  <2>1. LinkedTo(c, linked, held, hs, e)
    BY <1>6, <1>7, LinkedIs
  <2> QED
    BY <2>1 DEF LinkedTo
<1>9. linked.key = c.key /\ linked.hash = c.hash /\ linked.charge = c.charge /\ linked \in States
  BY <1>8 DEF SameData, Sound
<1>10. d = FinishErase(a, s, old)
  BY <1>5, <1>9
<1>11. TableInserted(linked, a, P, e, old)
  <2>1. P \in SUBSET Entries /\ e \notin P /\ Shard(linked.hash[e]) = s /\ TableOK(linked, P)
    BY <1>1, <1>8, <1>9
  <2>2. old = TableLookup(linked, s, linked.key[e], linked.hash[e]) /\ a = TableInsert(linked, s, e)
    OBVIOUS
  <2> HIDE DEF P, old, a
  <2> QED
    BY <1>2, <1>9, <2>1, <2>2, TableInsertIs
<1> HIDE DEF old, a
<1>12. a \in States /\ SameLists(linked, a) /\ SameData(linked, a) /\ SameCounts(linked, a)
  BY <1>11 DEF TableInserted
<1>13. /\ Sound(a, held, hs) /\ CachedOf(a) = CachedOf(linked) /\ \A h \in Heads : ListOf(a, h) = ListOf(linked, h)
  BY <1>8, <1>12, SoundSame
<1>14. CachedOf(a) = Q /\ IdleSame(c, a)
  BY <1>8, <1>13, HeadFacts DEF IdleSame
<1>15. a.key = c.key /\ a.hash = c.hash /\ a.charge = c.charge
  BY <1>9, <1>12 DEF SameData
<1>16. \A f \in P : c.key[f] = k <=> Match(linked, f, linked.key[e], linked.hash[e])
  BY <1>1, <1>9 DEF Hashed, Match
<1>17. CASE old = Nil
  <2>1. TableOK(a, Q) /\ \A f \in P : c.key[f] # k
    BY <1>11, <1>16, <1>17 DEF TableInserted
  <2>2. UniqueIn(a, Q)
    BY <1>1, <1>15, <2>1 DEF UniqueIn
  <2>3. d = a
    BY <1>10, <1>17 DEF FinishErase
  <2>4. ShardsOK(d, held, hs)
    BY <1>13, <1>14, <2>1, <2>2, <2>3 DEF ShardsOK
  <2>5. Nil \notin P
    BY <1>1, TableAssumption
  <2>6. CachedOf(d) = (P \ {Nil}) \cup {e}
    BY <1>14, <2>3, <2>5
  <2>7. IdleSame(c, d) /\ d.key = c.key /\ d.hash = c.hash /\ d.charge = c.charge
    BY <1>14, <1>15, <2>3
  <2> HIDE DEF P, Q
  <2>8. Added(c, d, held, e, k)
    BY <2>1, <2>6, <2>7 DEF Added, P
  <2> QED
    BY <2>4, <2>8
<1>18. CASE old # Nil
  <2>1. old \in P /\ c.key[old] = k /\ TableOK(a, (P \ {old}) \cup {e})
    BY <1>11, <1>16, <1>18 DEF TableInserted
  <2>2. old # e /\ old \in Entries /\ old \in CachedOf(a) /\ CachedOf(a) \ {old} = (P \ {old}) \cup {e}
    BY <1>1, <1>14, <2>1
  <2>3. c.hash[old] = hs[k] /\ s = Shard(a.hash[old])
    BY <1>1, <1>15, <2>1, <2>2 DEF Hashed
  <2>4. UniqueIn(a, (P \ {old}) \cup {e})
    <3>1. \A f \in P \ {old} : c.key[f] # k
      BY <1>1, <2>1 DEF UniqueIn
    <3> QED
      BY <1>1, <1>15, <3>1 DEF UniqueIn
  <2> HIDE DEF P, Q
  <2>5. ShardsOK(d, held, hs) /\ Erased(a, d, held, old)
    BY <1>10, <1>13, <2>1, <2>2, <2>3, <2>4, FinishEraseIs
  <2>6. CachedOf(d) = (P \ {old}) \cup {e}
    BY <2>2, <2>5 DEF Erased
  <2>7. \A x \in CachedOf(d) : d.key[x] = c.key[x] /\ d.hash[x] = c.hash[x] /\ d.charge[x] = c.charge[x]
    <3>1. \A x \in CachedOf(d) : x \in Entries /\ x # old
      BY <1>1, <2>2, <2>6
    <3>2. \A x \in Entries : x # old => d.key[x] = a.key[x] /\ d.hash[x] = a.hash[x] /\ d.charge[x] = a.charge[x]
      BY <2>5 DEF Erased
    <3> QED
      BY <1>15, <3>1, <3>2
  <2>8. LeftList(a, d, PlaceOf(a, held)[old], old)
    BY <2>5 DEF Erased
  <2>9. PlaceOf(a, held)[old] = IF held[old] = 0 THEN lru_(s) ELSE in_use_(s)
    BY <2>2, <2>3 DEF PlaceOf
  <2>10. \A r \in Shards : ListOf(a, lru_(r)) = ListOf(c, lru_(r))
    BY <1>14 DEF IdleSame
  <2>11. ASSUME held[old] # 0 PROVE IdleSame(c, d)
    <3>1. LeftList(a, d, in_use_(s), old)
      BY <2>8, <2>9, <2>11
    <3>2. \A r \in Shards : lru_(r) \in Heads /\ lru_(r) # in_use_(s)
      BY <1>2, HeadFacts
    <3> QED
      BY <2>10, <3>1, <3>2 DEF LeftList, IdleSame
  <2>12. ASSUME held[old] = 0 PROVE IdleLeft(c, d, s, old)
    <3>1. LeftList(a, d, lru_(s), old)
      BY <2>8, <2>9, <2>12
    <3>2. \A r \in Shards : lru_(r) \in Heads /\ (r # s => lru_(r) # lru_(s))
      BY <1>2, HeadFacts
    <3>3. IdleLeft(a, d, s, old)
      BY <3>1, <3>2 DEF LeftList, IdleLeft
    <3> QED
      BY <1>2, <2>10, <3>3 DEF IdleLeft
  <2>13. s = Shard(c.hash[old])
    BY <1>15, <2>3
  <2>14. Added(c, d, held, e, k)
    BY <1>18, <2>1, <2>6, <2>7, <2>11, <2>12, <2>13 DEF Added, P
  <2> QED
    BY <2>5, <2>14
<1> QED
  BY <1>17, <1>18

\* Insert: the entry is made, cached if the capacity is not 0, and the idle entries of its
\* shard are evicted while the capacity is exceeded.
Enough(b, d, s, limit, m) == m = Len(ListOf(b, lru_(s))) \/ ~ (d.usage_[s] > limit)

Inserted(c, d, held, hs, e, k, n, s, cap) ==
    \E a, b, m :
        /\ NowMade(c, a, held, hs, e, k, n)
        /\ ShardsOK(b, One(held, e), hs)
        /\ IF cap > 0 THEN Added(a, b, One(held, e), e, k) ELSE b = a
        /\ Evicted(b, d, One(held, e), hs, s, cap, m)
        /\ Enough(b, d, s, cap, m)

LEMMA InsertIs ==
    ASSUME NEW c, NEW held \in [Entries -> Nat], NEW hs \in [Keys -> 0 .. HashRange - 1], ShardsOK(c, held, hs),
           NEW e \in Entries, c.refs[e] = 0, NEW k \in Keys, NEW n \in Nat, NEW cap \in Nat,
           NEW s, s = Shard(hs[k]), NEW d, d = InsertInto(c, s, k, hs[k], e, n, cap)
    PROVE  ShardsOK(d, One(held, e), hs) /\ Inserted(c, d, held, hs, e, k, n, s, cap)
<1> DEFINE hash == hs[k]
           a == [c EXCEPT !.key[e] = k, !.hash[e] = hash, !.charge[e] = n, !.in_cache[e] = FALSE, !.refs[e] = 1]
           b == IF cap > 0 THEN AddToCache(a, s, e) ELSE a
           held2 == One(held, e)
<1>1. d = EvictOldest(b, s, cap)
  BY DEF InsertInto
<1>2. c \in States /\ hash \in 0 .. HashRange - 1 /\ hash \in Nat /\ s \in Shards
  <2>1. c \in States /\ hash \in 0 .. HashRange - 1
    BY DEF ShardsOK, Sound
  <2> QED
    BY <2>1, ShardIs
<1>3. Made(c, a, e, k, hash, n)
  <2>1. a = [c EXCEPT !.key[e] = k, !.hash[e] = hash, !.charge[e] = n, !.in_cache[e] = FALSE, !.refs[e] = 1]
    OBVIOUS
  <2> HIDE DEF a, hash
  <2> QED
    BY <1>2, <2>1, MakeEffect
<1> HIDE DEF a
<1>4. NowMade(c, a, held, hs, e, k, n)
  BY <1>3, MadeIs
<1>5. /\ ShardsOK(a, held2, hs) /\ e \notin CachedOf(a) /\ a.key[e] = k /\ a.hash[e] = hash
      /\ held2 \in [Entries -> Nat] /\ held2[e] = 1
  BY <1>4 DEF NowMade, One
<1>6. ShardsOK(b, held2, hs) /\ IF cap > 0 THEN Added(a, b, held2, e, k) ELSE b = a
  <2>1. CASE cap > 0
    <3>1. b = AddToCache(a, s, e) /\ s = Shard(a.hash[e])
      BY <1>5, <2>1
    <3> HIDE DEF b, held2
    <3>2. ShardsOK(b, held2, hs) /\ Added(a, b, held2, e, k)
      BY <1>5, <3>1, AddToCacheIs
    <3> QED
      BY <2>1, <3>2
  <2>2. CASE ~ (cap > 0)
    BY <1>5, <2>2
  <2> QED
    BY <2>1, <2>2
<1> HIDE DEF b, held2, hash
<1>7. PICK m : Evicted(b, d, held2, hs, s, cap, m) /\ (m = Len(ListOf(b, lru_(s))) \/ ~ (d.usage_[s] > cap))
  <2>1. cap \in Int
    OBVIOUS
  <2> QED
    BY <1>1, <1>2, <1>5, <1>6, <2>1, EvictOldestIs
<1>8. Enough(b, d, s, cap, m)
  BY <1>7 DEF Enough
<1>9. Inserted(c, d, held, hs, e, k, n, s, cap)
  BY <1>4, <1>6, <1>7, <1>8 DEF Inserted, held2
<1>10. ShardsOK(d, held2, hs)
  BY <1>7 DEF Evicted
<1> QED
  BY <1>9, <1>10 DEF held2

LEMMA UsageIsNat ==
    ASSUME NEW c, NEW held, NEW hs, ShardsOK(c, held, hs), NEW s \in Shards
    PROVE  c.usage_[s] \in Nat
<1> DEFINE S == InShard(c, CachedOf(c), s)
           F == c.charge
<1>1. c.usage_[s] = SumOf(F, S) /\ F \in [Entries -> Nat]
  BY DEF ShardsOK, Sound, UsageOK, States
<1>2. S \subseteq Entries
  BY DEF InShard, CachedOf
<1>3. IsFiniteSet(S)
  BY <1>2, FS_Subset, TableAssumption
<1>4. \A x \in S : F[x] \in Nat
  BY <1>1, <1>2
<1> HIDE DEF S, F
<1>5. SumOf(F, S) \in Nat
  BY <1>3, <1>4, SumType
<1> QED
  BY <1>1, <1>5

\* Prune takes every idle entry of the shard out of the cache.
Pruned(c, d, held, hs, s) ==
    /\ Evicted(c, d, held, hs, s, -1, Len(ListOf(c, lru_(s))))
    /\ CachedOf(d) = CachedOf(c) \ {e \in InShard(c, CachedOf(c), s) : held[e] = 0}

LEMMA PruneIs ==
    ASSUME NEW c, NEW held \in [Entries -> Nat], NEW hs \in [Keys -> 0 .. HashRange - 1], ShardsOK(c, held, hs),
           NEW s \in Shards, NEW d, d = PruneShard(c, s)
    PROVE  ShardsOK(d, held, hs) /\ Pruned(c, d, held, hs, s)
<1> DEFINE t == ListOf(c, lru_(s))
           I == {e \in InShard(c, CachedOf(c), s) : held[e] = 0}
<1>1. d = EvictOldest(c, s, -1) /\ -1 \in Int
  BY DEF PruneShard
<1>2. PICK m : Evicted(c, d, held, hs, s, -1, m) /\ (m = Len(ListOf(c, lru_(s))) \/ ~ (d.usage_[s] > -1))
  BY <1>1, EvictOldestIs
<1>3. ShardsOK(d, held, hs) /\ CachedOf(d) = CachedOf(c) \ FirstOf(t, m)
  BY <1>2 DEF Evicted
<1>4. d.usage_[s] \in Nat
  BY <1>3, UsageIsNat
<1>5. d.usage_[s] > -1
  BY <1>4
<1>6. m = Len(t)
  BY <1>2, <1>5
<1>7. t \in Seq(Entries) /\ ToSet(t) = I
  BY IdleIs DEF ShardsOK
<1> HIDE DEF t, I
<1>8. FirstOf(t, Len(t)) = I
  BY <1>7, ToSetIs DEF FirstOf
<1> QED
  BY <1>2, <1>3, <1>6, <1>8 DEF Pruned, t, I

(***************************************************************************)
(* The destructor.                                                         *)
(***************************************************************************)
\* What the destructor does to one entry of lru_.
DropStep(c, s, e) == Unref([c EXCEPT !.in_cache[e] = FALSE], s, e)

\* The destructor has dropped the entries X.
Dropped(c, d, X) ==
    /\ X \subseteq Entries /\ d \in States /\ CachedOf(d) = CachedOf(c) \ X
    /\ \A x \in X : d.refs[x] = 0
    /\ \A x \in Entries \ X : d.refs[x] = c.refs[x]
    /\ \A x \in Nodes \ X : d.next[x] = c.next[x] /\ d.prev[x] = c.prev[x]

\* Its effect, for any number of references.
DropEffect(c, d, e) ==
    /\ d \in States /\ CachedOf(d) = CachedOf(c) \ {e}
    /\ d.refs = [c.refs EXCEPT ![e] = c.refs[e] - 1]
    /\ \A x \in Nodes \ {e} : d.next[x] = c.next[x] /\ d.prev[x] = c.prev[x]

LEMMA DropStepIs ==
    ASSUME NEW c \in States, NEW s, NEW e \in Entries, NEW d, d = DropStep(c, s, e)
    PROVE  DropEffect(c, d, e)
<1> DEFINE F == [c.in_cache EXCEPT ![e] = FALSE]
           a == [c EXCEPT !.in_cache = F]
           n == c.refs[e] - 1
           b == [a EXCEPT !.refs[e] = n]
<1>1. d = Unref(a, s, e)
  BY DEF DropStep
<1>2. F \in [Entries -> BOOLEAN] /\ n \in Int /\ a = [c EXCEPT !.in_cache = F] /\ ~ F[e]
  <2>1. c.in_cache \in [Entries -> BOOLEAN] /\ c.refs \in [Entries -> Int]
    BY DEF States
  <2>2. n \in Int
    BY <2>1
  <2>3. F \in [Entries -> BOOLEAN] /\ ~ F[e]
    BY <2>1, Zenon
  <2> QED
    BY <2>2, <2>3
<1>3. F = [c.in_cache EXCEPT ![e] = FALSE]
  OBVIOUS
<1> HIDE DEF F
<1>4. /\ a \in States /\ a.in_cache = F /\ a.refs = c.refs /\ a.next = c.next /\ a.prev = c.prev
  BY <1>2 DEF States
<1>5. b = [a EXCEPT !.refs[e] = n] /\ b = [a EXCEPT !.refs[e] = @ - 1]
  BY <1>4
<1> HIDE DEF a
<1>6. RefsSet(a, b, e, n)
  <2> HIDE DEF b, n
  <2> QED
    BY <1>2, <1>4, <1>5, RefsEffect
<1> HIDE DEF b
<1>7. /\ b \in States /\ b.refs = [c.refs EXCEPT ![e] = n] /\ b.in_cache = F
      /\ b.next = c.next /\ b.prev = c.prev
  BY <1>4, <1>6 DEF RefsSet, SameLists
<1>8. b.refs[e] = n /\ ~ b.in_cache[e]
  <2>1. c.refs \in [Entries -> Int]
    BY DEF States
  <2> QED
    BY <1>2, <1>7, <2>1
<1>9. d = IF n = 0 THEN Free(b, e) ELSE b
  BY <1>1, <1>5, <1>8 DEF Unref
<1>10. CachedOf(b) = CachedOf(c) \ {e}
  <2>1. Uncaches(c, b, e)
    BY <1>3, <1>7 DEF Uncaches
  <2> QED
    BY <2>1, UncachesIs
<1>11. CASE n # 0
  <2>1. d = b
    BY <1>9, <1>11
  <2> QED
    BY <1>7, <1>10, <2>1 DEF DropEffect, n
<1>12. CASE n = 0
  <2>1. d = Free(b, e)
    BY <1>9, <1>12
  <2>2. Freed(b, d, e)
    BY <1>7, <2>1, FreeEffect
  <2>3. d \in States /\ d.refs = b.refs /\ d.in_cache = b.in_cache
    BY <2>2 DEF Freed, SameCounts
  <2>4. CachedOf(d) = CachedOf(b)
    BY <2>3 DEF CachedOf
  <2>5. \A x \in Nodes \ {e} : d.next[x] = c.next[x] /\ d.prev[x] = c.prev[x]
    <3>1. b.next \in [Nodes -> Nodes \cup {Nil}] /\ b.prev \in [Nodes -> Nodes \cup {Nil}]
      BY <1>7 DEF States
    <3>2. d.next = [b.next EXCEPT ![e] = Nil] /\ d.prev = [b.prev EXCEPT ![e] = Nil]
      BY <2>2 DEF Freed
    <3> QED
      BY <1>7, <3>1, <3>2
  <2> QED
    BY <1>7, <1>10, <2>3, <2>4, <2>5 DEF DropEffect, n
<1> QED
  BY <1>11, <1>12

LEMMA DropOne ==
    ASSUME NEW c, NEW d, NEW X, Dropped(c, d, X), NEW s, NEW e \in Entries, e \notin X, c.refs[e] = 1,
           NEW b, b = DropStep(d, s, e)
    PROVE  Dropped(c, b, X \cup {e})
<1>1. /\ X \subseteq Entries /\ d \in States /\ CachedOf(d) = CachedOf(c) \ X
      /\ \A x \in X : d.refs[x] = 0
      /\ \A x \in Entries \ X : d.refs[x] = c.refs[x]
      /\ \A x \in Nodes \ X : d.next[x] = c.next[x] /\ d.prev[x] = c.prev[x]
  BY DEF Dropped
<1>2. DropEffect(d, b, e)
  BY <1>1, DropStepIs
<1>3. /\ b \in States /\ CachedOf(b) = CachedOf(d) \ {e}
      /\ b.refs = [d.refs EXCEPT ![e] = d.refs[e] - 1]
      /\ \A x \in Nodes \ {e} : b.next[x] = d.next[x] /\ b.prev[x] = d.prev[x]
  BY <1>2 DEF DropEffect
<1>4. CachedOf(b) = CachedOf(c) \ (X \cup {e})
  BY <1>1, <1>3
<1>5. d.refs \in [Entries -> Int] /\ d.refs[e] = 1
  BY <1>1 DEF States
<1>6. \A x \in X \cup {e} : b.refs[x] = 0
  BY <1>1, <1>3, <1>5
<1>7. \A x \in Entries \ (X \cup {e}) : b.refs[x] = c.refs[x]
  BY <1>1, <1>3, <1>5
<1>8. \A x \in Nodes \ (X \cup {e}) : b.next[x] = c.next[x] /\ b.prev[x] = c.prev[x]
  BY <1>1, <1>3
<1> QED
  BY <1>1, <1>3, <1>4, <1>6, <1>7, <1>8 DEF Dropped

\* The idle entries of a shard, and lru_ that lists them.
IdleIn(c, held, s) == {e \in InShard(c, CachedOf(c), s) : held[e] = 0}

IdleList(c, held, s, t) == t \in Seq(Entries) /\ Inj(t) /\ Len(t) \in Nat /\ ToSet(t) = IdleIn(c, held, s)

LEMMA IdleListIs ==
    ASSUME NEW c, NEW held \in [Entries -> Nat], NEW hs, ShardsOK(c, held, hs), NEW s \in Shards
    PROVE  IdleList(c, held, s, ListOf(c, lru_(s)))
<1> DEFINE t == ListOf(c, lru_(s))
           I == {e \in InShard(c, CachedOf(c), s) : held[e] = 0}
<1>1. t \in Seq(Entries) /\ Inj(t) /\ Len(t) \in Nat
  BY IdleIs DEF ShardsOK
<1>2. ToSet(t) = I
  BY IdleIs DEF ShardsOK
<1> QED
  BY <1>1, <1>2 DEF IdleList, IdleIn

IsDestroy(w, c, s, t) ==
    w = [n \in 0 .. Len(t) |-> IF n = 0 THEN c ELSE DropStep(w[n - 1], s, t[n])]

LEMMA DestroyShardIs ==
    ASSUME NEW c, NEW held \in [Entries -> Nat], NEW hs, ShardsOK(c, held, hs), NEW d, NEW X, Dropped(c, d, X),
           NEW s \in Shards, X \cap ToSet(ListOf(c, lru_(s))) = {}, NEW b, b = DestroyShard(d, s)
    PROVE  Dropped(c, b, X \cup ToSet(ListOf(c, lru_(s))))
<1> DEFINE t == ListOf(c, lru_(s))
           N == Len(t)
           V == States
           G == [n \in 1 .. N |-> [x \in V |-> DropStep(x, s, t[n])]]
<1>1. Sound(c, held, hs) /\ RefsOK(c, held)
  BY DEF ShardsOK, Sound
<1>2. t \in Seq(Entries) /\ Inj(t) /\ N \in Nat /\ ToSet(t) = {e \in InShard(c, CachedOf(c), s) : held[e] = 0}
  <2>1. IdleList(c, held, s, t)
    BY IdleListIs
  <2> QED
    BY <2>1 DEF IdleList, IdleIn
<1>3. lru_(s) \in Heads /\ lru_(s) \notin Entries
  BY HeadFacts
<1>4. Ring(c.next, c.prev, lru_(s), t)
  <2>1. Lists(c, CachedOf(c), PlaceOf(c, held))
    BY <1>1 DEF Sound
  <2> QED
    BY <1>3, <2>1 DEF Lists, Listed
<1>5. \A e \in ToSet(t) : c.refs[e] = 1 /\ e \in Entries
  BY <1>1, <1>2 DEF RefsOK, InShard, CachedOf
<1>6. b = LET u == ListOf(d, lru_(s)) IN (CHOOSE w : IsDestroy(w, d, s, u))[Len(u)]
  BY DEF DestroyShard, IsDestroy, DropStep
<1>7. X \cap ToSet(t) = {}
  OBVIOUS
<1> HIDE DEF t
<1>8. ListOf(d, lru_(s)) = t
  <2> DEFINE h == lru_(s)
             nx == c.next
             pv == c.prev
             nx2 == d.next
             pv2 == d.prev
  <2>1. \A x \in {h} \cup ToSet(t) : x \in Nodes \ X
    <3>1. X \subseteq Entries
      BY DEF Dropped
    <3> QED
      BY <1>3, <1>5, <1>7, <3>1 DEF Nodes
  <2>2. \A x \in {h} \cup ToSet(t) : nx2[x] = nx[x] /\ pv2[x] = pv[x]
    BY <2>1 DEF Dropped
  <2>3. h \in Heads /\ Ring(nx, pv, h, t)
    BY <1>3, <1>4
  <2> HIDE DEF h, nx, pv, nx2, pv2
  <2>4. Ring(nx2, pv2, h, t)
    BY <1>2, <2>2, <2>3, RingFrame
  <2>5. Ring(d.next, d.prev, h, t)
    BY <2>4 DEF nx2, pv2
  <2>6. ListOf(d, h) = t
    BY <1>2, <2>3, <2>5, ListedIs
  <2> QED
    BY <2>6 DEF h
<1>9. b = (CHOOSE w : IsDestroy(w, d, s, t))[N]
  BY <1>6, <1>8
<1>10. \A n \in 1 .. N : t[n] \in Entries /\ t[n] \in ToSet(t)
  BY <1>2, ToSetIs
<1>11. ASSUME NEW n \in 1 .. N, NEW x \in V PROVE DropStep(x, s, t[n]) \in V
  <2>1. t[n] \in Entries
    BY <1>10
  <2> DEFINE y == DropStep(x, s, t[n])
  <2>2. y = DropStep(x, s, t[n])
    OBVIOUS
  <2> HIDE DEF y
  <2>3. DropEffect(x, y, t[n])
    BY <2>1, <2>2, DropStepIs
  <2> QED
    BY <2>2, <2>3 DEF DropEffect
<1>12. d \in V
  BY DEF Dropped
<1> HIDE DEF V
<1>13. G \in [1 .. N -> [V -> V]] /\ \A n \in 1 .. N, x \in V : G[n][x] = DropStep(x, s, t[n])
  BY <1>11
<1> HIDE DEF G, N
<1>14. PICK f : IsLoop(f, N, V, d, G)
  BY <1>2, <1>12, <1>13, LoopExists
<1>15. f \in [0 .. N -> V] /\ f = [n \in 0 .. N |-> IF n = 0 THEN d ELSE G[n][f[n - 1]]]
  BY <1>14 DEF IsLoop
<1>16. f = [n \in 0 .. N |-> IF n = 0 THEN d ELSE DropStep(f[n - 1], s, t[n])]
  <2>1. \A n \in 0 .. N : n # 0 => n \in 1 .. N /\ n - 1 \in 0 .. N /\ f[n - 1] \in V
    BY <1>2, <1>15
  <2> QED
    BY <1>13, <1>15, <2>1
<1>17. IsDestroy(f, d, s, t)
  BY <1>16 DEF IsDestroy, N
<1> DEFINE w == CHOOSE w : IsDestroy(w, d, s, t)
<1>18. IsDestroy(w, d, s, t) /\ b = w[N]
  BY <1>9, <1>17
<1> HIDE DEF w
<1>19. w = [n \in 0 .. N |-> IF n = 0 THEN d ELSE DropStep(w[n - 1], s, t[n])]
  BY <1>18 DEF IsDestroy, N
<1> DEFINE S == {n \in 0 .. N : Dropped(c, w[n], X \cup FirstOf(t, n))}
<1>20. 0 \in S
  <2>1. 0 \in 0 .. N /\ w[0] = d
    BY <1>2, <1>19
  <2>2. X \cup FirstOf(t, 0) = X
    BY DEF FirstOf
  <2> QED
    BY <2>1, <2>2
<1>21. ASSUME NEW n \in 1 .. N, n - 1 \in S PROVE n \in S
  <2> DEFINE x == w[n - 1]
             y == w[n]
             e == t[n]
             Y == X \cup FirstOf(t, n - 1)
  <2>1. n \in 0 .. N /\ y = DropStep(x, s, e) /\ n - 1 \in 0 .. N
    BY <1>2, <1>19
  <2>2. Dropped(c, x, Y)
    BY <1>21
  <2>3. e \in Entries /\ e \in ToSet(t) /\ c.refs[e] = 1
    BY <1>5, <1>10
  <2>4. e \notin Y
    <3>1. ASSUME NEW i \in 1 .. n - 1 PROVE t[i] # e
      <4>1. i \in 1 .. N /\ i # n
        BY <1>2
      <4> QED
        BY <1>2, <4>1 DEF Inj, N
    <3> QED
      BY <1>7, <2>3, <3>1 DEF FirstOf
  <2>5. X \cup FirstOf(t, n) = Y \cup {e}
    <3>1. \A i \in 1 .. n : i \in 1 .. n - 1 \/ i = n
      BY <1>2
    <3>2. n \in 1 .. n /\ \A i \in 1 .. n - 1 : i \in 1 .. n
      BY <1>2
    <3> QED
      BY <3>1, <3>2 DEF FirstOf
  <2> HIDE DEF x, y, e, Y, S
  <2>6. Dropped(c, y, Y \cup {e})
    BY <2>1, <2>2, <2>3, <2>4, DropOne
  <2> QED
    BY <2>1, <2>5, <2>6 DEF S, y
<1> HIDE DEF S
<1>22. N \in S
  <2>1. N \in Nat /\ N \in 0 .. N
    BY <1>2
  <2>2. \A n \in 1 .. N : n - 1 \in S => n \in S
    BY <1>21
  <2>3. \A n \in 0 .. N : n \in S
    BY <1>20, <2>1, <2>2, StepByStep
  <2> QED
    BY <2>1, <2>3
<1>23. Dropped(c, b, X \cup FirstOf(t, N))
  BY <1>18, <1>22 DEF S
<1>24. FirstOf(t, N) = ToSet(t)
  BY <1>2, ToSetIs DEF FirstOf, N
<1> QED
  BY <1>23, <1>24 DEF t

IsDestroyAll(w, c) ==
    w = [n \in 0 .. kNumShards |-> IF n = 0 THEN c ELSE DestroyShard(w[n - 1], n - 1)]

\* The idle entries of the first n shards.
IdleBelow(c, held, n) == {e \in CachedOf(c) : held[e] = 0 /\ Shard(c.hash[e]) < n}

LEMMA DestroyNext ==
    ASSUME NEW c, NEW held \in [Entries -> Nat], NEW hs, ShardsOK(c, held, hs),
           NEW n \in 1 .. kNumShards, NEW d, Dropped(c, d, IdleBelow(c, held, n - 1)),
           NEW b, b = DestroyShard(d, n - 1)
    PROVE  Dropped(c, b, IdleBelow(c, held, n))
<1> DEFINE s == n - 1
           X == IdleBelow(c, held, s)
           T == ToSet(ListOf(c, lru_(s)))
<1>1. kNumShards \in Nat \ {0}
  BY CacheAssumption
<1>2. s \in Shards /\ n = s + 1 /\ s \in Nat
  BY <1>1 DEF Shards
<1>3. Dropped(c, d, X) /\ b = DestroyShard(d, s)
  OBVIOUS
<1>4. \A e \in CachedOf(c) : Shard(c.hash[e]) \in Nat
  <2>1. \A e \in CachedOf(c) : c.hash[e] \in 0 .. HashRange - 1
    BY DEF ShardsOK, Sound, Hashed, CachedOf
  <2>2. \A e \in CachedOf(c) : Shard(c.hash[e]) \in Shards
    BY <2>1, ShardIs
  <2> QED
    BY <1>1, <2>2 DEF Shards
<1> HIDE DEF s, X
<1>5. T = IdleIn(c, held, s)
  BY <1>2, IdleListIs DEF IdleList
<1>6. X \cap T = {}
  <2>1. \A e \in X : ~ (Shard(c.hash[e]) = s)
    BY <1>2, <1>4 DEF X, IdleBelow
  <2> QED
    BY <1>5, <2>1 DEF IdleIn, InShard
<1>7. Dropped(c, b, X \cup T)
  BY <1>2, <1>3, <1>6, DestroyShardIs
<1>8. X \cup T = IdleBelow(c, held, n)
  <2> HIDE DEF T
  <2>1. \A e \in CachedOf(c) : Shard(c.hash[e]) < n <=> Shard(c.hash[e]) < s \/ Shard(c.hash[e]) = s
    BY <1>2, <1>4
  <2> QED
    BY <1>5, <2>1 DEF X, IdleBelow, IdleIn, InShard
<1> QED
  BY <1>7, <1>8

LEMMA DestroyIs ==
    ASSUME NEW c, NEW held \in [Entries -> Nat], NEW hs, ShardsOK(c, held, hs),
           NEW d, d = (CHOOSE w : IsDestroyAll(w, c))[kNumShards]
    PROVE  Dropped(c, d, IdleBelow(c, held, kNumShards))
<1> DEFINE N == kNumShards
           V == States
           Step(n, x) == DestroyShard(x, n - 1)
           G == [n \in 1 .. N |-> [x \in V |-> IF Step(n, x) \in V THEN Step(n, x) ELSE x]]
<1>1. N \in Nat \ {0} /\ N \in 0 .. N
  BY CacheAssumption
<1>2. c \in V
  BY DEF ShardsOK, Sound
<1>3. Dropped(c, c, IdleBelow(c, held, 0))
  <2>1. \A e \in CachedOf(c) : ~ (Shard(c.hash[e]) < 0)
    <3>1. \A e \in CachedOf(c) : c.hash[e] \in 0 .. HashRange - 1
      BY DEF ShardsOK, Sound, Hashed, CachedOf
    <3>2. \A e \in CachedOf(c) : Shard(c.hash[e]) \in Shards
      BY <3>1, ShardIs
    <3> QED
      BY <1>1, <3>2 DEF Shards
  <2>2. IdleBelow(c, held, 0) = {}
    BY <2>1 DEF IdleBelow
  <2> QED
    BY <1>2, <2>2 DEF Dropped
<1> HIDE DEF V
<1>4. G \in [1 .. N -> [V -> V]] /\ \A n \in 1 .. N, x \in V : Step(n, x) \in V => G[n][x] = Step(n, x)
  OBVIOUS
<1> HIDE DEF G
<1>5. PICK f : IsLoop(f, N, V, c, G)
  BY <1>1, <1>2, <1>4, LoopExists
<1>6. f \in [0 .. N -> V] /\ f = [n \in 0 .. N |-> IF n = 0 THEN c ELSE G[n][f[n - 1]]]
  BY <1>5 DEF IsLoop
<1>7. ASSUME NEW n \in 1 .. N, Dropped(c, f[n - 1], IdleBelow(c, held, n - 1))
      PROVE  f[n] = Step(n, f[n - 1]) /\ Dropped(c, f[n], IdleBelow(c, held, n))
  <2>1. f[n] = G[n][f[n - 1]] /\ f[n - 1] \in V
    BY <1>1, <1>6
  <2> DEFINE x == f[n - 1]
             y == DestroyShard(x, n - 1)
  <2>2. Dropped(c, x, IdleBelow(c, held, n - 1)) /\ y = DestroyShard(x, n - 1)
    BY <1>7
  <2> HIDE DEF x, y
  <2>3. Dropped(c, y, IdleBelow(c, held, n))
    BY <2>2, DestroyNext
  <2>4. y \in V
    BY <2>3 DEF Dropped, V
  <2>5. f[n] = y
    BY <1>4, <2>1, <2>4 DEF x, y
  <2> QED
    BY <2>3, <2>5 DEF x, y
<1> DEFINE S == {n \in 0 .. N : Dropped(c, f[n], IdleBelow(c, held, n))}
<1>8. 0 \in S
  <2>1. 0 \in 0 .. N /\ f[0] = c
    BY <1>1, <1>6
  <2> QED
    BY <1>3, <2>1
<1>9. \A n \in 1 .. N : n - 1 \in S => n \in S
  <2>1. \A n \in 1 .. N : n \in 0 .. N
    BY <1>1
  <2> QED
    BY <1>7, <2>1
<1> HIDE DEF S
<1>10. \A n \in 0 .. N : n \in S
  BY <1>1, <1>8, <1>9, StepByStep
<1>11. f = [n \in 0 .. N |-> IF n = 0 THEN c ELSE DestroyShard(f[n - 1], n - 1)]
  <2>1. \A n \in 0 .. N : n # 0 => n \in 1 .. N /\ n - 1 \in 0 .. N
    BY <1>1
  <2>2. \A n \in 0 .. N : n # 0 => f[n] = DestroyShard(f[n - 1], n - 1)
    BY <1>7, <1>10, <2>1 DEF S
  <2>3. \A n \in 0 .. N : f[n] = IF n = 0 THEN c ELSE DestroyShard(f[n - 1], n - 1)
    BY <1>6, <2>2
  <2> QED
    BY <1>6, <2>3
<1>12. IsDestroyAll(f, c)
  BY <1>11 DEF IsDestroyAll
<1> DEFINE w == CHOOSE w : IsDestroyAll(w, c)
<1>13. IsDestroyAll(w, c) /\ d = w[N]
  BY <1>12
<1> HIDE DEF w
<1>14. w = [n \in 0 .. N |-> IF n = 0 THEN c ELSE DestroyShard(w[n - 1], n - 1)]
  BY <1>13 DEF IsDestroyAll
<1>15. w[N] = f[N]
  <2>1. w[0] = f[0]
    BY <1>1, <1>11, <1>14
  <2>2. ASSUME NEW n \in 1 .. N, w[n - 1] = f[n - 1] PROVE w[n] = f[n]
    <3>1. n \in 0 .. N /\ n # 0
      BY <1>1
    <3>2. w[n] = DestroyShard(w[n - 1], n - 1)
      BY <1>14, <3>1
    <3>3. f[n] = DestroyShard(f[n - 1], n - 1)
      BY <1>11, <3>1
    <3> QED
      BY <2>2, <3>2, <3>3
  <2> QED
    BY <1>1, <2>1, <2>2, SameWalk
<1> QED
  BY <1>1, <1>10, <1>13, <1>15 DEF S

LEMMA DroppedRefs ==
    ASSUME NEW c, NEW held \in [Entries -> Nat], NEW hs, ShardsOK(c, held, hs),
           NEW d, NEW n, Dropped(c, d, IdleBelow(c, held, n))
    PROVE  RefsOK(d, held) /\ d \in States
<1> DEFINE X == IdleBelow(c, held, n)
<1>1. /\ X \subseteq Entries /\ d \in States /\ CachedOf(d) = CachedOf(c) \ X
      /\ \A x \in X : d.refs[x] = 0
      /\ \A x \in Entries \ X : d.refs[x] = c.refs[x]
  BY DEF Dropped
<1>2. \A x \in X : held[x] = 0
  BY DEF IdleBelow
<1>3. RefsOK(c, held)
  BY DEF ShardsOK, Sound
<1> HIDE DEF X
<1>4. ASSUME NEW x \in Entries PROVE d.refs[x] = held[x] + (IF x \in CachedOf(d) THEN 1 ELSE 0)
  <2>1. CASE x \in X
    BY <1>1, <1>2, <2>1
  <2>2. CASE x \notin X
    <3>1. x \in CachedOf(d) <=> x \in CachedOf(c)
      BY <1>1, <2>2
    <3> QED
      BY <1>1, <1>3, <2>2, <3>1 DEF RefsOK
  <2> QED
    BY <2>1, <2>2
<1> QED
  BY <1>1, <1>4 DEF RefsOK

(***************************************************************************)
(* The cache as it is made.                                                *)
(***************************************************************************)
\* The cache as it is made.
LEMMA EmptyIs ==
    ASSUME NEW c, c = EmptyShards(Shards)
    PROVE  /\ c \in States /\ CachedOf(c) = {}
           /\ c.next = [n \in Nodes |-> IF n \in Heads THEN n ELSE Nil] /\ c.prev = c.next
           /\ c.refs = [e \in Entries |-> 0] /\ c.hash = [e \in Entries |-> 0]
           /\ c.usage_ = [s \in Shards |-> 0] /\ c.elems_ = [s \in Shards |-> 0]
           /\ c.list_ = [s \in Shards |-> [b \in 0 .. kInitialLength - 1 |-> Nil]]
<1> DEFINE itself == [n \in Nodes |-> IF n \in Heads THEN n ELSE Nil]
           none == [e \in Entries |-> Nil]
           zero == [e \in Entries |-> 0]
           no == [e \in Entries |-> FALSE]
           nought == [s \in Shards |-> 0]
           table == [b \in 0 .. kInitialLength - 1 |-> Nil]
           tables == [s \in Shards |-> table]
<1>1. c = [next |-> itself, prev |-> itself, key |-> none, charge |-> zero, in_cache |-> no, refs |-> zero,
           hash |-> zero, next_hash |-> none, usage_ |-> nought, elems_ |-> nought, list_ |-> tables]
  BY DEF EmptyShards, Nodes, Heads
<1>2. itself \in [Nodes -> Nodes \cup {Nil}]
  BY DEF Nodes
<1>3. kInitialLength \in Nat \ {0}
  <2>1. PICK n \in 0 .. 5 : kInitialLength = 2^n
    BY TableAssumption
  <2>2. n = 0 \/ n = 1 \/ n = 2 \/ n = 3 \/ n = 4 \/ n = 5
    BY <2>1
  <2>3. 2^0 = 1 /\ 2^1 = 2 /\ 2^2 = 4 /\ 2^3 = 8 /\ 2^4 = 16 /\ 2^5 = 32
    OBVIOUS
  <2>4. kInitialLength \in {1, 2, 4, 8, 16, 32}
    BY <2>1, <2>2, <2>3
  <2> QED
    BY <2>4
<1>4. table \in Tables
  <2>1. table \in [0 .. kInitialLength - 1 -> Entries \cup {Nil}]
    OBVIOUS
  <2> QED
    BY <1>3, <2>1 DEF Tables
<1>5. tables \in [Shards -> Tables]
  BY <1>4
<1>6. /\ none \in [Entries -> Keys \cup {Nil}] /\ none \in [Entries -> Entries \cup {Nil}]
      /\ zero \in [Entries -> Nat] /\ zero \in [Entries -> Int] /\ nought \in [Shards -> Int]
  OBVIOUS
<1>7. no \in [Entries -> BOOLEAN] /\ \A e \in Entries : ~ no[e]
  OBVIOUS
<1> HIDE DEF itself, none, zero, no, nought, tables
<1>8. c \in States /\ c.in_cache = no
  BY <1>1, <1>2, <1>5, <1>6, <1>7 DEF States
<1>9. CachedOf(c) = {}
  BY <1>7, <1>8 DEF CachedOf
<1>10. /\ c.next = itself /\ c.prev = itself /\ c.refs = zero /\ c.hash = zero
       /\ c.usage_ = nought /\ c.elems_ = nought /\ c.list_ = tables
  BY <1>1
<1> QED
  BY <1>8, <1>9, <1>10 DEF itself, zero, nought, tables

LEMMA EmptyOK ==
    ASSUME NEW c, c = EmptyShards(Shards), NEW held, held = [e \in Entries |-> 0], NEW hs
    PROVE  ShardsOK(c, held, hs)
<1>1. /\ c \in States /\ CachedOf(c) = {}
      /\ c.next = [n \in Nodes |-> IF n \in Heads THEN n ELSE Nil] /\ c.prev = c.next
      /\ c.refs = [e \in Entries |-> 0] /\ c.hash = [e \in Entries |-> 0]
      /\ c.usage_ = [s \in Shards |-> 0] /\ c.elems_ = [s \in Shards |-> 0]
      /\ c.list_ = [s \in Shards |-> [b \in 0 .. kInitialLength - 1 |-> Nil]]
  BY EmptyIs
<1>2. Hashed(c, hs)
  <2>1. 0 \in 0 .. HashRange - 1
    BY CacheAssumption
  <2> QED
    BY <1>1, <2>1 DEF Hashed
<1>3. RefsOK(c, held)
  BY <1>1 DEF RefsOK
<1>4. \A s \in Shards : InShard(c, {}, s) = {}
  BY DEF InShard
<1>5. UsageOK(c)
  BY <1>1, <1>4, SumEmpty DEF UsageOK
<1>6. Lists(c, {}, PlaceOf(c, held))
  <2>1. ASSUME NEW h \in Heads PROVE Listed(c, h, {})
    <3> DEFINE t == <<>>
    <3>1. t \in Seq(Entries) /\ Inj(t) /\ Len(t) = 0 /\ ToSet(t) = {}
      BY DEF Inj, ToSet
    <3>2. c.next[h] = h /\ c.prev[h] = h
      BY <1>1 DEF Nodes
    <3>3. \A j \in 0 .. Len(t) : At(h, t, j) = h /\ At(h, t, j + 1) = h
      BY <3>1 DEF At
    <3>4. Ring(c.next, c.prev, h, t)
      BY <3>2, <3>3 DEF Ring
    <3> HIDE DEF t
    <3>5. Listed(c, h, ToSet(t))
      BY <3>1, <3>4, ListedIs
    <3> QED
      BY <3>1, <3>5
  <2>2. \A h \in Heads : {e \in {} : PlaceOf(c, held)[e] = h} = {}
    OBVIOUS
  <2> QED
    BY <2>1, <2>2 DEF Lists
<1>7. TableOK(c, {})
  <2>1. InTables(c, {})
    <3>1. ASSUME NEW s \in Shards, NEW b \in 0 .. length_(c, s) - 1
          PROVE  IsChain(c, s, b, <<>>) /\ ToSet(<<>>) = {e \in {} : InBucket(c, e, s, b)}
      <4>1. c.list_[s] \in [0 .. length_(c, s) - 1 -> Entries \cup {Nil}]
        BY <1>1, LengthIs
      <4>2. c.list_[s] = [x \in 0 .. kInitialLength - 1 |-> Nil]
        BY <1>1
      <4>3. c.list_[s][b] = Nil
        BY <4>1, <4>2
      <4>4. <<>> \in Seq(Entries) /\ Len(<<>>) = 0 /\ Inj(<<>>) /\ Link(<<>>, 1) = Nil
        BY DEF Inj, Link
      <4>5. \A i \in 1 .. Len(<<>>) : c.next_hash[<<>>[i]] = Link(<<>>, i + 1)
        BY <4>4
      <4>6. ToSet(<<>>) = {}
        BY DEF ToSet
      <4> QED
        BY <4>3, <4>4, <4>5, <4>6 DEF IsChain
    <3> QED
      BY <3>1 DEF InTables
  <2>2. ASSUME NEW s \in Shards PROVE c.elems_[s] = Cardinality(InShard(c, {}, s)) /\ c.elems_[s] <= length_(c, s)
    <3>1. Cardinality({}) = 0
      BY FS_EmptySet
    <3>2. length_(c, s) \in Nat
      BY <1>1, LengthIs
    <3>3. c.elems_[s] = 0
      BY <1>1
    <3> QED
      BY <1>4, <3>1, <3>2, <3>3
  <2> QED
    BY <2>1, <2>2 DEF TableOK
<1>8. UniqueIn(c, {})
  BY DEF UniqueIn
<1> QED
  BY <1>1, <1>2, <1>3, <1>5, <1>6, <1>7, <1>8 DEF ShardsOK, Sound

(***************************************************************************)
(* The inductive invariant of the shards.                                  *)
(***************************************************************************)
CacheInv ==
    /\ HashSlice \in [Keys -> 0 .. HashRange - 1]
    /\ handles \in [Entries -> Nat] /\ capacity_ \in Nat
    /\ destroyed \in BOOLEAN /\ (destroyed => walk = NoWalk)
    /\ shard_ \in States /\ RefsOK(shard_, handles)
    /\ ~ destroyed => ShardsOK(shard_, handles, HashSlice)

LEMMA ShardsOKGives ==
    ASSUME NEW c, NEW held, NEW hs, ShardsOK(c, held, hs)
    PROVE  c \in States /\ RefsOK(c, held)
BY DEF ShardsOK, Sound

\* What a step of a method that is not Insert does to the cached entries: some may leave.
Shrinks(c, d) ==
    /\ CachedOf(d) \subseteq CachedOf(c)
    /\ \A x \in CachedOf(d) : d.key[x] = c.key[x] /\ d.hash[x] = c.hash[x] /\ d.charge[x] = c.charge[x]

LEMMA InsertStep ==
    ASSUME CacheInv, NEW k \in Keys, NEW e \in Entries, NEW n \in Charges, Insert(k, e, n)
    PROVE  /\ CacheInv' /\ ~ destroyed /\ handles' = One(handles, e)
           /\ Inserted(shard_, shard_', handles, HashSlice, e, k, n, Shard(HashSlice[k]), capacity_)
<1> DEFINE c == shard_
           d == shard_'
           s == Shard(HashSlice[k])
<1>1. ~ destroyed /\ ShardsOK(c, handles, HashSlice) /\ c.refs[e] = 0 /\ n \in Nat
  BY CacheAssumption DEF CacheInv, Insert
<1>2. /\ handles \in [Entries -> Nat] /\ HashSlice \in [Keys -> 0 .. HashRange - 1] /\ capacity_ \in Nat
      /\ d = InsertInto(c, s, k, HashSlice[k], e, n, capacity_) /\ s = Shard(HashSlice[k])
  BY DEF CacheInv, Insert
<1> HIDE DEF c, d, s
<1>3. ShardsOK(d, One(handles, e), HashSlice) /\ Inserted(c, d, handles, HashSlice, e, k, n, s, capacity_)
  BY <1>1, <1>2, InsertIs
<1>4. handles' = One(handles, e) /\ handles' \in [Entries -> Nat]
  BY <1>2 DEF Insert, One
<1>5. UNCHANGED <<HashSlice, capacity_, walk, destroyed>>
  BY DEF Insert
<1>6. ShardsOK(d, handles', HashSlice')
  BY <1>3, <1>4, <1>5
<1>7. d \in States /\ RefsOK(d, handles')
  BY <1>6, ShardsOKGives
<1>8. CacheInv'
  BY <1>4, <1>5, <1>6, <1>7 DEF CacheInv, d
<1> QED
  BY <1>1, <1>3, <1>4, <1>8 DEF c, d, s

\* e is the entry cached under k, or Nil.
EntryOf(c, hs, k, e) ==
    /\ e = Nil => \A f \in CachedOf(c) : c.key[f] # k
    /\ e # Nil => e \in CachedOf(c) /\ c.key[e] = k /\ c.hash[e] = hs[k]

LEMMA LookupIsCached ==
    ASSUME NEW c, NEW held \in [Entries -> Nat], NEW hs \in [Keys -> 0 .. HashRange - 1], ShardsOK(c, held, hs),
           NEW k \in Keys, NEW e, e = TableLookup(c, Shard(hs[k]), k, hs[k])
    PROVE  EntryOf(c, hs, k, e)
<1> DEFINE d == EraseKey(c, Shard(hs[k]), k, hs[k])
<1>1. d = EraseKey(c, Shard(hs[k]), k, hs[k])
  OBVIOUS
<1> HIDE DEF d
<1>2. KeyErased(c, d, held, k, e)
  BY <1>1, EraseKeyIs
<1>3. Hashed(c, hs)
  BY DEF ShardsOK, Sound
<1> QED
  BY <1>2, <1>3 DEF KeyErased, Hashed, CachedOf, EntryOf

\* Lookup, for the entry e it finds.
Found(e, k) ==
    /\ e \in CachedOf(shard_) /\ shard_.key[e] = k /\ shard_.hash[e] = HashSlice[k]
    /\ handles' = More(handles, e) /\ Kept(shard_, shard_')
    /\ shard_'.refs = [shard_.refs EXCEPT ![e] = handles[e] + 2]
    /\ handles[e] = 0 => IdleLeft(shard_, shard_', Shard(HashSlice[k]), e)
    /\ handles[e] # 0 => IdleSame(shard_, shard_')

LEMMA LookupStep ==
    ASSUME CacheInv, NEW k \in Keys, Lookup(k)
    PROVE  CacheInv' /\ ~ destroyed /\ \E e \in Entries : Found(e, k)
<1> DEFINE c == shard_
           d == shard_'
           s == Shard(HashSlice[k])
           e == TableLookup(c, s, k, HashSlice[k])
<1>1. ~ destroyed /\ ShardsOK(c, handles, HashSlice)
  BY DEF CacheInv, Lookup
<1>2. /\ handles \in [Entries -> Nat] /\ HashSlice \in [Keys -> 0 .. HashRange - 1] /\ capacity_ \in Nat
      /\ d = Ref(c, s, e) /\ e # Nil /\ handles' = [handles EXCEPT ![e] = @ + 1]
  BY DEF CacheInv, Lookup
<1>3. UNCHANGED <<HashSlice, capacity_, walk, destroyed>>
  BY DEF Lookup
<1>4. e = TableLookup(c, Shard(HashSlice[k]), k, HashSlice[k]) /\ s = Shard(HashSlice[k])
  OBVIOUS
<1> HIDE DEF c, d, s, e
<1>5. e \in CachedOf(c) /\ c.key[e] = k /\ c.hash[e] = HashSlice[k]
  <2>1. handles \in [Entries -> Nat] /\ HashSlice \in [Keys -> 0 .. HashRange - 1]
    BY <1>2
  <2>2. EntryOf(c, HashSlice, k, e)
    BY <1>1, <1>4, <2>1, LookupIsCached
  <2> QED
    BY <1>2, <2>2 DEF EntryOf
<1>6. e \in Entries /\ s = Shard(c.hash[e])
  BY <1>4, <1>5 DEF CachedOf
<1>7. /\ ShardsOK(d, More(handles, e), HashSlice) /\ Kept(c, d)
      /\ d.refs = [c.refs EXCEPT ![e] = handles[e] + 2]
      /\ handles[e] = 0 => IdleLeft(c, d, s, e)
      /\ handles[e] # 0 => IdleSame(c, d)
  <2>1. handles \in [Entries -> Nat] /\ d = Ref(c, s, e)
    BY <1>2
  <2>2. e \in CachedOf(c) /\ s = Shard(c.hash[e])
    BY <1>5, <1>6
  <2> QED
    BY <1>1, <2>1, <2>2, RefIs
<1>8. handles' = More(handles, e) /\ handles' \in [Entries -> Nat]
  BY <1>2, <1>6 DEF More
<1>9. ShardsOK(d, handles', HashSlice')
  BY <1>3, <1>7, <1>8
<1>10. d \in States /\ RefsOK(d, handles')
  BY <1>9, ShardsOKGives
<1>11. CacheInv'
  BY <1>3, <1>8, <1>9, <1>10 DEF CacheInv, d
<1>12. Found(e, k)
  BY <1>5, <1>7, <1>8 DEF Found, c, d, s
<1> QED
  BY <1>1, <1>6, <1>11, <1>12

LEMMA ReleaseStep ==
    ASSUME CacheInv, NEW e \in Entries, Release(e)
    PROVE  /\ CacheInv' /\ ~ destroyed /\ handles' = Less(handles, e) /\ handles[e] > 0 /\ Kept(shard_, shard_')
           /\ shard_'.refs = [shard_.refs EXCEPT ![e] = shard_.refs[e] - 1]
           /\ ReleasedIdle(shard_, shard_', handles, Shard(shard_.hash[e]), e)
<1> DEFINE c == shard_
           d == shard_'
           s == Shard(c.hash[e])
<1>1. ~ destroyed /\ ShardsOK(c, handles, HashSlice)
  BY DEF CacheInv, Release
<1>2. /\ handles \in [Entries -> Nat] /\ HashSlice \in [Keys -> 0 .. HashRange - 1] /\ capacity_ \in Nat
      /\ d = Unref(c, s, e) /\ handles[e] > 0 /\ handles' = [handles EXCEPT ![e] = @ - 1] /\ s = Shard(c.hash[e])
  BY DEF CacheInv, Release
<1>3. UNCHANGED <<HashSlice, capacity_, walk, destroyed>>
  BY DEF Release
<1> HIDE DEF c, d, s
<1>4. /\ ShardsOK(d, Less(handles, e), HashSlice) /\ Kept(c, d)
      /\ d.refs = [c.refs EXCEPT ![e] = c.refs[e] - 1]
      /\ ReleasedIdle(c, d, handles, s, e)
  BY <1>1, <1>2, ReleaseIs
<1>5. handles' = Less(handles, e) /\ handles' \in [Entries -> Nat]
  BY <1>2 DEF Less
<1>6. ShardsOK(d, handles', HashSlice')
  BY <1>3, <1>4, <1>5
<1>7. d \in States /\ RefsOK(d, handles')
  BY <1>6, ShardsOKGives
<1>8. CacheInv'
  BY <1>3, <1>5, <1>6, <1>7 DEF CacheInv, d
<1> QED
  BY <1>1, <1>2, <1>4, <1>5, <1>8 DEF c, d, s

LEMMA EraseStep ==
    ASSUME CacheInv, NEW k \in Keys, Erase(k)
    PROVE  /\ CacheInv' /\ ~ destroyed
           /\ KeyErased(shard_, shard_', handles, k, TableLookup(shard_, Shard(HashSlice[k]), k, HashSlice[k]))
<1> DEFINE c == shard_
           d == shard_'
           s == Shard(HashSlice[k])
           hash == HashSlice[k]
           e == TableLookup(c, s, k, hash)
<1>1. ~ destroyed /\ ShardsOK(c, handles, HashSlice)
  BY DEF CacheInv, Erase
<1>2. /\ handles \in [Entries -> Nat] /\ HashSlice \in [Keys -> 0 .. HashRange - 1] /\ capacity_ \in Nat
      /\ d = EraseKey(c, s, k, hash)
  BY DEF CacheInv, Erase
<1>3. UNCHANGED <<HashSlice, capacity_, handles, walk, destroyed>>
  BY DEF Erase
<1>4. e = TableLookup(c, s, k, hash) /\ s = Shard(hash) /\ hash = HashSlice[k]
  OBVIOUS
<1> HIDE DEF c, d, s, e, hash
<1>5. ShardsOK(d, handles, HashSlice) /\ KeyErased(c, d, handles, k, e)
  BY <1>1, <1>2, <1>4, EraseKeyIs
<1>6. d \in States /\ RefsOK(d, handles)
  BY <1>5, ShardsOKGives
<1>7. CacheInv'
  BY <1>2, <1>3, <1>5, <1>6 DEF CacheInv, d
<1> QED
  BY <1>1, <1>5, <1>7 DEF c, d, s, e, hash

LEMMA PruneStep ==
    ASSUME CacheInv, PruneNext
    PROVE  /\ CacheInv' /\ ~ destroyed /\ walk.s \in Shards
           /\ Pruned(shard_, shard_', handles, HashSlice, walk.s)
<1> DEFINE c == shard_
           d == shard_'
           s == walk.s
<1>1. walk.call = "Prune" /\ s \in Shards /\ d = PruneShard(c, s) /\ UNCHANGED <<HashSlice, capacity_, handles, destroyed>>
  BY DEF PruneNext, Visiting
<1>2. ~ destroyed /\ ShardsOK(c, handles, HashSlice)
  BY <1>1 DEF CacheInv, NoWalk
<1>3. handles \in [Entries -> Nat] /\ HashSlice \in [Keys -> 0 .. HashRange - 1] /\ capacity_ \in Nat
  BY DEF CacheInv
<1> HIDE DEF c, d, s
<1>4. ShardsOK(d, handles, HashSlice) /\ Pruned(c, d, handles, HashSlice, s)
  BY <1>1, <1>2, <1>3, PruneIs
<1>5. d \in States /\ RefsOK(d, handles)
  BY <1>4, ShardsOKGives
<1>6. CacheInv'
  BY <1>1, <1>2, <1>3, <1>4, <1>5 DEF CacheInv, d
<1> QED
  BY <1>1, <1>2, <1>4, <1>6 DEF c, d, s

LEMMA DestroyStep ==
    ASSUME CacheInv, Destroy
    PROVE  /\ CacheInv' /\ ~ destroyed /\ Dropped(shard_, shard_', IdleBelow(shard_, handles, kNumShards))
<1> DEFINE c == shard_
           d == shard_'
<1>1. ~ destroyed /\ ShardsOK(c, handles, HashSlice)
  BY DEF CacheInv, Destroy
<1>2. /\ handles \in [Entries -> Nat] /\ HashSlice \in [Keys -> 0 .. HashRange - 1] /\ capacity_ \in Nat
      /\ UNCHANGED <<HashSlice, capacity_, handles, walk>> /\ destroyed' = TRUE /\ walk = NoWalk
  BY DEF CacheInv, Destroy
<1>3. d = (CHOOSE w : IsDestroyAll(w, c))[kNumShards]
  BY DEF Destroy, IsDestroyAll
<1> HIDE DEF c, d
<1>4. Dropped(c, d, IdleBelow(c, handles, kNumShards))
  BY <1>1, <1>2, <1>3, DestroyIs
<1>5. RefsOK(d, handles) /\ d \in States
  BY <1>1, <1>2, <1>4, DroppedRefs
<1>6. CacheInv'
  BY <1>2, <1>5 DEF CacheInv, d, NoWalk
<1> QED
  BY <1>1, <1>4, <1>6 DEF c, d

LEMMA CacheInvStep == CacheInv /\ [Next]_vars => CacheInv'
<1> SUFFICES ASSUME CacheInv, [Next]_vars PROVE CacheInv'
  OBVIOUS
<1>1. ASSUME NEW k \in Keys, NEW e \in Entries, NEW n \in Charges, Insert(k, e, n) PROVE CacheInv'
  BY <1>1, InsertStep
<1>2. ASSUME NEW k \in Keys, Lookup(k) PROVE CacheInv'
  BY <1>2, LookupStep
<1>3. ASSUME NEW e \in Entries, Release(e) PROVE CacheInv'
  BY <1>3, ReleaseStep
<1>4. ASSUME NEW k \in Keys, Erase(k) PROVE CacheInv'
  BY <1>4, EraseStep
<1>5. ASSUME NEW method \in {"Prune", "TotalCharge"}, Call(method) PROVE CacheInv'
  BY <1>5 DEF CacheInv, Call
<1>6. CASE PruneNext
  BY <1>6, PruneStep
<1>7. CASE TotalChargeNext
  <2>1. walk # NoWalk
    BY <1>7 DEF TotalChargeNext, Visiting, NoWalk
  <2> QED
    BY <1>7, <2>1 DEF CacheInv, TotalChargeNext
<1>8. CASE Return
  BY <1>8 DEF CacheInv, Return
<1>9. CASE Destroy
  BY <1>9, DestroyStep
<1>10. CASE Destroyed \/ UNCHANGED vars
  BY <1>10 DEF CacheInv, Destroyed, vars
<1> QED
  BY <1>1, <1>2, <1>3, <1>4, <1>5, <1>6, <1>7, <1>8, <1>9, <1>10 DEF Next

LEMMA CacheInvInit == Init => CacheInv
<1> SUFFICES ASSUME Init PROVE CacheInv
  OBVIOUS
<1>1. HashSlice \in [Keys -> 0 .. HashRange - 1]
  BY CacheAssumption DEF Init
<1>2. capacity_ \in Nat
  <2>1. PICK cap \in Capacities : capacity_ = PerShard(cap)
    BY DEF Init
  <2>2. cap \in Nat /\ kNumShards \in Nat \ {0}
    BY CacheAssumption
  <2>3. cap + (kNumShards - 1) \in Nat
    BY <2>2
  <2> QED
    BY <2>1, <2>2, <2>3 DEF PerShard
<1>3. handles = [e \in Entries |-> 0] /\ handles \in [Entries -> Nat] /\ walk = NoWalk /\ destroyed = FALSE
  BY DEF Init
<1>4. ShardsOK(shard_, handles, HashSlice)
  BY <1>3, EmptyOK DEF Init
<1>5. shard_ \in States /\ RefsOK(shard_, handles)
  BY <1>4, ShardsOKGives
<1> QED
  BY <1>1, <1>2, <1>3, <1>4, <1>5 DEF CacheInv

\* ShardsOK holds in every state until the destructor, whatever methods of LRUCache and
\* ShardedLRUCache are called in whatever order; refs is exact even after it.
THEOREM CacheInvariant == Spec => []CacheInv
BY CacheInvInit, CacheInvStep, PTL DEF Spec

LEMMA RefsFollow == CacheInv => RefsExact
BY DEF CacheInv, RefsOK, RefsExact, CachedOf

\* The refs of an entry, which Ref and Unref count and at 0 of which the deleter is called,
\* is exact for every number of keys, entries, shards and handles, any capacity and hash.
THEOREM RefsAreExact == Spec => []RefsExact
BY CacheInvariant, RefsFollow, PTL

\* A list as ListsExact reads it.
ListIs(c, list, S) ==
    LET t == ListOf(c, list)
        d == <<list>> \o t \o <<list>>
    IN  /\ Len(t) = Cardinality(S) /\ ToSet(t) = S
        /\ \A j \in 1 .. Len(d) - 1 : c.next[d[j]] = d[j + 1] /\ c.prev[d[j + 1]] = d[j]

LEMMA ListedGives ==
    ASSUME NEW c, NEW h \in Heads, NEW S, Listed(c, h, S)
    PROVE  ListIs(c, h, S)
<1> DEFINE t == ListOf(c, h)
           d == <<h>> \o t \o <<h>>
<1>1. t \in Seq(Entries) /\ Inj(t) /\ ToSet(t) = S /\ Ring(c.next, c.prev, h, t)
  BY DEF Listed
<1> HIDE DEF t
<1>2. Len(t) = Cardinality(S) /\ Len(t) \in Nat
  BY <1>1, InjLen
<1>3. Len(d) = Len(t) + 2 /\ \A j \in 1 .. Len(t) + 2 : d[j] = At(h, t, j - 1)
  <2> DEFINE n == Len(t)
             a == <<h>> \o t
             X == Entries \cup {h}
  <2>1. t \in Seq(X) /\ <<h>> \in Seq(X) /\ Len(<<h>>) = 1
    BY <1>1
  <2>2. a \in Seq(X) /\ Len(a) = n + 1 /\ \A j \in 1 .. n + 1 : a[j] = IF j = 1 THEN h ELSE t[j - 1]
    BY <1>2, <2>1
  <2>3. d = a \o <<h>>
    OBVIOUS
  <2> HIDE DEF a, d
  <2>4. Len(d) = n + 2 /\ \A j \in 1 .. n + 2 : d[j] = IF j <= n + 1 THEN a[j] ELSE h
    BY <1>2, <2>1, <2>2, <2>3
  <2>5. ASSUME NEW j \in 1 .. n + 2 PROVE d[j] = At(h, t, j - 1)
    <3>1. CASE j = 1
      <4>1. d[j] = h
        BY <1>2, <2>2, <2>4, <3>1
      <4>2. ~ (j - 1 \in 1 .. Len(t))
        BY <3>1
      <4> QED
        BY <4>1, <4>2 DEF At
    <3>2. CASE j = n + 2
      <4>1. d[j] = h
        BY <1>2, <2>4, <3>2
      <4>2. ~ (j - 1 \in 1 .. Len(t))
        BY <1>2, <3>2
      <4> QED
        BY <4>1, <4>2 DEF At
    <3>3. CASE j # 1 /\ j # n + 2
      <4>1. j \in 1 .. n + 1 /\ j <= n + 1 /\ j - 1 \in 1 .. Len(t)
        BY <1>2, <3>3
      <4>2. d[j] = t[j - 1]
        BY <2>2, <2>4, <3>3, <4>1
      <4> QED
        BY <4>1, <4>2 DEF At
    <3> QED
      BY <3>1, <3>2, <3>3
  <2> QED
    BY <2>4, <2>5
<1> HIDE DEF d
<1>4. ASSUME NEW j \in 1 .. Len(d) - 1 PROVE c.next[d[j]] = d[j + 1] /\ c.prev[d[j + 1]] = d[j]
  <2>1. j \in 1 .. Len(t) + 2 /\ j + 1 \in 1 .. Len(t) + 2 /\ j - 1 \in 0 .. Len(t) /\ j - 1 + 1 = j /\ j + 1 - 1 = j
    BY <1>2, <1>3
  <2>2. d[j] = At(h, t, j - 1) /\ d[j + 1] = At(h, t, j)
    BY <1>3, <2>1
  <2>3. c.next[At(h, t, j - 1)] = At(h, t, j) /\ c.prev[At(h, t, j)] = At(h, t, j - 1)
    BY <1>1, <2>1 DEF Ring
  <2> QED
    BY <2>2, <2>3
<1> QED
  BY <1>1, <1>2, <1>4 DEF ListIs, t, d

LEMMA ListsFollow == CacheInv => ListsExact
<1> SUFFICES ASSUME CacheInv, ~ destroyed, NEW s \in Shards
             PROVE  /\ ListIs(shard_, lru_(s), {e \in CachedIn(s) : handles[e] = 0})
                    /\ ListIs(shard_, in_use_(s), {e \in CachedIn(s) : handles[e] > 0})
  BY DEF ListsExact, ListIs
<1> DEFINE c == shard_
           P == CachedOf(c)
           place == PlaceOf(c, handles)
<1>1. c \in States /\ Hashed(c, HashSlice) /\ Lists(c, P, place) /\ handles \in [Entries -> Nat]
  BY DEF CacheInv, ShardsOK, Sound
<1>2. lru_(s) \in Heads /\ in_use_(s) \in Heads
  BY HeadFacts
<1>3. CachedIn(s) = {e \in P : Shard(c.hash[e]) = s}
  BY DEF CachedIn, Cached, CachedOf
<1>4. ASSUME NEW e \in P
      PROVE  /\ place[e] = lru_(s) <=> Shard(c.hash[e]) = s /\ handles[e] = 0
             /\ place[e] = in_use_(s) <=> Shard(c.hash[e]) = s /\ handles[e] > 0
  <2>1. e \in Entries /\ Shard(c.hash[e]) \in Shards /\ handles[e] \in Nat
    BY <1>1, ShardIs DEF CachedOf, Hashed
  <2>2. place[e] = IF handles[e] = 0 THEN lru_(Shard(c.hash[e])) ELSE in_use_(Shard(c.hash[e]))
    BY <2>1 DEF PlaceOf
  <2>3. handles[e] > 0 <=> handles[e] # 0
    BY <2>1
  <2> QED
    BY <2>1, <2>2, <2>3, HeadFacts
<1> HIDE DEF P, place, c
<1>5. /\ {e \in P : place[e] = lru_(s)} = {e \in CachedIn(s) : handles[e] = 0}
      /\ {e \in P : place[e] = in_use_(s)} = {e \in CachedIn(s) : handles[e] > 0}
  BY <1>3, <1>4
<1>6. /\ Listed(c, lru_(s), {e \in CachedIn(s) : handles[e] = 0})
      /\ Listed(c, in_use_(s), {e \in CachedIn(s) : handles[e] > 0})
  BY <1>1, <1>2, <1>5 DEF Lists
<1> DEFINE I == {e \in CachedIn(s) : handles[e] = 0}
           U == {e \in CachedIn(s) : handles[e] > 0}
<1>7. Listed(c, lru_(s), I) /\ Listed(c, in_use_(s), U)
  BY <1>6
<1> HIDE DEF I, U
<1>8. ListIs(c, lru_(s), I) /\ ListIs(c, in_use_(s), U)
  BY <1>2, <1>7, ListedGives
<1> QED
  BY <1>8 DEF c, I, U

\* lru_ and in_use_ hold what they should, forwards and backwards, after any sequence of
\* Insert, Lookup, Release, Erase and Prune, for every number of keys, entries and shards.
THEOREM ListsAreExact == Spec => []ListsExact
BY CacheInvariant, ListsFollow, PTL

LEMMA ChainsFollow == CacheInv => ChainsExact
<1> SUFFICES ASSUME CacheInv, ~ destroyed
             PROVE  /\ \A e, f \in Cached : shard_.key[e] = shard_.key[f] => e = f
                    /\ \A k \in Keys : TableLookup(shard_, Shard(HashSlice[k]), k, HashSlice[k]) = CachedFor(k)
                    /\ \A s \in Shards :
                        LET chains == [b \in DOMAIN shard_.list_[s] |-> Chain(shard_, s, b)]
                        IN  /\ \A e \in Entries, b \in DOMAIN chains :
                                e \in ToSet(chains[b]) <=> e \in CachedIn(s) /\ b = Bucket(HashSlice[shard_.key[e]], length_(shard_, s))
                            /\ \A b \in DOMAIN chains : Len(chains[b]) = Cardinality(ToSet(chains[b]))
                            /\ shard_.elems_[s] = Cardinality(CachedIn(s))
                            /\ shard_.elems_[s] <= length_(shard_, s)
  BY DEF ChainsExact
<1> DEFINE c == shard_
           P == CachedOf(c)
<1>1. /\ c \in States /\ Hashed(c, HashSlice) /\ TableOK(c, P) /\ UniqueIn(c, P) /\ ShardsOK(c, handles, HashSlice)
      /\ handles \in [Entries -> Nat] /\ HashSlice \in [Keys -> 0 .. HashRange - 1]
  BY DEF CacheInv, ShardsOK, Sound
<1>2. Cached = P /\ P \subseteq Entries
  BY DEF Cached, CachedOf
<1>3. \A e, f \in Cached : c.key[e] = c.key[f] => e = f
  BY <1>1, <1>2 DEF UniqueIn
<1> HIDE DEF c, P
<1>4. ASSUME NEW k \in Keys PROVE TableLookup(c, Shard(HashSlice[k]), k, HashSlice[k]) = CachedFor(k)
  <2> DEFINE e == TableLookup(c, Shard(HashSlice[k]), k, HashSlice[k])
             S == {f \in Cached : c.key[f] = k}
  <2>1. EntryOf(c, HashSlice, k, e)
    BY <1>1, LookupIsCached
  <2>2. CachedFor(k) = IF S = {} THEN Nil ELSE CHOOSE f \in S : TRUE
    BY DEF CachedFor, c
  <2> HIDE DEF e
  <2>3. CASE e = Nil
    <3>1. S = {}
      BY <1>2, <2>1, <2>3 DEF EntryOf, P
    <3> QED
      BY <2>2, <2>3, <3>1 DEF e
  <2>4. CASE e # Nil
    <3>1. e \in S /\ \A f \in S : f = e
      BY <1>2, <1>3, <2>1, <2>4 DEF EntryOf, P
    <3> HIDE DEF S
    <3>2. S # {} /\ (CHOOSE f \in S : TRUE) \in S
      BY <3>1
    <3> QED
      BY <2>2, <3>1, <3>2 DEF e
  <2> QED
    BY <2>3, <2>4
<1>5. ASSUME NEW s \in Shards
      PROVE  LET chains == [b \in DOMAIN c.list_[s] |-> Chain(c, s, b)]
             IN  /\ \A e \in Entries, b \in DOMAIN chains :
                     e \in ToSet(chains[b]) <=> e \in CachedIn(s) /\ b = Bucket(HashSlice[c.key[e]], length_(c, s))
                 /\ \A b \in DOMAIN chains : Len(chains[b]) = Cardinality(ToSet(chains[b]))
                 /\ c.elems_[s] = Cardinality(CachedIn(s))
                 /\ c.elems_[s] <= length_(c, s)
  <2>1. /\ DOMAIN c.list_[s] = 0 .. length_(c, s) - 1
    <3>1. c.list_[s] \in [0 .. length_(c, s) - 1 -> Entries \cup {Nil}]
      BY <1>1, LengthIs
    <3> QED
      BY <3>1
  <2>2. CachedIn(s) = InShard(c, P, s)
    BY <1>2 DEF CachedIn, InShard, c
  <2>3. c.elems_[s] = Cardinality(CachedIn(s)) /\ c.elems_[s] <= length_(c, s)
    BY <1>1, <2>2 DEF TableOK
  <2>4. ASSUME NEW b \in DOMAIN c.list_[s]
        PROVE  /\ Len(Chain(c, s, b)) = Cardinality(ToSet(Chain(c, s, b)))
               /\ \A e \in Entries : e \in ToSet(Chain(c, s, b)) <=>
                    e \in CachedIn(s) /\ b = Bucket(HashSlice[c.key[e]], length_(c, s))
    <3>1. PICK t : IsChain(c, s, b, t) /\ ToSet(t) = {e \in P : InBucket(c, e, s, b)}
      BY <1>1, <2>1 DEF TableOK, InTables
    <3>2. Chain(c, s, b) = t
      BY <3>1, ChainIs
    <3>3. Len(t) = Cardinality(ToSet(t))
      BY <3>1, InjLen DEF IsChain
    <3>4. ASSUME NEW e \in P PROVE c.hash[e] = HashSlice[c.key[e]]
      BY <1>1, <1>2 DEF Hashed, P
    <3>5. \A e \in Entries : e \in ToSet(t) <=> e \in CachedIn(s) /\ b = Bucket(HashSlice[c.key[e]], length_(c, s))
      BY <2>2, <3>1, <3>4 DEF InBucket, InShard
    <3> QED
      BY <3>2, <3>3, <3>5
  <2> QED
    BY <2>3, <2>4
<1> QED
  BY <1>3, <1>4, <1>5 DEF c

\* The HandleTables hold exactly the cached entries, each in its bucket, through Insert,
\* Remove and Resize, for every number of keys, entries and shards, whatever the hash.
THEOREM ChainsAreExact == Spec => []ChainsExact
BY CacheInvariant, ChainsFollow, PTL

(***************************************************************************)
(* Prune and TotalCharge, which other methods interrupt between two shards.*)
(***************************************************************************)
\* What Insert does to the cached entries: e, of charge n, may join them, others may leave.
Grows(c, d, e, n) ==
    /\ CachedOf(d) \subseteq CachedOf(c) \cup {e} /\ e \notin CachedOf(c)
    /\ \A x \in CachedOf(d) : x # e => d.key[x] = c.key[x] /\ d.hash[x] = c.hash[x] /\ d.charge[x] = c.charge[x]
    /\ e \in CachedOf(d) => d.charge[e] = n

LEMMA KeptShrinks ==
    ASSUME NEW c, NEW d, Kept(c, d)
    PROVE  Shrinks(c, d)
BY DEF Kept, Shrinks

LEMMA KeyErasedShrinks ==
    ASSUME NEW c, NEW d, NEW held, NEW k, NEW e, KeyErased(c, d, held, k, e)
    PROVE  Shrinks(c, d)
<1>1. CASE e = Nil
  BY <1>1 DEF KeyErased, Shrinks
<1>2. CASE e # Nil
  <2>1. Erased(c, d, held, e)
    BY <1>2 DEF KeyErased
  <2>2. CachedOf(d) = CachedOf(c) \ {e} /\ CachedOf(d) \subseteq Entries
    BY <2>1 DEF Erased, CachedOf
  <2>3. \A x \in Entries : x # e => d.key[x] = c.key[x] /\ d.hash[x] = c.hash[x] /\ d.charge[x] = c.charge[x]
    BY <2>1 DEF Erased
  <2> QED
    BY <2>2, <2>3 DEF Shrinks
<1> QED
  BY <1>1, <1>2

LEMMA EvictedShrinks ==
    ASSUME NEW c, NEW d, NEW held, NEW hs, NEW s, NEW limit, NEW m, Evicted(c, d, held, hs, s, limit, m)
    PROVE  Shrinks(c, d)
BY DEF Evicted, Shrinks

LEMMA InsertedGrows ==
    ASSUME NEW c, NEW d, NEW held, NEW hs, NEW e, NEW k, NEW n, NEW s, NEW cap,
           Inserted(c, d, held, hs, e, k, n, s, cap)
    PROVE  Grows(c, d, e, n)
<1>1. PICK a, b, m :
        /\ NowMade(c, a, held, hs, e, k, n)
        /\ IF cap > 0 THEN Added(a, b, One(held, e), e, k) ELSE b = a
        /\ Evicted(b, d, One(held, e), hs, s, cap, m)
  BY DEF Inserted
<1>2. /\ CachedOf(a) = CachedOf(c) /\ e \notin CachedOf(c) /\ a.charge[e] = n
      /\ \A x \in CachedOf(c) : a.key[x] = c.key[x] /\ a.hash[x] = c.hash[x] /\ a.charge[x] = c.charge[x]
  BY <1>1 DEF NowMade
<1>3. /\ CachedOf(b) \subseteq CachedOf(a) \cup {e}
      /\ \A x \in CachedOf(b) : b.key[x] = a.key[x] /\ b.hash[x] = a.hash[x] /\ b.charge[x] = a.charge[x]
  <2>1. CASE Added(a, b, One(held, e), e, k)
    BY <2>1 DEF Added
  <2>2. CASE b = a
    BY <2>2
  <2> QED
    BY <1>1, <2>1, <2>2
<1>4. Shrinks(b, d)
  BY <1>1, EvictedShrinks
<1>5. CachedOf(d) \subseteq CachedOf(b)
  BY <1>4 DEF Shrinks
<1>6. \A x \in CachedOf(d) : d.key[x] = a.key[x] /\ d.hash[x] = a.hash[x] /\ d.charge[x] = a.charge[x]
  BY <1>3, <1>4, <1>5 DEF Shrinks
<1>7. CachedOf(d) \subseteq CachedOf(c) \cup {e}
  BY <1>2, <1>3, <1>5
<1>8. \A x \in CachedOf(d) : x # e => d.key[x] = c.key[x] /\ d.hash[x] = c.hash[x] /\ d.charge[x] = c.charge[x]
  BY <1>2, <1>6, <1>7
<1> QED
  BY <1>2, <1>6, <1>7, <1>8 DEF Grows

\* The entries a Prune at shard n has still to look at.
ToPrune(c, held, S, n) == \A e \in S : e \in CachedOf(c) /\ held[e] = 0 /\ Shard(c.hash[e]) >= n

\* The sums of a TotalCharge at shard n: S are the entries cached all the while.
From(c, n) == {e \in CachedOf(c) : Shard(c.hash[e]) >= n}
Seen(c, S, n) == {e \in S : Shard(c.hash[e]) < n}

Bounds(c, S, n, total, m) ==
    /\ S \subseteq CachedOf(c)
    /\ total + SumOf(c.charge, From(c, n)) <= m
    /\ SumOf(c.charge, Seen(c, S, n)) <= total

LEMMA SumLess ==
    ASSUME NEW f \in [Entries -> Nat], NEW g \in [Entries -> Nat], NEW R, NEW T \in SUBSET Entries, R \subseteq T,
           \A x \in R : f[x] = g[x]
    PROVE  SumOf(f, R) <= SumOf(g, T) /\ SumOf(f, R) \in Nat /\ SumOf(g, T) \in Nat
<1>1. IsFiniteSet(T)
  BY FS_Subset, TableAssumption
<1>2. \A x \in T : g[x] \in Nat
  OBVIOUS
<1>3. SumOf(g, R) <= SumOf(g, T) /\ SumOf(g, R) \in Nat
  BY <1>1, <1>2, SumSubset
<1>4. SumOf(g, T) \in Nat
  BY <1>1, <1>2, SumType
<1>5. SumOf(f, R) = SumOf(g, R)
  BY SumSame
<1> QED
  BY <1>3, <1>4, <1>5

LEMMA FromIs ==
    ASSUME NEW c \in States, NEW n
    PROVE  From(c, n) \in SUBSET Entries /\ c.charge \in [Entries -> Nat] /\ SumOf(c.charge, From(c, n)) \in Nat
<1>1. From(c, n) \in SUBSET Entries /\ c.charge \in [Entries -> Nat]
  BY DEF From, CachedOf, States
<1> DEFINE f == c.charge
           R == From(c, n)
<1>2. f \in [Entries -> Nat] /\ R \in SUBSET Entries
  BY <1>1
<1> HIDE DEF f, R
<1>3. SumOf(f, R) \in Nat
  BY <1>2, SumLess
<1> QED
  BY <1>1, <1>3 DEF f, R

LEMMA BoundsShrink ==
    ASSUME NEW c \in States, NEW d \in States, Shrinks(c, d), NEW S, NEW n, NEW total \in Nat, NEW m \in Nat,
           Bounds(c, S, n, total, m), NEW S2, S2 \subseteq S, S2 \subseteq CachedOf(d)
    PROVE  Bounds(d, S2, n, total, m)
<1>1. /\ S \subseteq CachedOf(c) /\ total + SumOf(c.charge, From(c, n)) <= m
      /\ SumOf(c.charge, Seen(c, S, n)) <= total
  BY DEF Bounds
<1>2. /\ CachedOf(d) \subseteq CachedOf(c) /\ CachedOf(c) \subseteq Entries
      /\ \A x \in CachedOf(d) : d.hash[x] = c.hash[x] /\ d.charge[x] = c.charge[x]
  BY DEF Shrinks, CachedOf
<1> DEFINE f == d.charge
           g == c.charge
           A == From(d, n)
           B == From(c, n)
           U == Seen(d, S2, n)
           W == Seen(c, S, n)
<1>3. f \in [Entries -> Nat] /\ g \in [Entries -> Nat]
  BY DEF States
<1>4. A \subseteq B /\ B \in SUBSET Entries /\ \A x \in A : f[x] = g[x]
  BY <1>2 DEF From
<1>5. U \subseteq W /\ W \in SUBSET Entries /\ \A x \in U : f[x] = g[x]
  BY <1>1, <1>2 DEF Seen
<1>6. total + SumOf(g, B) <= m /\ SumOf(g, W) <= total
  BY <1>1
<1> HIDE DEF f, g, A, B, U, W
<1>7. SumOf(f, A) <= SumOf(g, B) /\ SumOf(f, A) \in Nat /\ SumOf(g, B) \in Nat
  BY <1>3, <1>4, SumLess
<1>8. SumOf(f, U) <= SumOf(g, W) /\ SumOf(f, U) \in Nat /\ SumOf(g, W) \in Nat
  BY <1>3, <1>5, SumLess
<1>9. total + SumOf(f, A) <= m /\ SumOf(f, U) <= total
  BY <1>6, <1>7, <1>8
<1> QED
  BY <1>9 DEF Bounds, f, A, U

LEMMA BoundsGrow ==
    ASSUME NEW c \in States, NEW d \in States, NEW e \in Entries, NEW k \in Nat, Grows(c, d, e, k),
           NEW S, NEW n, NEW total \in Nat, NEW m \in Nat,
           Bounds(c, S, n, total, m), NEW S2, S2 \subseteq S, S2 \subseteq CachedOf(d), e \notin S2
    PROVE  Bounds(d, S2, n, total, m + k)
<1>1. /\ S \subseteq CachedOf(c) /\ total + SumOf(c.charge, From(c, n)) <= m
      /\ SumOf(c.charge, Seen(c, S, n)) <= total
  BY DEF Bounds
<1>2. /\ CachedOf(d) \subseteq CachedOf(c) \cup {e} /\ e \notin CachedOf(c) /\ CachedOf(c) \subseteq Entries
      /\ \A x \in CachedOf(d) : x # e => d.hash[x] = c.hash[x] /\ d.charge[x] = c.charge[x]
      /\ e \in CachedOf(d) => d.charge[e] = k
  BY DEF Grows, CachedOf
<1> DEFINE f == d.charge
           g == c.charge
           A == From(d, n)
           A2 == A \ {e}
           B == From(c, n)
           U == Seen(d, S2, n)
           W == Seen(c, S, n)
<1>3. f \in [Entries -> Nat] /\ g \in [Entries -> Nat]
  BY DEF States
<1>4. A2 \subseteq B /\ B \in SUBSET Entries /\ \A x \in A2 : f[x] = g[x]
  BY <1>2 DEF From
<1>5. U \subseteq W /\ W \in SUBSET Entries /\ \A x \in U : f[x] = g[x]
  BY <1>1, <1>2 DEF Seen
<1>6. total + SumOf(g, B) <= m /\ SumOf(g, W) <= total
  BY <1>1
<1>7. A \in SUBSET Entries /\ (e \in A => f[e] = k)
  BY <1>2 DEF From
<1>8. A2 = A \ {e}
  OBVIOUS
<1> HIDE DEF f, g, A, A2, B, U, W
<1>9. SumOf(f, A2) <= SumOf(g, B) /\ SumOf(f, A2) \in Nat /\ SumOf(g, B) \in Nat
  BY <1>3, <1>4, SumLess
<1>10. SumOf(f, U) <= SumOf(g, W) /\ SumOf(f, U) \in Nat /\ SumOf(g, W) \in Nat
  BY <1>3, <1>5, SumLess
<1>11. SumOf(f, A) \in Nat /\ SumOf(f, A) <= SumOf(f, A2) + k
  <2>1. CASE e \notin A
    <3>1. A2 = A
      BY <1>8, <2>1
    <3> QED
      BY <1>9, <3>1
  <2>2. CASE e \in A
    <3>1. IsFiniteSet(A) /\ \A x \in A : f[x] \in Nat
      BY <1>3, <1>7, FS_Subset, TableAssumption
    <3>2. SumOf(f, A \ {e}) = SumOf(f, A) - f[e] /\ SumOf(f, A) \in Nat
      BY <2>2, <3>1, SumRemove, SumType
    <3> QED
      BY <1>7, <1>8, <2>2, <3>2
  <2> QED
    BY <2>1, <2>2
<1>12. total + SumOf(f, A) <= m + k /\ SumOf(f, U) <= total
  BY <1>6, <1>9, <1>10, <1>11
<1> QED
  BY <1>12 DEF Bounds, f, A, U

LEMMA ChargeSum ==
    ASSUME NEW S \in SUBSET Entries, shard_ \in States
    PROVE  Sum(S, Charge) = SumOf(shard_.charge, S)
<1> DEFINE f == shard_.charge
<1>1. IsFiniteSet(S)
  BY FS_Subset, TableAssumption
<1>2. \A x \in S : f[x] \in Nat
  BY DEF States
<1>3. Sum(S, Charge) = (CHOOSE w : IsSum(w, f, S))[S]
  BY DEF Sum, MapThenSumSet, MapThenFoldSet, Charge, IsSum
<1> HIDE DEF f
<1>4. (CHOOSE w : IsSum(w, f, S))[S] = SumOf(f, S)
  BY <1>1, <1>2, SumIs
<1> QED
  BY <1>3, <1>4 DEF f

LEMMA ShardNumbers ==
    ASSUME NEW c, NEW hs, Hashed(c, hs), NEW e \in CachedOf(c)
    PROVE  Shard(c.hash[e]) \in Nat /\ Shard(c.hash[e]) < kNumShards /\ e \in Entries /\ kNumShards \in Nat \ {0}
<1>1. e \in Entries /\ c.hash[e] \in 0 .. HashRange - 1
  BY DEF CachedOf, Hashed
<1>2. Shard(c.hash[e]) \in Shards
  BY <1>1, ShardIs
<1>3. kNumShards \in Nat \ {0}
  BY CacheAssumption
<1> QED
  BY <1>1, <1>2, <1>3 DEF Shards

\* One visit of TotalCharge.
LEMMA BoundsVisit ==
    ASSUME NEW c, NEW held, NEW hs, ShardsOK(c, held, hs), NEW S, NEW n \in Shards, NEW total \in Nat, NEW m \in Nat,
           Bounds(c, S, n, total, m), NEW u, u = c.usage_[n]
    PROVE  Bounds(c, S, n + 1, total + u, m)
<1> DEFINE f == c.charge
           P == CachedOf(c)
           I == InShard(c, P, n)
           A == From(c, n)
           B == From(c, n + 1)
           U == Seen(c, S, n)
           W == Seen(c, S, n + 1)
           J == S \cap I
<1>1. /\ S \subseteq P /\ total + SumOf(f, A) <= m /\ SumOf(f, U) <= total
  BY DEF Bounds
<1>2. c \in States /\ Hashed(c, hs) /\ u = SumOf(f, I) /\ P \subseteq Entries /\ f \in [Entries -> Nat]
  BY DEF ShardsOK, Sound, UsageOK, States, CachedOf
<1>3. n \in Nat
  BY CacheAssumption DEF Shards
<1>4. \A e \in P : Shard(c.hash[e]) \in Nat
  BY <1>2, ShardNumbers
<1>5. \A e \in P : /\ Shard(c.hash[e]) >= n <=> Shard(c.hash[e]) = n \/ Shard(c.hash[e]) >= n + 1
                   /\ ~ (Shard(c.hash[e]) = n /\ Shard(c.hash[e]) >= n + 1)
                   /\ Shard(c.hash[e]) < n + 1 <=> Shard(c.hash[e]) = n \/ Shard(c.hash[e]) < n
                   /\ ~ (Shard(c.hash[e]) = n /\ Shard(c.hash[e]) < n)
  BY <1>3, <1>4
<1>6. A = I \cup B /\ I \cap B = {} /\ I \subseteq P /\ B \subseteq P
  BY <1>5 DEF From, InShard
<1>7. W = J \cup U /\ J \cap U = {} /\ J \subseteq P /\ U \subseteq P /\ J \subseteq I
  BY <1>1, <1>5 DEF Seen, InShard
<1> HIDE DEF f, P, I, A, B, U, W, J
<1>8. /\ IsFiniteSet(I) /\ IsFiniteSet(B) /\ IsFiniteSet(J) /\ IsFiniteSet(U) /\ \A x \in P : f[x] \in Nat
  <2>1. I \subseteq Entries /\ B \subseteq Entries /\ J \subseteq Entries /\ U \subseteq Entries
    BY <1>2, <1>6, <1>7
  <2>2. IsFiniteSet(I) /\ IsFiniteSet(B) /\ IsFiniteSet(J) /\ IsFiniteSet(U)
    BY <2>1, FS_Subset, TableAssumption
  <2> QED
    BY <1>2, <2>2
<1>9. SumOf(f, I \cup B) = SumOf(f, I) + SumOf(f, B)
  <2>1. \A x \in I \cup B : f[x] \in Nat
    BY <1>6, <1>8
  <2> QED
    BY <1>6, <1>8, <2>1, SumDisjoint
<1>10. SumOf(f, J \cup U) = SumOf(f, J) + SumOf(f, U)
  <2>1. \A x \in J \cup U : f[x] \in Nat
    BY <1>7, <1>8
  <2> QED
    BY <1>7, <1>8, <2>1, SumDisjoint
<1>11. SumOf(f, J) <= SumOf(f, I) /\ SumOf(f, J) \in Nat
  <2>1. \A x \in I : f[x] \in Nat
    BY <1>6, <1>8
  <2> QED
    BY <1>7, <1>8, <2>1, SumSubset
<1>12. SumOf(f, I) \in Nat /\ SumOf(f, B) \in Nat /\ SumOf(f, U) \in Nat
  <2>1. (\A x \in I : f[x] \in Nat) /\ (\A x \in B : f[x] \in Nat) /\ (\A x \in U : f[x] \in Nat)
    BY <1>6, <1>7, <1>8
  <2> QED
    BY <1>8, <2>1, SumType
<1>13. total + u + SumOf(f, B) <= m /\ SumOf(f, W) <= total + u
  <2>1. total + SumOf(f, I) + SumOf(f, B) <= m
    BY <1>1, <1>6, <1>9, <1>12
  <2>2. SumOf(f, W) = SumOf(f, J) + SumOf(f, U)
    BY <1>7, <1>10
  <2> QED
    BY <1>1, <1>2, <1>11, <1>12, <2>1, <2>2
<1> QED
  BY <1>1, <1>13 DEF Bounds, f, P, B, W

Walks == [call : {"none", "Prune", "TotalCharge"}, s : 0 .. kNumShards, total : Nat]

WalkInv ==
    /\ walk \in Walks /\ most \in Nat
    /\ walk.call = "Prune" => ToPrune(shard_, handles, since, walk.s)
    /\ walk.call = "TotalCharge" => Bounds(shard_, since, walk.s, walk.total, most)

\* A method that is not Insert comes between two visits.
LEMMA BetweenVisits ==
    ASSUME CacheInv, CacheInv', WalkInv, Shrinks(shard_, shard_'), UNCHANGED walk, Watch
    PROVE  WalkInv'
<1>1. shard_ \in States /\ shard_' \in States /\ walk \in Walks /\ most \in Nat /\ walk' = walk /\ most' = most
  BY DEF CacheInv, WalkInv, Watch
<1>2. since' = since \cap Concerned(walk.call, shard_', handles')
  BY DEF Watch
<1>3. ASSUME walk.call = "Prune" PROVE ToPrune(shard_', handles', since', walk.s)
  <2>1. ToPrune(shard_, handles, since, walk.s)
    BY <1>3 DEF WalkInv
  <2>2. \A e \in since' : e \in since /\ e \in CachedOf(shard_') /\ handles'[e] = 0
    BY <1>2, <1>3 DEF Concerned, CachedOf
  <2>3. \A e \in since' : shard_'.hash[e] = shard_.hash[e]
    BY <2>2 DEF Shrinks
  <2> QED
    BY <2>1, <2>2, <2>3 DEF ToPrune
<1>4. ASSUME walk.call = "TotalCharge" PROVE Bounds(shard_', since', walk.s, walk.total, most)
  <2>1. Bounds(shard_, since, walk.s, walk.total, most)
    BY <1>4 DEF WalkInv
  <2>2. since' \subseteq since /\ since' \subseteq CachedOf(shard_')
    BY <1>2 DEF Concerned, CachedOf
  <2>3. walk.total \in Nat
    BY <1>1 DEF Walks
  <2> QED
    BY <1>1, <2>1, <2>2, <2>3, BoundsShrink
<1> QED
  BY <1>1, <1>3, <1>4 DEF WalkInv

LEMMA InsertBetween ==
    ASSUME CacheInv, WalkInv, NEW k \in Keys, NEW e \in Entries, NEW n \in Charges, Insert(k, e, n)
    PROVE  WalkInv'
<1>1. CacheInv' /\ Inserted(shard_, shard_', handles, HashSlice, e, k, n, Shard(HashSlice[k]), capacity_)
  BY InsertStep
<1>2. Grows(shard_, shard_', e, n)
  BY <1>1, InsertedGrows
<1>3. shard_ \in States /\ shard_' \in States /\ walk \in Walks /\ most \in Nat /\ n \in Nat
  BY <1>1, CacheAssumption DEF CacheInv, WalkInv
<1>4. walk' = walk /\ since' = (since \cap Concerned(walk.call, shard_', handles')) \ {e}
  BY DEF Insert
<1>5. most' = IF walk.call = "TotalCharge" THEN most + n ELSE most
  BY DEF Insert
<1>6. walk.total \in Nat /\ most' \in Nat
  BY <1>3, <1>5 DEF Walks
<1>7. since' \subseteq since /\ since' \subseteq CachedOf(shard_') /\ e \notin since'
  BY <1>4 DEF Concerned, CachedOf
<1>8. ASSUME walk.call = "Prune" PROVE ToPrune(shard_', handles', since', walk.s)
  <2>1. ToPrune(shard_, handles, since, walk.s)
    BY <1>8 DEF WalkInv
  <2>2. \A x \in since' : x \in since /\ x \in CachedOf(shard_') /\ handles'[x] = 0 /\ x # e
    BY <1>4, <1>7, <1>8 DEF Concerned
  <2>3. \A x \in since' : shard_'.hash[x] = shard_.hash[x]
    BY <1>2, <2>2 DEF Grows
  <2> QED
    BY <2>1, <2>2, <2>3 DEF ToPrune
<1>9. ASSUME walk.call = "TotalCharge" PROVE Bounds(shard_', since', walk.s, walk.total, most + n)
  <2>1. Bounds(shard_, since, walk.s, walk.total, most)
    BY <1>9 DEF WalkInv
  <2> QED
    BY <1>2, <1>3, <1>6, <1>7, <2>1, BoundsGrow
<1>10. walk.call = "TotalCharge" => most' = most + n
  BY <1>5
<1> QED
  BY <1>3, <1>4, <1>6, <1>8, <1>9, <1>10 DEF WalkInv

LEMMA CallBegins ==
    ASSUME CacheInv, WalkInv, NEW method \in {"Prune", "TotalCharge"}, Call(method)
    PROVE  WalkInv'
<1> DEFINE c == shard_
<1>1. /\ ~ destroyed /\ walk = NoWalk /\ walk' = [walk EXCEPT !.call = method]
      /\ since' = Concerned(method, shard_, handles)
      /\ most' = (IF method = "TotalCharge" THEN Sum(Cached, Charge) ELSE 0)
      /\ UNCHANGED <<shard_, handles>>
  BY DEF Call
<1>2. walk' \in Walks /\ walk'.call = method /\ walk'.s = 0 /\ walk'.total = 0
  <2>1. 0 \in 0 .. kNumShards
    BY CacheAssumption
  <2> QED
    BY <1>1, <2>1 DEF NoWalk, Walks
<1>3. c \in States /\ Hashed(c, HashSlice)
  BY <1>1 DEF CacheInv, ShardsOK, Sound
<1>4. \A e \in CachedOf(c) : Shard(c.hash[e]) >= 0 /\ ~ (Shard(c.hash[e]) < 0)
  <2>1. \A e \in CachedOf(c) : Shard(c.hash[e]) \in Nat
    BY <1>3, ShardNumbers
  <2> QED
    BY <2>1
<1>5. Cached = CachedOf(c) /\ CachedOf(c) \in SUBSET Entries
  BY DEF Cached, CachedOf
<1>6. Sum(Cached, Charge) = SumOf(c.charge, CachedOf(c)) /\ SumOf(c.charge, CachedOf(c)) \in Nat
  <2>1. Sum(CachedOf(c), Charge) = SumOf(shard_.charge, CachedOf(c))
    BY <1>3, <1>5, ChargeSum
  <2>2. From(c, 0) = CachedOf(c)
    BY <1>4 DEF From
  <2>3. SumOf(c.charge, From(c, 0)) \in Nat
    BY <1>3, FromIs
  <2> QED
    BY <1>5, <2>1, <2>2, <2>3
<1>7. most' \in Nat
  BY <1>1, <1>6
<1>8. ASSUME method = "Prune" PROVE ToPrune(shard_', handles', since', 0)
  <2>1. \A e \in since' : e \in CachedOf(c) /\ handles[e] = 0
    BY <1>1, <1>8 DEF Concerned, CachedOf
  <2> QED
    BY <1>1, <1>4, <2>1 DEF ToPrune
<1>9. ASSUME method = "TotalCharge" PROVE Bounds(shard_', since', 0, 0, most')
  <2>1. since' \subseteq CachedOf(c)
    BY <1>1 DEF Concerned, CachedOf
  <2>2. From(c, 0) = CachedOf(c)
    BY <1>4 DEF From
  <2>3. Seen(c, since', 0) = {}
    BY <1>4, <2>1 DEF Seen
  <2>4. most' = SumOf(c.charge, CachedOf(c))
    BY <1>1, <1>6, <1>9
  <2>5. 0 + SumOf(c.charge, From(c, 0)) <= most'
    BY <1>6, <2>2, <2>4
  <2>6. SumOf(c.charge, Seen(c, since', 0)) <= 0
    BY <2>3, SumEmpty
  <2> QED
    BY <1>1, <2>1, <2>5, <2>6 DEF Bounds
<1> QED
  BY <1>2, <1>7, <1>8, <1>9 DEF WalkInv

LEMMA WalkInvStep == CacheInv /\ WalkInv /\ [Next]_vars => WalkInv'
<1> SUFFICES ASSUME CacheInv, WalkInv, [Next]_vars PROVE WalkInv'
  OBVIOUS
<1>0. CacheInv'
  BY CacheInvStep
<1>1. ASSUME NEW k \in Keys, NEW e \in Entries, NEW n \in Charges, Insert(k, e, n) PROVE WalkInv'
  BY <1>1, InsertBetween
<1>2. ASSUME NEW k \in Keys, Lookup(k) PROVE WalkInv'
  <2>1. PICK e \in Entries : Found(e, k)
    BY <1>2, LookupStep
  <2>2. Kept(shard_, shard_')
    BY <2>1 DEF Found
  <2>3. Shrinks(shard_, shard_')
    BY <2>2, KeptShrinks
  <2>4. UNCHANGED walk /\ Watch
    BY <1>2 DEF Lookup
  <2> QED
    BY <1>0, <2>3, <2>4, BetweenVisits
<1>3. ASSUME NEW e \in Entries, Release(e) PROVE WalkInv'
  <2>1. Kept(shard_, shard_')
    BY <1>3, ReleaseStep
  <2>2. Shrinks(shard_, shard_')
    BY <2>1, KeptShrinks
  <2>3. UNCHANGED walk /\ Watch
    BY <1>3 DEF Release
  <2> QED
    BY <1>0, <2>2, <2>3, BetweenVisits
<1>4. ASSUME NEW k \in Keys, Erase(k) PROVE WalkInv'
  <2>1. KeyErased(shard_, shard_', handles, k, TableLookup(shard_, Shard(HashSlice[k]), k, HashSlice[k]))
    BY <1>4, EraseStep
  <2>2. Shrinks(shard_, shard_')
    BY <2>1, KeyErasedShrinks
  <2>3. UNCHANGED walk /\ Watch
    BY <1>4 DEF Erase
  <2> QED
    BY <1>0, <2>2, <2>3, BetweenVisits
<1>5. ASSUME NEW method \in {"Prune", "TotalCharge"}, Call(method) PROVE WalkInv'
  BY <1>5, CallBegins
<1>6. CASE PruneNext
  <2> DEFINE c == shard_
             d == shard_'
             s == walk.s
  <2>1. walk.s \in Shards /\ Pruned(c, d, handles, HashSlice, s)
    BY <1>6, PruneStep
  <2>2. /\ walk.call = "Prune" /\ walk' = [walk EXCEPT !.s = @ + 1] /\ handles' = handles
        /\ since' = since \cap Concerned(walk.call, d, handles') /\ most' = most
    BY <1>6 DEF PruneNext, Visiting, Watch
  <2>3. walk \in Walks /\ most \in Nat /\ ToPrune(c, handles, since, s)
    BY <2>2 DEF WalkInv
  <2>4. walk' \in Walks /\ walk'.call = "Prune" /\ walk'.s = s + 1 /\ s \in Nat
    <3>1. kNumShards \in Nat \ {0}
      BY CacheAssumption
    <3> QED
      BY <2>1, <2>2, <2>3, <3>1 DEF Walks, Shards
  <2>5. Hashed(c, HashSlice)
    <3>1. ~ destroyed
      BY <1>6, PruneStep
    <3> QED
      BY <3>1 DEF CacheInv, ShardsOK, Sound
  <2>6. ASSUME NEW e \in since' PROVE e \in CachedOf(d) /\ handles'[e] = 0 /\ Shard(d.hash[e]) >= s + 1
    <3>1. e \in since /\ e \in CachedOf(d) /\ handles'[e] = 0 /\ handles[e] = 0
      BY <2>2, <2>6 DEF Concerned, CachedOf
    <3>2. Shrinks(c, d)
      BY <2>1, EvictedShrinks DEF Pruned
    <3>3. e \in CachedOf(c) /\ d.hash[e] = c.hash[e]
      BY <3>1, <3>2 DEF Shrinks
    <3>4. Shard(c.hash[e]) >= s /\ Shard(c.hash[e]) \in Nat
      BY <2>3, <2>5, <3>1, <3>3, ShardNumbers DEF ToPrune
    <3>5. Shard(c.hash[e]) # s
      BY <2>1, <3>1, <3>3 DEF Pruned, InShard
    <3> QED
      BY <2>4, <3>1, <3>3, <3>4, <3>5
  <2>7. ToPrune(d, handles', since', s + 1)
    BY <2>6 DEF ToPrune
  <2> QED
    BY <2>2, <2>3, <2>4, <2>7 DEF WalkInv
<1>7. CASE TotalChargeNext
  <2> DEFINE s == walk.s
             u == shard_.usage_[s]
  <2>1. /\ walk.call = "TotalCharge" /\ s \in Shards /\ UNCHANGED <<shard_, handles, since, most, destroyed>>
        /\ walk' = [walk EXCEPT !.s = @ + 1, !.total = @ + shard_.usage_[walk.s]]
    BY <1>7 DEF TotalChargeNext, Visiting, ghosts
  <2>2. ~ destroyed /\ ShardsOK(shard_, handles, HashSlice)
    BY <2>1 DEF CacheInv, NoWalk
  <2>3. u \in Nat
    BY <2>1, <2>2, UsageIsNat
  <2>4. walk \in Walks /\ most \in Nat /\ Bounds(shard_, since, s, walk.total, most) /\ walk.total \in Nat
    BY <2>1 DEF WalkInv, Walks
  <2>5. walk' \in Walks /\ walk'.call = "TotalCharge" /\ walk'.s = s + 1 /\ walk'.total = walk.total + u
    <3>1. kNumShards \in Nat \ {0}
      BY CacheAssumption
    <3>2. s + 1 \in 0 .. kNumShards
      BY <2>1, <3>1 DEF Shards
    <3>3. walk' = [walk EXCEPT !.s = s + 1, !.total = walk.total + u]
      BY <2>1
    <3>4. walk.total + u \in Nat
      BY <2>3, <2>4
    <3> HIDE DEF s, u
    <3> QED
      BY <2>1, <2>4, <3>2, <3>3, <3>4 DEF Walks
  <2>6. Bounds(shard_, since, s + 1, walk.total + u, most)
    BY <2>1, <2>2, <2>4, BoundsVisit
  <2> QED
    BY <2>1, <2>4, <2>5, <2>6 DEF WalkInv
<1>8. CASE Return
  <2>1. walk' = NoWalk /\ most' = 0
    BY <1>8 DEF Return
  <2>2. NoWalk \in Walks /\ NoWalk.call = "none"
    BY CacheAssumption DEF NoWalk, Walks
  <2> QED
    BY <2>1, <2>2 DEF WalkInv
<1>9. CASE Destroy
  <2>1. walk = NoWalk /\ UNCHANGED <<walk, most>>
    BY <1>9 DEF Destroy, ghosts
  <2>2. walk'.call = "none"
    BY <2>1 DEF NoWalk
  <2> QED
    BY <2>1, <2>2 DEF WalkInv
<1>10. CASE Destroyed \/ UNCHANGED vars
  BY <1>10 DEF WalkInv, Destroyed, vars, ghosts
<1> QED
  BY <1>1, <1>2, <1>3, <1>4, <1>5, <1>6, <1>7, <1>8, <1>9, <1>10 DEF Next

LEMMA WalkInvInit == Init => WalkInv
<1> SUFFICES ASSUME Init PROVE WalkInv
  OBVIOUS
<1>1. NoWalk \in Walks /\ NoWalk.call = "none"
  BY CacheAssumption DEF NoWalk, Walks
<1> QED
  BY <1>1 DEF WalkInv, Init

\* A Prune under way has left no idle entry in the shards it has visited, a TotalCharge has
\* counted each entry at most once, whatever methods other threads call in between.
THEOREM WalkInvariant == Spec => []WalkInv
BY CacheInvInit, CacheInvStep, WalkInvInit, WalkInvStep, PTL DEF Spec

LEMMA PruneFollows == CacheInv /\ WalkInv => PruneLeavesNoneIdle
<1> SUFFICES ASSUME CacheInv, WalkInv, walk.call = "Prune", walk.s = kNumShards, NEW e \in since PROVE FALSE
  BY DEF PruneLeavesNoneIdle
<1>1. ToPrune(shard_, handles, since, walk.s)
  BY DEF WalkInv
<1>2. e \in CachedOf(shard_) /\ Shard(shard_.hash[e]) >= kNumShards
  BY <1>1 DEF ToPrune
<1>3. Hashed(shard_, HashSlice)
  BY DEF CacheInv, NoWalk, ShardsOK, Sound
<1> QED
  BY <1>2, <1>3, ShardNumbers

\* When Prune returns no entry is left that was cached and held by nobody all the while,
\* whatever other threads called between its visits of two shards.
THEOREM PruneIsComplete == Spec => []PruneLeavesNoneIdle
BY CacheInvariant, WalkInvariant, PruneFollows, PTL

LEMMA TotalFollows == CacheInv /\ WalkInv => TotalChargeBounded
<1> SUFFICES ASSUME CacheInv, WalkInv, walk.call = "TotalCharge", walk.s = kNumShards
             PROVE  Sum(since, Charge) <= walk.total /\ walk.total <= most
  BY DEF TotalChargeBounded
<1>1. shard_ \in States /\ walk.total \in Nat /\ most \in Nat
  BY DEF CacheInv, WalkInv, Walks
<1>2. Bounds(shard_, since, kNumShards, walk.total, most)
  BY DEF WalkInv
<1>3. since \in SUBSET Entries /\ since \subseteq CachedOf(shard_)
  BY <1>2 DEF Bounds, CachedOf
<1>4. Hashed(shard_, HashSlice)
  BY DEF CacheInv, NoWalk, ShardsOK, Sound
<1>5. \A e \in CachedOf(shard_) : Shard(shard_.hash[e]) < kNumShards
  BY <1>4, ShardNumbers
<1>6. Seen(shard_, since, kNumShards) = since
  BY <1>3, <1>5 DEF Seen
<1>7. Sum(since, Charge) = SumOf(shard_.charge, since)
  BY <1>1, <1>3, ChargeSum
<1>8. SumOf(shard_.charge, From(shard_, kNumShards)) \in Nat
  BY <1>1, FromIs
<1> QED
  BY <1>1, <1>2, <1>6, <1>7, <1>8 DEF Bounds

\* TotalCharge, which adds up usage_ of one shard after the other without a common lock,
\* returns no less than the charges that stayed and no more than those that ever were there.
THEOREM TotalChargeIsBounded == Spec => []TotalChargeBounded
BY CacheInvariant, WalkInvariant, TotalFollows, PTL

(***************************************************************************)
(* The cache implements the one of include/cache.h.                        *)
(***************************************************************************)
\* What the abstract cache sees of the shards: the entry of a key, the map of all keys, the
\* costs, the entries that live and the idle ones.
For(c, k) ==
    LET S == {e \in CachedOf(c) : c.key[e] = k}
    IN  IF S = {} THEN Nil ELSE CHOOSE e \in S : TRUE

MapOf(c) == [k \in Keys |-> For(c, k)]
CostOf(c) == [e \in Entries |-> IF e \in CachedOf(c) THEN c.charge[e] ELSE 0]
LifeOf(c) == {e \in Entries : c.refs[e] > 0}
IdleOf(c) == [s \in Shards |-> ListOf(c, lru_(s))]

LEMMA MappingIs ==
    /\ CachedMap = MapOf(shard_) /\ CostMap = CostOf(shard_) /\ Alive = LifeOf(shard_)
    /\ ~ destroyed => IdleLists = IdleOf(shard_)
    /\ destroyed => IdleLists = [s \in Shards |-> <<>>]
<1>1. CachedMap = MapOf(shard_)
  BY DEF CachedMap, MapOf, CachedFor, For, Cached, CachedOf
<1>2. CostMap = CostOf(shard_)
  BY DEF CostMap, CostOf, CachedOf, Charge
<1> QED
  BY <1>1, <1>2 DEF Alive, LifeOf, IdleLists, IdleOf

LEMMA MappingNext ==
    /\ CachedMap' = MapOf(shard_') /\ CostMap' = CostOf(shard_') /\ Alive' = LifeOf(shard_')
    /\ ~ destroyed' => IdleLists' = IdleOf(shard_')
    /\ destroyed' => IdleLists' = [s \in Shards |-> <<>>]
<1>1. CachedMap' = MapOf(shard_')
  BY DEF CachedMap, MapOf, CachedFor, For, Cached, CachedOf
<1>2. CostMap' = CostOf(shard_')
  BY DEF CostMap, CostOf, CachedOf, Charge
<1> QED
  BY <1>1, <1>2 DEF Alive, LifeOf, IdleLists, IdleOf

\* f is the entry of key k.
IsFor(c, k, f) ==
    /\ f = Nil => \A x \in CachedOf(c) : c.key[x] # k
    /\ f # Nil => f \in CachedOf(c) /\ c.key[f] = k

LEMMA ForFound ==
    ASSUME NEW c, NEW k
    PROVE  IsFor(c, k, For(c, k)) /\ For(c, k) \in Entries \cup {Nil}
<1> DEFINE S == {e \in CachedOf(c) : c.key[e] = k}
<1>1. For(c, k) = IF S = {} THEN Nil ELSE CHOOSE e \in S : TRUE
  BY DEF For
<1>2. \A x : x \in S <=> x \in CachedOf(c) /\ c.key[x] = k
  OBVIOUS
<1>3. CachedOf(c) \subseteq Entries /\ Nil \notin Entries
  BY TableAssumption DEF CachedOf
<1> HIDE DEF S
<1>4. CASE S = {}
  BY <1>1, <1>2, <1>4 DEF IsFor
<1>5. CASE S # {}
  <2>1. For(c, k) \in S
    BY <1>1, <1>5
  <2> QED
    BY <1>2, <1>3, <2>1 DEF IsFor
<1> QED
  BY <1>4, <1>5

LEMMA ForIs ==
    ASSUME NEW c, UniqueIn(c, CachedOf(c)), NEW k, NEW f, IsFor(c, k, f)
    PROVE  For(c, k) = f
<1> DEFINE g == For(c, k)
<1>1. IsFor(c, k, g)
  BY ForFound
<1> HIDE DEF g
<1>2. g = f
  BY <1>1 DEF IsFor, UniqueIn
<1> QED
  BY <1>2 DEF g

\* The entries G are not cached any more; the data of the others is as it was.
LeavesOut(c, d, G) ==
    /\ CachedOf(d) = CachedOf(c) \ G
    /\ \A x \in CachedOf(d) : d.key[x] = c.key[x] /\ d.hash[x] = c.hash[x] /\ d.charge[x] = c.charge[x]

\* What Leave of the abstract cache says of them.
Left(c, d, held, G) ==
    /\ MapOf(d) = [k \in Keys |-> IF MapOf(c)[k] \in G THEN Nil ELSE MapOf(c)[k]]
    /\ CostOf(d) = [e \in Entries |-> IF e \in G THEN 0 ELSE CostOf(c)[e]]
    /\ LifeOf(d) = {e \in LifeOf(c) : e \in G => held[e] > 0}

LEMMA LeftIs ==
    ASSUME NEW c, NEW d, NEW held \in [Entries -> Nat], NEW G, LeavesOut(c, d, G),
           UniqueIn(c, CachedOf(c)), RefsOK(c, held), RefsOK(d, held)
    PROVE  Left(c, d, held, G)
<1>0. CachedOf(d) = CachedOf(c) \ G /\ CachedOf(c) \subseteq Entries
  BY DEF LeavesOut, CachedOf
<1>1. ASSUME NEW k \in Keys PROVE For(d, k) = IF For(c, k) \in G THEN Nil ELSE For(c, k)
  <2> DEFINE f == For(c, k)
             g == IF f \in G THEN Nil ELSE f
  <2>1. IsFor(c, k, f)
    BY ForFound
  <2>2. UniqueIn(d, CachedOf(d))
    BY <1>0 DEF UniqueIn, LeavesOut
  <2> HIDE DEF f
  <2>3. IsFor(d, k, g)
    <3>1. CASE f \in G /\ f # Nil
      <4>1. ASSUME NEW x \in CachedOf(d) PROVE d.key[x] # k
        <5>1. x \in CachedOf(c) /\ x \notin G /\ d.key[x] = c.key[x]
          BY <1>0 DEF LeavesOut
        <5> QED
          BY <2>1, <3>1, <5>1 DEF IsFor, UniqueIn
      <4> QED
        BY <3>1, <4>1 DEF IsFor
    <3>2. CASE f = Nil
      <4>1. \A x \in CachedOf(d) : d.key[x] # k
        BY <1>0, <2>1, <3>2 DEF IsFor, LeavesOut
      <4> QED
        BY <3>2, <4>1 DEF IsFor
    <3>3. CASE f \notin G /\ f # Nil
      BY <1>0, <2>1, <3>3 DEF IsFor, LeavesOut
    <3> QED
      BY <3>1, <3>2, <3>3
  <2> HIDE DEF g
  <2>4. For(d, k) = g
    BY <2>2, <2>3, ForIs
  <2> QED
    BY <2>4 DEF f, g
<1>2. MapOf(d) = [k \in Keys |-> IF MapOf(c)[k] \in G THEN Nil ELSE MapOf(c)[k]]
  <2>1. \A k \in Keys : MapOf(c)[k] = For(c, k)
    BY DEF MapOf
  <2> QED
    BY <1>1, <2>1 DEF MapOf
<1>3. CostOf(d) = [e \in Entries |-> IF e \in G THEN 0 ELSE CostOf(c)[e]]
  BY <1>0 DEF CostOf, LeavesOut
<1>4. ASSUME NEW e \in Entries PROVE d.refs[e] > 0 <=> c.refs[e] > 0 /\ (e \in G => held[e] > 0)
  <2>1. c.refs[e] = held[e] + (IF e \in CachedOf(c) THEN 1 ELSE 0) /\ held[e] \in Nat
    BY DEF RefsOK
  <2>2. d.refs[e] = held[e] + (IF e \in CachedOf(d) THEN 1 ELSE 0)
    BY DEF RefsOK
  <2>3. e \in CachedOf(d) <=> e \in CachedOf(c) /\ e \notin G
    BY <1>0
  <2> QED
    BY <2>1, <2>2, <2>3
<1>5. LifeOf(d) = {e \in LifeOf(c) : e \in G => held[e] > 0}
  BY <1>4 DEF LifeOf
<1> QED
  BY <1>2, <1>3, <1>5 DEF Left

\* The operators of Cache on sequences.
LEMMA RemoveAtIs ==
    ASSUME NEW t \in Seq(Entries), NEW i \in 1 .. Len(t)
    PROVE  Abstract!RemoveAt(t, i) = CutOut(t, i)
<1> DEFINE a == SubSeq(t, 1, i - 1)
           b == SubSeq(t, i + 1, Len(t))
           n == Len(t)
<1>1. n \in Nat /\ i \in 1 .. n
  OBVIOUS
<1>2. a \in Seq(Entries) /\ Len(a) = i - 1 /\ \A j \in 1 .. i - 1 : a[j] = t[j]
  <2>1. i - 1 \in 0 .. n /\ 1 \in 1 .. n + 1
    BY <1>1
  <2>2. 1 \in 1 .. Len(t) + 1 /\ i - 1 \in 1 - 1 .. Len(t)
    BY <2>1
  <2> QED
    BY <2>2, SubSeqProperties
<1>3. b \in Seq(Entries) /\ Len(b) = n - i /\ \A j \in 1 .. n - i : b[j] = t[i + j]
  <2>1. i + 1 \in 1 .. Len(t) + 1 /\ Len(t) \in i + 1 - 1 .. Len(t)
    BY <1>1
  <2>2. /\ b \in Seq(Entries) /\ Len(b) = Len(t) - (i + 1) + 1
        /\ \A j \in 1 .. Len(t) - (i + 1) + 1 : b[j] = t[i + 1 + j - 1]
    BY <2>1, SubSeqProperties
  <2> HIDE DEF b
  <2>3. Len(t) - (i + 1) + 1 = n - i /\ \A j \in Nat : i + 1 + j - 1 = i + j
    BY <1>1
  <2> QED
    BY <2>2, <2>3
<1>4. Abstract!RemoveAt(t, i) = a \o b
  BY DEF Abstract!RemoveAt
<1> HIDE DEF a, b, n
<1>5. a \o b \in Seq(Entries) /\ Len(a \o b) = n - 1
  <2>1. a \o b \in Seq(Entries) /\ Len(a \o b) = Len(a) + Len(b)
    BY <1>2, <1>3, ConcatProperties
  <2>2. Len(a) + Len(b) = n - 1
    BY <1>1, <1>2, <1>3
  <2> QED
    BY <2>1, <2>2
<1>6. ASSUME NEW j \in 1 .. n - 1 PROVE (a \o b)[j] = IF j < i THEN t[j] ELSE t[j + 1]
  <2>1. j \in 1 .. Len(a) + Len(b)
    BY <1>1, <1>2, <1>3
  <2>2. (a \o b)[j] = IF j <= Len(a) THEN a[j] ELSE b[j - Len(a)]
    BY <1>2, <1>3, <2>1, ConcatProperties
  <2>3. CASE j < i
    BY <1>1, <1>2, <2>2, <2>3
  <2>4. CASE ~ (j < i)
    <3>1. j - (i - 1) \in 1 .. n - i /\ i + (j - (i - 1)) = j + 1
      BY <1>1, <2>4
    <3> QED
      BY <1>1, <1>2, <1>3, <2>2, <2>4, <3>1
  <2> QED
    BY <2>3, <2>4
<1>7. a \o b = [j \in 1 .. n - 1 |-> IF j < i THEN t[j] ELSE t[j + 1]]
  <2> DEFINE u == a \o b
  <2>1. u \in Seq(Entries) /\ Len(u) = n - 1 /\ \A j \in 1 .. n - 1 : u[j] = IF j < i THEN t[j] ELSE t[j + 1]
    BY <1>5, <1>6
  <2> HIDE DEF u
  <2>2. u = [j \in 1 .. Len(u) |-> u[j]]
    BY <2>1
  <2>3. u = [j \in 1 .. n - 1 |-> IF j < i THEN t[j] ELSE t[j + 1]]
    BY <2>1, <2>2
  <2> QED
    BY <2>3 DEF u
<1> QED
  BY <1>4, <1>7 DEF CutOut, n

LEMMA RemoveFirstIs ==
    ASSUME NEW t \in Seq(Entries), Inj(t), NEW e
    PROVE  /\ \A i \in 1 .. Len(t) : t[i] = e => Abstract!RemoveFirst(t, e) = CutOut(t, i)
           /\ e \notin ToSet(t) => Abstract!RemoveFirst(t, e) = t
<1>1. ASSUME NEW i \in 1 .. Len(t), t[i] = e PROVE Abstract!RemoveFirst(t, e) = CutOut(t, i)
  <2> DEFINE I == {j \in 1 .. Len(t) : t[j] = e}
  <2>1. I = {i}
    BY <1>1 DEF Inj
  <2> HIDE DEF I
  <2>2. Abstract!Min(I) = i
    BY <2>1 DEF Abstract!Min
  <2>3. Abstract!RemoveFirst(t, e) = Abstract!RemoveAt(t, Abstract!Min(I))
    BY <1>1, <2>1 DEF Abstract!RemoveFirst, Abstract!SelectInSeq, I
  <2> QED
    BY <2>2, <2>3, RemoveAtIs
<1>2. ASSUME e \notin ToSet(t) PROVE Abstract!RemoveFirst(t, e) = t
  <2>1. \A j \in 1 .. Len(t) : t[j] # e
    BY <1>2, ToSetIs
  <2> QED
    BY <2>1 DEF Abstract!RemoveFirst
<1> QED
  BY <1>1, <1>2

LEMMA OldestIs ==
    ASSUME NEW t \in Seq(Entries), NEW n \in 0 .. Len(t)
    PROVE  Abstract!Oldest(t, n) = FirstOf(t, n) /\ SubSeq(t, n + 1, Len(t)) = After(t, n)
<1> DEFINE a == SubSeq(t, 1, n)
           b == SubSeq(t, n + 1, Len(t))
<1>0. Len(t) \in Nat /\ n \in Nat /\ n <= Len(t)
  OBVIOUS
<1>1. a \in Seq(Entries) /\ Len(a) = n /\ \A j \in 1 .. n : a[j] = t[j]
  <2>1. 1 \in 1 .. Len(t) + 1 /\ n \in 1 - 1 .. Len(t)
    BY <1>0
  <2>2. /\ a \in Seq(Entries) /\ Len(a) = n - 1 + 1
        /\ \A j \in 1 .. n - 1 + 1 : a[j] = t[1 + j - 1]
    BY <2>1, SubSeqProperties
  <2> HIDE DEF a
  <2>3. n - 1 + 1 = n /\ \A j \in 1 .. n : 1 + j - 1 = j
    BY <1>0
  <2> QED
    BY <2>2, <2>3
<1>2. b \in Seq(Entries) /\ Len(b) = Len(t) - n /\ \A j \in 1 .. Len(t) - n : b[j] = t[j + n]
  <2>1. n + 1 \in 1 .. Len(t) + 1 /\ Len(t) \in n + 1 - 1 .. Len(t)
    BY <1>0
  <2>2. /\ b \in Seq(Entries) /\ Len(b) = Len(t) - (n + 1) + 1
        /\ \A j \in 1 .. Len(t) - (n + 1) + 1 : b[j] = t[n + 1 + j - 1]
    BY <2>1, SubSeqProperties
  <2> HIDE DEF b
  <2>3. Len(t) - (n + 1) + 1 = Len(t) - n /\ \A j \in Nat : n + 1 + j - 1 = j + n
    BY <1>0
  <2> QED
    BY <2>2, <2>3
<1> HIDE DEF a, b
<1>3. Abstract!Oldest(t, n) = {a[j] : j \in 1 .. n}
  <2>1. DOMAIN a = 1 .. n
    BY <1>1
  <2> QED
    BY <2>1 DEF Abstract!Oldest, Abstract!ToSet, a
<1>4. b = After(t, n)
  <2>1. b = [j \in 1 .. Len(b) |-> b[j]]
    BY <1>2
  <2> QED
    BY <1>2, <2>1 DEF After
<1> QED
  BY <1>1, <1>3, <1>4 DEF FirstOf, b

\* e leaves the idle entries of shard s, if it is one of them.
IdleWithout(c, d, s, e) ==
    IdleOf(d) = [IdleOf(c) EXCEPT ![s] = Abstract!RemoveFirst(ListOf(c, lru_(s)), e)]

LEMMA IdleWithoutIs ==
    ASSUME NEW c, NEW held \in [Entries -> Nat], NEW hs, ShardsOK(c, held, hs), NEW d, NEW s \in Shards, NEW e
    PROVE  /\ IdleLeft(c, d, s, e) => IdleWithout(c, d, s, e)
           /\ IdleSame(c, d) /\ e \notin IdleIn(c, held, s) => IdleWithout(c, d, s, e)
<1> DEFINE t == ListOf(c, lru_(s))
           u == Abstract!RemoveFirst(t, e)
<1>1. IdleList(c, held, s, t)
  BY IdleListIs
<1>2. t \in Seq(Entries) /\ Inj(t) /\ ToSet(t) = IdleIn(c, held, s)
  BY <1>1 DEF IdleList
<1>3. ASSUME ListOf(d, lru_(s)) = u, \A r \in Shards : r # s => ListOf(d, lru_(r)) = ListOf(c, lru_(r))
      PROVE  IdleWithout(c, d, s, e)
  <2>1. \A r \in Shards : IdleOf(d)[r] = IF r = s THEN u ELSE IdleOf(c)[r]
    BY <1>3 DEF IdleOf
  <2>2. IdleOf(d) = [r \in Shards |-> IdleOf(d)[r]] /\ IdleOf(c) = [r \in Shards |-> IdleOf(c)[r]]
    BY DEF IdleOf
  <2> HIDE DEF u
  <2>3. IdleOf(d) = [IdleOf(c) EXCEPT ![s] = u]
    BY <2>1, <2>2
  <2> QED
    BY <2>3 DEF IdleWithout, u
<1>4. ASSUME IdleLeft(c, d, s, e) PROVE IdleWithout(c, d, s, e)
  <2>1. PICK i \in 1 .. Len(t) : t[i] = e /\ ListOf(d, lru_(s)) = CutOut(t, i)
    BY <1>4 DEF IdleLeft
  <2>2. \A r \in Shards : r # s => ListOf(d, lru_(r)) = ListOf(c, lru_(r))
    BY <1>4 DEF IdleLeft
  <2> HIDE DEF t
  <2>3. ListOf(d, lru_(s)) = u
    BY <1>2, <2>1, RemoveFirstIs
  <2> QED
    BY <1>3, <2>2, <2>3
<1>5. ASSUME IdleSame(c, d), e \notin IdleIn(c, held, s) PROVE IdleWithout(c, d, s, e)
  <2>1. \A r \in Shards : ListOf(d, lru_(r)) = ListOf(c, lru_(r))
    BY <1>5 DEF IdleSame
  <2>2. u = t
    <3> HIDE DEF t
    <3> QED
      BY <1>2, <1>5, RemoveFirstIs
  <2> QED
    BY <1>3, <2>1, <2>2
<1> QED
  BY <1>4, <1>5

\* Leave of the abstract cache.
LEMMA LeaveRefines ==
    ASSUME NEW G, Left(shard_, shard_', handles, G)
    PROVE  Abstract!Leave(G)
BY MappingIs, MappingNext DEF Left, Abstract!Leave

LEMMA PartIs ==
    ASSUME NEW k \in Keys, HashSlice \in [Keys -> 0 .. HashRange - 1]
    PROVE  PartOf[k] = Shard(HashSlice[k]) /\ PartOf[k] \in Shards
BY ShardIs DEF PartOf

LEMMA InvGives ==
    ASSUME CacheInv, ~ destroyed
    PROVE  /\ ShardsOK(shard_, handles, HashSlice) /\ handles \in [Entries -> Nat] /\ shard_ \in States
           /\ HashSlice \in [Keys -> 0 .. HashRange - 1] /\ RefsOK(shard_, handles)
           /\ UniqueIn(shard_, CachedOf(shard_)) /\ Hashed(shard_, HashSlice)
BY DEF CacheInv, ShardsOK, Sound

LEMMA EraseRefines ==
    ASSUME CacheInv, NEW k \in Keys, Erase(k)
    PROVE  Abstract!Erase(k)
<1> DEFINE c == shard_
           d == shard_'
           s == Shard(HashSlice[k])
           e == TableLookup(c, s, k, HashSlice[k])
<1>1. CacheInv' /\ ~ destroyed /\ KeyErased(c, d, handles, k, e)
  BY EraseStep
<1>2. UNCHANGED <<HashSlice, capacity_, handles, destroyed>>
  BY DEF Erase
<1>3. /\ ShardsOK(c, handles, HashSlice) /\ handles \in [Entries -> Nat] /\ RefsOK(c, handles)
      /\ HashSlice \in [Keys -> 0 .. HashRange - 1] /\ UniqueIn(c, CachedOf(c)) /\ Hashed(c, HashSlice)
  BY <1>1, InvGives
<1>4. RefsOK(d, handles)
  BY <1>1, <1>2 DEF CacheInv
<1>5. s \in Shards /\ PartOf[k] = s
  BY <1>3, PartIs
<1>6. CachedOf(c) \subseteq Entries /\ Nil \notin Entries
  BY TableAssumption DEF CachedOf
<1> HIDE DEF c, d, s, e
<1>7. IsFor(c, k, e)
  BY <1>1 DEF KeyErased, IsFor
<1>8. For(c, k) = e
  BY <1>3, <1>7, ForIs
<1>9. LeavesOut(c, d, {e})
  <2>1. CASE e = Nil
    BY <1>1, <1>6, <2>1 DEF KeyErased, LeavesOut
  <2>2. CASE e # Nil
    <3>1. Erased(c, d, handles, e)
      BY <1>1, <2>2 DEF KeyErased
    <3> QED
      BY <1>6, <3>1 DEF Erased, LeavesOut
  <2> QED
    BY <2>1, <2>2
<1>10. Left(c, d, handles, {e})
  BY <1>3, <1>4, <1>9, LeftIs
<1>11. IdleWithout(c, d, s, e)
  <2>1. CASE e = Nil
    <3>1. IdleSame(c, d)
      BY <1>1, <2>1 DEF KeyErased, IdleSame
    <3>2. e \notin IdleIn(c, handles, s)
      BY <1>6, <2>1 DEF IdleIn, InShard
    <3> QED
      BY <1>3, <1>5, <3>1, <3>2, IdleWithoutIs
  <2>2. CASE e # Nil
    <3>1. Erased(c, d, handles, e) /\ e \in CachedOf(c) /\ c.key[e] = k
      BY <1>1, <2>2 DEF KeyErased
    <3>2. LeftList(c, d, PlaceOf(c, handles)[e], e)
      BY <3>1 DEF Erased
    <3>3. PlaceOf(c, handles)[e] = IF handles[e] = 0 THEN lru_(s) ELSE in_use_(s)
      BY <1>3, <1>6, <3>1 DEF PlaceOf, Hashed, s
    <3>4. \A r \in Shards : /\ lru_(r) \in Heads /\ lru_(r) # in_use_(s)
                            /\ (r # s => lru_(r) # lru_(s))
      BY <1>5, HeadFacts
    <3>5. CASE handles[e] = 0
      <4>1. LeftList(c, d, lru_(s), e)
        BY <3>2, <3>3, <3>5
      <4>2. IdleLeft(c, d, s, e)
        BY <3>4, <4>1 DEF LeftList, IdleLeft
      <4> QED
        BY <1>3, <1>5, <4>2, IdleWithoutIs
    <3>6. CASE handles[e] # 0
      <4>1. LeftList(c, d, in_use_(s), e)
        BY <3>2, <3>3, <3>6
      <4>2. IdleSame(c, d)
        BY <3>4, <4>1 DEF LeftList, IdleSame
      <4>3. e \notin IdleIn(c, handles, s)
        BY <3>6 DEF IdleIn
      <4> QED
        BY <1>3, <1>5, <4>2, <4>3, IdleWithoutIs
    <3> QED
      BY <3>5, <3>6
  <2> QED
    BY <2>1, <2>2
<1>12. CachedMap[k] = e
  BY <1>8, MappingIs DEF MapOf, c
<1>13. Abstract!Leave({CachedMap[k]})
  BY <1>10, <1>12, LeaveRefines DEF c, d
<1>14. IdleLists = IdleOf(c) /\ IdleLists' = IdleOf(d)
  BY <1>1, <1>2, MappingIs, MappingNext DEF c, d
<1>15. IdleLists' = [IdleLists EXCEPT ![PartOf[k]] = Abstract!RemoveFirst(IdleLists[PartOf[k]], CachedMap[k])]
  <2>1. IdleLists[s] = ListOf(c, lru_(s))
    BY <1>5, <1>14 DEF IdleOf
  <2> QED
    BY <1>5, <1>11, <1>12, <1>14, <2>1 DEF IdleWithout
<1>16. PartOf' = PartOf
  BY <1>2 DEF PartOf
<1> QED
  BY <1>1, <1>2, <1>13, <1>15, <1>16 DEF Abstract!Erase

\* The entries cached, in all and in a part.
LEMMA MembersAre ==
    ASSUME CacheInv, ~ destroyed
    PROVE  /\ Abstract!CachedEntries = CachedOf(shard_)
           /\ \A p \in Shards : Abstract!Members(p) = InShard(shard_, CachedOf(shard_), p)
<1> DEFINE c == shard_
           P == CachedOf(c)
<1>1. UniqueIn(c, P) /\ Hashed(c, HashSlice) /\ HashSlice \in [Keys -> 0 .. HashRange - 1]
  BY InvGives
<1>2. P \subseteq Entries /\ Nil \notin Entries
  BY TableAssumption DEF CachedOf
<1>3. ASSUME NEW k \in Keys PROVE IsFor(c, k, CachedMap[k])
  BY ForFound, MappingIs DEF MapOf
<1>4. ASSUME NEW e \in P
      PROVE  c.key[e] \in Keys /\ c.hash[e] = HashSlice[c.key[e]] /\ CachedMap[c.key[e]] = e
  <2>1. c.key[e] \in Keys /\ c.hash[e] = HashSlice[c.key[e]] /\ IsFor(c, c.key[e], e)
    BY <1>1, <1>2 DEF Hashed, IsFor
  <2> HIDE DEF c
  <2>2. For(c, c.key[e]) = e
    BY <1>1, <2>1, ForIs
  <2> QED
    BY <2>1, <2>2, MappingIs DEF MapOf, c
<1> HIDE DEF c, P
<1>5. ASSUME NEW k \in Keys, CachedMap[k] # Nil PROVE CachedMap[k] \in P /\ c.key[CachedMap[k]] = k
  BY <1>3, <1>5 DEF IsFor, P
<1>6. Abstract!CachedEntries = P
  BY <1>2, <1>4, <1>5 DEF Abstract!CachedEntries
<1>7. ASSUME NEW p \in Shards PROVE Abstract!Members(p) = InShard(c, P, p)
  <2>1. \A k \in Keys : PartOf[k] = Shard(HashSlice[k])
    BY DEF PartOf
  <2>2. ASSUME NEW e \in Entries
        PROVE  (\E k \in Keys : CachedMap[k] = e /\ PartOf[k] = p) <=> e \in P /\ Shard(c.hash[e]) = p
    BY <1>2, <1>4, <1>5, <2>1
  <2> QED
    BY <1>2, <2>2 DEF Abstract!Members, InShard
<1> QED
  BY <1>6, <1>7 DEF c, P

LEMMA KeptMaps ==
    ASSUME NEW c, NEW d, Kept(c, d)
    PROVE  MapOf(d) = MapOf(c) /\ CostOf(d) = CostOf(c)
<1>1. CachedOf(d) = CachedOf(c) /\ \A x \in CachedOf(c) : d.key[x] = c.key[x] /\ d.charge[x] = c.charge[x]
  BY DEF Kept
<1>2. \A k : {e \in CachedOf(d) : d.key[e] = k} = {e \in CachedOf(c) : c.key[e] = k}
  BY <1>1
<1>3. ASSUME NEW k PROVE For(d, k) = For(c, k)
  <2> DEFINE S == {e \in CachedOf(c) : c.key[e] = k}
             T == {e \in CachedOf(d) : d.key[e] = k}
  <2>1. For(c, k) = IF S = {} THEN Nil ELSE CHOOSE e \in S : TRUE
    BY DEF For
  <2>2. For(d, k) = IF T = {} THEN Nil ELSE CHOOSE e \in T : TRUE
    BY DEF For
  <2>3. S = T
    BY <1>2
  <2> HIDE DEF S, T
  <2> QED
    BY <2>1, <2>2, <2>3
<1> QED
  BY <1>1, <1>3 DEF MapOf, CostOf

LEMMA LookupRefines ==
    ASSUME CacheInv, NEW k \in Keys, Lookup(k)
    PROVE  Abstract!Lookup(k)
<1> DEFINE c == shard_
           d == shard_'
           s == Shard(HashSlice[k])
<1>1. PICK e \in Entries : Found(e, k)
  BY LookupStep
<1>2. ~ destroyed /\ UNCHANGED <<HashSlice, capacity_, destroyed>>
  BY DEF Lookup
<1>3. /\ ShardsOK(c, handles, HashSlice) /\ handles \in [Entries -> Nat] /\ RefsOK(c, handles)
      /\ HashSlice \in [Keys -> 0 .. HashRange - 1] /\ UniqueIn(c, CachedOf(c)) /\ c \in States
  BY <1>2, InvGives
<1>4. /\ e \in CachedOf(c) /\ c.key[e] = k /\ handles' = More(handles, e) /\ Kept(c, d)
      /\ d.refs = [c.refs EXCEPT ![e] = handles[e] + 2]
      /\ handles[e] = 0 => IdleLeft(c, d, s, e)
      /\ handles[e] # 0 => IdleSame(c, d)
  BY <1>1 DEF Found
<1>5. s \in Shards /\ PartOf[k] = s /\ Nil \notin Entries
  BY <1>3, PartIs, TableAssumption
<1>6. c.refs \in [Entries -> Int]
  BY <1>3 DEF States
<1> HIDE DEF c, d, s
<1>7. For(c, k) = e
  BY <1>3, <1>4, <1>5, ForIs DEF IsFor
<1>8. CachedMap[k] = e
  BY <1>7, MappingIs DEF MapOf, c
<1>9. IdleWithout(c, d, s, e)
  <2>1. CASE handles[e] = 0
    BY <1>3, <1>4, <1>5, <2>1, IdleWithoutIs
  <2>2. CASE handles[e] # 0
    <3>1. e \notin IdleIn(c, handles, s)
      BY <2>2 DEF IdleIn
    <3> QED
      BY <1>3, <1>4, <1>5, <2>2, <3>1, IdleWithoutIs
  <2> QED
    BY <2>1, <2>2
<1>10. IdleLists = IdleOf(c) /\ IdleLists' = IdleOf(d)
  BY <1>2, MappingIs, MappingNext DEF c, d
<1>11. IdleLists' = [IdleLists EXCEPT ![PartOf[k]] = Abstract!RemoveFirst(IdleLists[PartOf[k]], CachedMap[k])]
  <2>1. IdleLists[s] = ListOf(c, lru_(s))
    BY <1>5, <1>10 DEF IdleOf
  <2> QED
    BY <1>5, <1>8, <1>9, <1>10, <2>1 DEF IdleWithout
<1>12. CachedMap' = CachedMap /\ CostMap' = CostMap
  BY <1>4, KeptMaps, MappingIs, MappingNext DEF c, d
<1>13. Alive' = Alive
  <2>1. c.refs[e] > 0 /\ handles[e] + 2 > 0
    BY <1>3, <1>4 DEF RefsOK
  <2>2. LifeOf(d) = LifeOf(c)
    BY <1>4, <1>6, <2>1 DEF LifeOf
  <2> QED
    BY <2>2, MappingIs, MappingNext DEF c, d
<1>14. PartOf' = PartOf
  BY <1>2 DEF PartOf
<1>15. handles' = [handles EXCEPT ![CachedMap[k]] = handles[CachedMap[k]] + 1] /\ CachedMap[k] # Nil
  BY <1>4, <1>5, <1>8 DEF More
<1> QED
  BY <1>2, <1>11, <1>12, <1>13, <1>14, <1>15 DEF Abstract!Lookup

LEMMA ReleaseRefines ==
    ASSUME CacheInv, NEW e \in Entries, Release(e)
    PROVE  Abstract!Release(e)
<1> DEFINE c == shard_
           d == shard_'
           s == Shard(c.hash[e])
           P == CachedOf(c)
<1>1. /\ ~ destroyed /\ handles' = Less(handles, e) /\ handles[e] > 0 /\ Kept(c, d)
      /\ d.refs = [c.refs EXCEPT ![e] = c.refs[e] - 1]
      /\ ReleasedIdle(c, d, handles, s, e)
  BY ReleaseStep
<1>2. UNCHANGED <<HashSlice, capacity_, destroyed>>
  BY DEF Release
<1>3. handles \in [Entries -> Nat] /\ RefsOK(c, handles) /\ Hashed(c, HashSlice) /\ c \in States
  BY <1>1, InvGives
<1>4. Abstract!CachedEntries = P /\ \A p \in Shards : Abstract!Members(p) = InShard(c, P, p)
  BY <1>1, MembersAre
<1>5. c.refs \in [Entries -> Int]
  BY <1>3 DEF States
<1> HIDE DEF c, d
<1>6. s \in Shards
  BY <1>3, ShardIs DEF Hashed
<1> HIDE DEF s, P
<1>7. IdleLists = IdleOf(c) /\ IdleLists' = IdleOf(d)
  BY <1>1, <1>2, MappingIs, MappingNext DEF c, d
<1>8. \A p \in Shards : e \in Abstract!Members(p) <=> e \in P /\ p = s
  BY <1>4 DEF InShard, s
<1>9. ASSUME NEW p \in Shards
      PROVE  IdleOf(d)[p] = IF handles[e] = 1 /\ e \in Abstract!Members(p) THEN Append(IdleOf(c)[p], e) ELSE IdleOf(c)[p]
  <2>1. IdleOf(d)[p] = ListOf(d, lru_(p)) /\ IdleOf(c)[p] = ListOf(c, lru_(p))
    BY DEF IdleOf
  <2>2. CASE handles[e] = 1 /\ e \in P
    <3>1. IdleJoined(c, d, s, e)
      BY <1>1, <2>2 DEF ReleasedIdle, P
    <3> QED
      BY <1>8, <2>1, <2>2, <3>1 DEF IdleJoined
  <2>3. CASE ~ (handles[e] = 1 /\ e \in P)
    <3>1. IdleSame(c, d)
      BY <1>1, <2>3 DEF ReleasedIdle, P
    <3> QED
      BY <1>8, <2>1, <2>3, <3>1 DEF IdleSame
  <2> QED
    BY <2>2, <2>3
<1>10. IdleLists' = [p \in Shards |-> IF handles[e] = 1 /\ e \in Abstract!Members(p) THEN Append(IdleLists[p], e) ELSE IdleLists[p]]
  <2>1. IdleOf(d) = [p \in Shards |-> IdleOf(d)[p]]
    BY DEF IdleOf
  <2> QED
    BY <1>7, <1>9, <2>1
<1>11. CachedMap' = CachedMap /\ CostMap' = CostMap
  BY <1>1, KeptMaps, MappingIs, MappingNext DEF c, d
<1>12. Alive' = IF handles[e] = 1 /\ e \notin Abstract!CachedEntries THEN Alive \ {e} ELSE Alive
  <2>1. c.refs[e] = handles[e] + (IF e \in P THEN 1 ELSE 0) /\ handles[e] \in Nat
    BY <1>3 DEF RefsOK, P
  <2>2. \A x \in Entries : d.refs[x] = IF x = e THEN c.refs[e] - 1 ELSE c.refs[x]
    BY <1>1, <1>5
  <2>3. d.refs[e] > 0 <=> ~ (handles[e] = 1 /\ e \notin P)
    BY <1>1, <2>1, <2>2
  <2>4. c.refs[e] > 0
    BY <1>1, <2>1
  <2>5. LifeOf(d) = IF handles[e] = 1 /\ e \notin P THEN LifeOf(c) \ {e} ELSE LifeOf(c)
    BY <2>2, <2>3, <2>4 DEF LifeOf
  <2> QED
    BY <1>4, <2>5, MappingIs, MappingNext DEF c, d
<1>13. PartOf' = PartOf
  BY <1>2 DEF PartOf
<1>14. handles' = [handles EXCEPT ![e] = handles[e] - 1]
  BY <1>1 DEF Less
<1> QED
  BY <1>1, <1>2, <1>10, <1>11, <1>12, <1>13, <1>14 DEF Abstract!Release

LEMMA PruneRefines ==
    ASSUME CacheInv, PruneNext
    PROVE  Abstract!Prune(walk.s)
<1> DEFINE c == shard_
           d == shard_'
           s == walk.s
           t == ListOf(c, lru_(s))
           G == IdleIn(c, handles, s)
<1>1. CacheInv' /\ ~ destroyed /\ s \in Shards /\ Pruned(c, d, handles, HashSlice, s)
  BY PruneStep
<1>2. UNCHANGED <<HashSlice, capacity_, handles, destroyed>>
  BY DEF PruneNext
<1>3. /\ ShardsOK(c, handles, HashSlice) /\ handles \in [Entries -> Nat] /\ RefsOK(c, handles)
      /\ UniqueIn(c, CachedOf(c))
  BY <1>1, InvGives
<1>4. RefsOK(d, handles)
  BY <1>1, <1>2 DEF CacheInv
<1> HIDE DEF c, d, s
<1>5. IdleList(c, handles, s, t)
  BY <1>1, <1>3, IdleListIs
<1>6. t \in Seq(Entries) /\ Len(t) \in Nat /\ ToSet(t) = G
  BY <1>5 DEF IdleList
<1>7. CachedOf(d) = CachedOf(c) \ G
  BY <1>1 DEF Pruned, IdleIn
<1>8. /\ ListOf(d, lru_(s)) = After(t, Len(t))
      /\ \A r \in Shards : r # s => ListOf(d, lru_(r)) = ListOf(c, lru_(r))
      /\ \A x \in CachedOf(d) : d.key[x] = c.key[x] /\ d.hash[x] = c.hash[x] /\ d.charge[x] = c.charge[x]
  BY <1>1 DEF Pruned, Evicted
<1> HIDE DEF t, G
<1>9. ListOf(d, lru_(s)) = <<>>
  BY <1>6, <1>8 DEF After
<1>10. Left(c, d, handles, G)
  <2>1. LeavesOut(c, d, G)
    BY <1>7, <1>8 DEF LeavesOut
  <2> QED
    BY <1>3, <1>4, <2>1, LeftIs
<1>11. IdleLists = IdleOf(c) /\ IdleLists' = IdleOf(d)
  BY <1>1, <1>2, MappingIs, MappingNext DEF c, d
<1>12. IdleLists' = [IdleLists EXCEPT ![s] = <<>>]
  <2>1. \A r \in Shards : IdleOf(d)[r] = IF r = s THEN <<>> ELSE IdleOf(c)[r]
    BY <1>8, <1>9 DEF IdleOf
  <2>2. IdleOf(d) = [r \in Shards |-> IdleOf(d)[r]] /\ IdleOf(c) = [r \in Shards |-> IdleOf(c)[r]]
    BY DEF IdleOf
  <2> QED
    BY <1>11, <2>1, <2>2
<1>13. Abstract!ToSet(IdleLists[s]) = G
  <2>1. IdleLists[s] = t
    BY <1>1, <1>11 DEF IdleOf, t
  <2> QED
    BY <1>6, <2>1 DEF Abstract!ToSet, ToSet
<1>14. Abstract!Leave(Abstract!ToSet(IdleLists[s]))
  BY <1>10, <1>13, LeaveRefines DEF c, d
<1>15. PartOf' = PartOf
  BY <1>2 DEF PartOf
<1> QED
  BY <1>1, <1>2, <1>12, <1>14, <1>15 DEF Abstract!Prune, s

\* in_use_ of every shard is empty: no client holds a cached entry.
LEMMA NoneInUse ==
    ASSUME NEW c, NEW held \in [Entries -> Nat], NEW hs, ShardsOK(c, held, hs),
           \A s \in Shards : c.next[in_use_(s)] = in_use_(s), NEW e \in CachedOf(c)
    PROVE  held[e] = 0
<1> SUFFICES ASSUME held[e] # 0 PROVE FALSE
  OBVIOUS
<1> DEFINE s == Shard(c.hash[e])
           h == in_use_(s)
           t == ListOf(c, h)
           P == CachedOf(c)
           place == PlaceOf(c, held)
<1>1. Hashed(c, hs) /\ Lists(c, P, place) /\ e \in Entries
  BY DEF ShardsOK, Sound, CachedOf
<1>2. s \in Shards
  BY <1>1, ShardIs DEF Hashed
<1>3. h \in Heads /\ h \notin Entries /\ c.next[h] = h
  BY <1>2, HeadFacts
<1>4. place[e] = h
  BY <1>1 DEF PlaceOf
<1>5. Listed(c, h, {x \in P : place[x] = h})
  BY <1>1, <1>3 DEF Lists
<1> HIDE DEF s, h, place
<1>6. t \in Seq(Entries) /\ ToSet(t) = {x \in P : place[x] = h} /\ Ring(c.next, c.prev, h, t)
  BY <1>5 DEF Listed
<1> HIDE DEF t, P
<1>7. e \in ToSet(t)
  BY <1>4, <1>6 DEF P
<1>8. Len(t) \in Nat /\ Len(t) # 0
  BY <1>6, <1>7, ToSetIs
<1>9. At(h, t, 0) = h /\ At(h, t, 1) = t[1] /\ t[1] \in Entries /\ 0 \in 0 .. Len(t)
  BY <1>6, <1>8 DEF At
<1>10. c.next[h] = t[1]
  BY <1>6, <1>9 DEF Ring
<1> QED
  BY <1>3, <1>9, <1>10

LEMMA DestroyRefines ==
    ASSUME CacheInv, Destroy
    PROVE  Abstract!Destroy
<1> DEFINE c == shard_
           d == shard_'
           G == CachedOf(c)
<1>1. CacheInv' /\ ~ destroyed /\ Dropped(c, d, IdleBelow(c, handles, kNumShards))
  BY DestroyStep
<1>2. /\ UNCHANGED <<HashSlice, capacity_, handles>> /\ destroyed' = TRUE
      /\ \A s \in Shards : c.next[in_use_(s)] = in_use_(s)
  BY DEF Destroy
<1>3. /\ ShardsOK(c, handles, HashSlice) /\ handles \in [Entries -> Nat] /\ RefsOK(c, handles)
      /\ UniqueIn(c, CachedOf(c)) /\ Hashed(c, HashSlice)
  BY <1>1, InvGives
<1>4. RefsOK(d, handles)
  BY <1>1, <1>2 DEF CacheInv
<1>5. Abstract!CachedEntries = G
  BY <1>1, MembersAre
<1> HIDE DEF c, d
<1>6. \A e \in G : handles[e] = 0
  BY <1>2, <1>3, NoneInUse
<1>7. IdleBelow(c, handles, kNumShards) = G
  <2>1. \A e \in G : Shard(c.hash[e]) \in Shards
    BY <1>3, ShardIs DEF Hashed, CachedOf
  <2>2. \A e \in G : Shard(c.hash[e]) < kNumShards
    BY <2>1, CacheAssumption DEF Shards
  <2> QED
    BY <1>6, <2>2 DEF IdleBelow
<1>8. CachedOf(d) = G \ G
  BY <1>1, <1>7 DEF Dropped
<1>9. Left(c, d, handles, G)
  <2>1. LeavesOut(c, d, G)
    BY <1>8 DEF LeavesOut
  <2> QED
    BY <1>3, <1>4, <2>1, LeftIs
<1>10. Abstract!Leave(Abstract!CachedEntries)
  BY <1>5, <1>9, LeaveRefines DEF c, d
<1>11. IdleLists' = [s \in Shards |-> <<>>]
  BY <1>2, MappingNext
<1>12. PartOf' = PartOf
  BY <1>2 DEF PartOf
<1> QED
  BY <1>1, <1>2, <1>5, <1>6, <1>10, <1>11, <1>12 DEF Abstract!Destroy

\* AddToCache as the abstract cache sees it: e takes the place of old, and of the idle
\* entries of its shard all but old are left.
Replaced(c, b, hs, e, k, n, s, old) ==
    /\ IsFor(c, k, old) /\ e \in Entries /\ e \notin CachedOf(c)
    /\ CachedOf(b) = (CachedOf(c) \ {old}) \cup {e}
    /\ \A x \in CachedOf(b) : x # e => b.key[x] = c.key[x] /\ b.hash[x] = c.hash[x] /\ b.charge[x] = c.charge[x]
    /\ b.key[e] = k /\ b.hash[e] = hs[k] /\ b.charge[e] = n
    /\ ListOf(b, lru_(s)) = Abstract!RemoveFirst(ListOf(c, lru_(s)), old)
    /\ \A r \in Shards : r # s => ListOf(b, lru_(r)) = ListOf(c, lru_(r))

LEMMA ReplacedIs ==
    ASSUME NEW c, NEW a, NEW b, NEW held \in [Entries -> Nat], NEW hs \in [Keys -> 0 .. HashRange - 1],
           NEW e \in Entries, NEW k \in Keys, NEW n,
           NowMade(c, a, held, hs, e, k, n), Added(a, b, One(held, e), e, k),
           NEW s, s = Shard(hs[k])
    PROVE  \E old \in Entries \cup {Nil} : Replaced(c, b, hs, e, k, n, s, old)
<1> DEFINE held2 == One(held, e)
<1>1. /\ ShardsOK(a, held2, hs) /\ CachedOf(a) = CachedOf(c) /\ e \notin CachedOf(c) /\ IdleSame(c, a)
      /\ \A x \in CachedOf(c) : a.key[x] = c.key[x] /\ a.hash[x] = c.hash[x] /\ a.charge[x] = c.charge[x]
      /\ a.key[e] = k /\ a.hash[e] = hs[k] /\ a.charge[e] = n
  BY DEF NowMade
<1>2. PICK old :
        /\ CachedOf(b) = (CachedOf(a) \ {old}) \cup {e}
        /\ \A x \in CachedOf(b) : b.key[x] = a.key[x] /\ b.hash[x] = a.hash[x] /\ b.charge[x] = a.charge[x]
        /\ old = Nil => IdleSame(a, b) /\ \A f \in CachedOf(a) : a.key[f] # k
        /\ old # Nil => /\ old \in CachedOf(a) /\ a.key[old] = k
                        /\ held2[old] # 0 => IdleSame(a, b)
                        /\ held2[old] = 0 => IdleLeft(a, b, Shard(a.hash[old]), old)
  BY DEF Added
<1>3. held2 \in [Entries -> Nat]
  BY DEF One
<1>4. s \in Shards
  BY ShardIs
<1>5. CachedOf(a) \subseteq Entries /\ Nil \notin Entries
  BY TableAssumption DEF CachedOf
<1>6. Hashed(a, hs)
  BY <1>1 DEF ShardsOK, Sound
<1> HIDE DEF held2
<1>7. old \in Entries \cup {Nil} /\ IsFor(c, k, old)
  BY <1>1, <1>2, <1>5 DEF IsFor
<1>8. IdleWithout(a, b, s, old)
  <2>1. CASE old = Nil
    <3>1. old \notin IdleIn(a, held2, s)
      BY <1>5, <2>1 DEF IdleIn, InShard
    <3> QED
      BY <1>1, <1>2, <1>3, <1>4, <2>1, <3>1, IdleWithoutIs
  <2>2. CASE old # Nil /\ held2[old] # 0
    <3>1. old \notin IdleIn(a, held2, s)
      BY <2>2 DEF IdleIn
    <3> QED
      BY <1>1, <1>2, <1>3, <1>4, <2>2, <3>1, IdleWithoutIs
  <2>3. CASE old # Nil /\ held2[old] = 0
    <3>1. Shard(a.hash[old]) = s
      BY <1>2, <1>5, <1>6, <2>3 DEF Hashed
    <3> QED
      BY <1>1, <1>2, <1>3, <1>4, <2>3, <3>1, IdleWithoutIs
  <2> QED
    BY <2>1, <2>2, <2>3
<1>9. /\ ListOf(b, lru_(s)) = Abstract!RemoveFirst(ListOf(c, lru_(s)), old)
      /\ \A r \in Shards : r # s => ListOf(b, lru_(r)) = ListOf(c, lru_(r))
  <2> DEFINE u == Abstract!RemoveFirst(ListOf(a, lru_(s)), old)
  <2>1. \A r \in Shards : ListOf(a, lru_(r)) = ListOf(c, lru_(r))
    BY <1>1 DEF IdleSame
  <2>2. \A r \in Shards : IdleOf(b)[r] = ListOf(b, lru_(r)) /\ IdleOf(a)[r] = ListOf(a, lru_(r))
    BY DEF IdleOf
  <2>3. IdleOf(b) = [IdleOf(a) EXCEPT ![s] = u] /\ DOMAIN IdleOf(a) = Shards
    BY <1>8 DEF IdleWithout, IdleOf
  <2> HIDE DEF u
  <2>4. \A r \in Shards : IdleOf(b)[r] = IF r = s THEN u ELSE IdleOf(a)[r]
    BY <2>3
  <2> QED
    BY <1>4, <2>1, <2>2, <2>4 DEF u
<1>10. \A x \in CachedOf(b) : x # e => b.key[x] = c.key[x] /\ b.hash[x] = c.hash[x] /\ b.charge[x] = c.charge[x]
  BY <1>1, <1>2
<1>11. b.key[e] = k /\ b.hash[e] = hs[k] /\ b.charge[e] = n
  BY <1>1, <1>2
<1>12. Replaced(c, b, hs, e, k, n, s, old)
  BY <1>1, <1>2, <1>7, <1>9, <1>10, <1>11 DEF Replaced
<1> QED
  BY <1>7, <1>12

\* e is cached under k with the charge n, and the entries G are not cached any more.
TakesPlace(c, d, e, k, n, G) ==
    /\ e \in Entries /\ e \notin CachedOf(c) /\ CachedOf(d) = (CachedOf(c) \ G) \cup {e} /\ For(c, k) \in G
    /\ \A x \in CachedOf(d) : x # e => d.key[x] = c.key[x] /\ d.charge[x] = c.charge[x]
    /\ d.key[e] = k /\ d.charge[e] = n

\* What Insert of the abstract cache says of it.
Entered(c, d, held, e, k, n, G) ==
    /\ MapOf(d) = [j \in Keys |-> IF j = k THEN e ELSE IF MapOf(c)[j] \in G THEN Nil ELSE MapOf(c)[j]]
    /\ CostOf(d) = [f \in Entries |-> IF f = e THEN n ELSE IF f \in G THEN 0 ELSE CostOf(c)[f]]
    /\ LifeOf(d) = {f \in LifeOf(c) : f \in G => held[f] > 0} \cup {e}

LEMMA EnteredIs ==
    ASSUME NEW c, NEW d, NEW held \in [Entries -> Nat], NEW e, NEW k \in Keys, NEW n, NEW G,
           TakesPlace(c, d, e, k, n, G), UniqueIn(c, CachedOf(c)), UniqueIn(d, CachedOf(d)),
           RefsOK(c, held), RefsOK(d, One(held, e))
    PROVE  Entered(c, d, held, e, k, n, G)
<1>0. /\ e \in Entries /\ e \notin CachedOf(c) /\ CachedOf(d) = (CachedOf(c) \ G) \cup {e} /\ For(c, k) \in G
      /\ \A x \in CachedOf(d) : x # e => d.key[x] = c.key[x] /\ d.charge[x] = c.charge[x]
      /\ d.key[e] = k /\ d.charge[e] = n /\ CachedOf(c) \subseteq Entries /\ Nil \notin Entries
  BY TableAssumption DEF TakesPlace, CachedOf
<1>1. ASSUME NEW j \in Keys PROVE For(d, j) = IF j = k THEN e ELSE IF For(c, j) \in G THEN Nil ELSE For(c, j)
  <2> DEFINE f == For(c, j)
             g == IF j = k THEN e ELSE IF f \in G THEN Nil ELSE f
  <2>1. IsFor(c, j, f)
    BY ForFound
  <2> HIDE DEF f
  <2>2. IsFor(d, j, g)
    <3>1. CASE j = k
      BY <1>0, <3>1 DEF IsFor
    <3>2. CASE j # k /\ (f \in G \/ f = Nil)
      <4>1. ASSUME NEW x \in CachedOf(d) PROVE d.key[x] # j
        <5>1. CASE x = e
          BY <1>0, <3>2, <5>1
        <5>2. CASE x # e
          <6>1. x \in CachedOf(c) /\ x \notin G /\ d.key[x] = c.key[x]
            BY <1>0, <5>2
          <6> QED
            BY <2>1, <3>2, <6>1 DEF IsFor, UniqueIn
        <5> QED
          BY <5>1, <5>2
      <4>2. g = Nil
        BY <3>2
      <4> QED
        BY <4>1, <4>2 DEF IsFor
    <3>3. CASE j # k /\ f \notin G /\ f # Nil
      <4>1. f \in CachedOf(c) /\ c.key[f] = j
        BY <2>1, <3>3 DEF IsFor
      <4>2. f \in CachedOf(d) /\ f # e
        BY <1>0, <3>3, <4>1
      <4>3. d.key[f] = j /\ g = f
        BY <1>0, <3>3, <4>1, <4>2
      <4> QED
        BY <3>3, <4>2, <4>3 DEF IsFor
    <3> QED
      BY <3>1, <3>2, <3>3
  <2> HIDE DEF g
  <2>3. For(d, j) = g
    BY <2>2, ForIs
  <2> QED
    BY <2>3 DEF f, g
<1>2. MapOf(d) = [j \in Keys |-> IF j = k THEN e ELSE IF MapOf(c)[j] \in G THEN Nil ELSE MapOf(c)[j]]
  <2>1. \A j \in Keys : MapOf(c)[j] = For(c, j)
    BY DEF MapOf
  <2> QED
    BY <1>1, <2>1 DEF MapOf
<1>3. CostOf(d) = [f \in Entries |-> IF f = e THEN n ELSE IF f \in G THEN 0 ELSE CostOf(c)[f]]
  <2>1. ASSUME NEW f \in Entries
        PROVE  (IF f \in CachedOf(d) THEN d.charge[f] ELSE 0)
                = IF f = e THEN n ELSE IF f \in G THEN 0 ELSE IF f \in CachedOf(c) THEN c.charge[f] ELSE 0
    BY <1>0
  <2> QED
    BY <2>1 DEF CostOf
<1>4. ASSUME NEW f \in Entries
      PROVE  d.refs[f] > 0 <=> f = e \/ (c.refs[f] > 0 /\ (f \in G => held[f] > 0))
  <2>1. c.refs[f] = held[f] + (IF f \in CachedOf(c) THEN 1 ELSE 0) /\ held[f] \in Nat
    BY DEF RefsOK
  <2>2. d.refs[f] = One(held, e)[f] + (IF f \in CachedOf(d) THEN 1 ELSE 0)
    BY DEF RefsOK
  <2>3. One(held, e)[f] = IF f = e THEN 1 ELSE held[f]
    BY DEF One
  <2>4. f \in CachedOf(d) <=> f = e \/ (f \in CachedOf(c) /\ f \notin G)
    BY <1>0
  <2> HIDE DEF One
  <2> QED
    BY <2>1, <2>2, <2>3, <2>4
<1>5. LifeOf(d) = {f \in LifeOf(c) : f \in G => held[f] > 0} \cup {e}
  BY <1>0, <1>4 DEF LifeOf
<1> QED
  BY <1>2, <1>3, <1>5 DEF Entered

LEMMA CostIs ==
    ASSUME NEW S \in SUBSET Entries, shard_ \in States
    PROVE  Abstract!Cost(S) = SumOf(CostOf(shard_), S)
<1> DEFINE f == CostOf(shard_)
<1>1. IsFiniteSet(S)
  BY FS_Subset, TableAssumption
<1>2. \A x \in S : f[x] \in Nat
  BY DEF States, CostOf
<1>3. CostMap = f
  BY MappingIs
<1> HIDE DEF f
<1>4. Abstract!Cost(S) = (CHOOSE w : IsSum(w, f, S))[S]
  BY <1>3 DEF Abstract!Cost, Abstract!MapThenSumSet, Abstract!MapThenFoldSet, IsSum
<1> QED
  BY <1>1, <1>2, <1>4, SumIs DEF f

\* The cost of entries of the cache and of a new one.
LEMMA SumWith ==
    ASSUME NEW c \in States, NEW F \in [Entries -> Nat], NEW W, W \subseteq CachedOf(c), NEW e \in Entries, e \notin W,
           \A x \in W : F[x] = c.charge[x]
    PROVE  SumOf(F, W \cup {e}) = F[e] + SumOf(CostOf(c), W)
<1> DEFINE C == CostOf(c)
<1>1. W \in SUBSET Entries /\ \A x \in W : F[x] \in Nat /\ C[x] = F[x]
  BY DEF CachedOf, CostOf
<1>2. IsFiniteSet(W)
  BY <1>1, FS_Subset, TableAssumption
<1> HIDE DEF C
<1>3. SumOf(F, W \cup {e}) = SumOf(F, W) + F[e] /\ SumOf(F, W) \in Nat
  BY <1>1, <1>2, SumAdd, SumType
<1>4. SumOf(F, W) = SumOf(C, W)
  BY <1>1, SumSame
<1>5. F[e] \in Nat
  OBVIOUS
<1> QED
  BY <1>3, <1>4, <1>5 DEF C

\* What a shard is left with after j evictions, without the new entry.
Rest(c, s, left, j, old) == InShard(c, CachedOf(c), s) \ (FirstOf(left, j) \cup {old})

\* What it costs with the new entry: usage_ at the loop's j-th test.
UsageIs(c, b, s, left, j, old, e, n) ==
    /\ InShard(b, CachedOf(b), s) \ FirstOf(left, j) = Rest(c, s, left, j, old) \cup {e}
    /\ SumOf(b.charge, InShard(b, CachedOf(b), s) \ FirstOf(left, j)) = n + SumOf(CostOf(c), Rest(c, s, left, j, old))

LEMMA UsageAt ==
    ASSUME NEW c \in States, NEW b, NEW held \in [Entries -> Nat], NEW hs, ShardsOK(b, held, hs),
           NEW e, NEW k, NEW n \in Nat, NEW s \in Shards, NEW old, Replaced(c, b, hs, e, k, n, s, old),
           s = Shard(hs[k]), held[e] # 0,
           NEW left, left = ListOf(b, lru_(s)), NEW j \in 0 .. Len(left)
    PROVE  UsageIs(c, b, s, left, j, old, e, n)
<1> DEFINE W == Rest(c, s, left, j, old)
           X == FirstOf(left, j)
<1>1. /\ e \in Entries /\ e \notin CachedOf(c) /\ CachedOf(b) = (CachedOf(c) \ {old}) \cup {e}
      /\ \A x \in CachedOf(b) : x # e => b.hash[x] = c.hash[x] /\ b.charge[x] = c.charge[x]
      /\ b.hash[e] = hs[k] /\ b.charge[e] = n
  BY DEF Replaced
<1>2. IdleList(b, held, s, left)
  BY IdleListIs
<1>3. left \in Seq(Entries) /\ ToSet(left) = IdleIn(b, held, s)
  BY <1>2 DEF IdleList
<1>4. e \notin X
  <2>1. e \notin ToSet(left)
    BY <1>3 DEF IdleIn
  <2> QED
    BY <1>3, <2>1, ToSetIs DEF FirstOf
<1>5. b.charge \in [Entries -> Nat]
  BY DEF ShardsOK, Sound, States
<1> HIDE DEF X
<1>6. InShard(b, CachedOf(b), s) \ X = W \cup {e}
  <2>1. \A x : x \in InShard(b, CachedOf(b), s) <=> x = e \/ (x \in CachedOf(c) /\ x # old /\ Shard(c.hash[x]) = s)
    BY <1>1 DEF InShard
  <2>2. \A x : x \in W <=> x \in CachedOf(c) /\ Shard(c.hash[x]) = s /\ x \notin X /\ x # old
    BY DEF Rest, InShard, X
  <2> HIDE DEF W
  <2> QED
    BY <1>4, <2>1, <2>2
<1>7. W \subseteq CachedOf(c) /\ e \notin W /\ \A x \in W : b.charge[x] = c.charge[x]
  <2>1. \A x \in W : x \in CachedOf(c) /\ x # old
    BY DEF Rest, InShard
  <2> HIDE DEF W
  <2> QED
    BY <1>1, <2>1
<1> HIDE DEF W
<1>8. SumOf(b.charge, W \cup {e}) = b.charge[e] + SumOf(CostOf(c), W)
  BY <1>1, <1>5, <1>7, SumWith
<1> QED
  BY <1>1, <1>6, <1>8 DEF W, X, UsageIs

\* The loop ends at the first test that finds usage_ within the capacity.
LEMMA EvictionsIs ==
    ASSUME CacheInv, ~ destroyed, NEW b, NEW d, NEW held \in [Entries -> Nat], NEW hs,
           ShardsOK(b, held, hs), ShardsOK(d, held, hs),
           NEW e, NEW k, NEW n \in Nat, NEW s \in Shards, NEW old, Replaced(shard_, b, hs, e, k, n, s, old),
           s = Shard(hs[k]), held[e] # 0, NEW m, Evicted(b, d, held, hs, s, capacity_, m), Enough(b, d, s, capacity_, m),
           NEW left, left = ListOf(b, lru_(s))
    PROVE  Abstract!Evictions(s, left, old, n) = m
<1> DEFINE c == shard_
           N == Len(left)
           Cost(j) == n + Abstract!Cost(Abstract!Members(s) \ (Abstract!Oldest(left, j) \cup {old}))
           K == {j \in 0 .. N : j = N \/ Cost(j) <= capacity_}
<1>1. c \in States /\ capacity_ \in Nat
  BY DEF CacheInv
<1>2. IdleList(b, held, s, left)
  BY IdleListIs
<1>3. left \in Seq(Entries) /\ N \in Nat
  BY <1>2 DEF IdleList
<1>4. m \in 0 .. N
  BY DEF Evicted
<1>5. ASSUME NEW j \in 0 .. N
      PROVE  /\ Cost(j) = SumOf(b.charge, InShard(b, CachedOf(b), s) \ FirstOf(left, j))
             /\ Cost(j) \in Nat
  <2> DEFINE R == Rest(c, s, left, j, old)
  <2>1. Abstract!Members(s) = InShard(c, CachedOf(c), s)
    BY MembersAre
  <2>2. Abstract!Oldest(left, j) = FirstOf(left, j)
    BY <1>3, <1>5, OldestIs
  <2>3. Cost(j) = n + Abstract!Cost(R)
    BY <2>1, <2>2 DEF Rest
  <2>4. R \in SUBSET Entries
    BY DEF Rest, InShard, CachedOf
  <2> HIDE DEF R, Cost
  <2>5. Abstract!Cost(R) = SumOf(CostOf(c), R)
    BY <1>1, <2>4, CostIs
  <2>6. SumOf(CostOf(c), R) \in Nat
    <3>1. IsFiniteSet(R)
      BY <2>4, FS_Subset, TableAssumption
    <3>2. \A x \in R : CostOf(c)[x] \in Nat
      BY <1>1, <2>4 DEF CostOf, States
    <3> QED
      BY <3>1, <3>2, SumType
  <2>7. SumOf(b.charge, InShard(b, CachedOf(b), s) \ FirstOf(left, j)) = n + SumOf(CostOf(c), R)
    <3>1. Replaced(c, b, hs, e, k, n, s, old) /\ j \in 0 .. Len(left)
      BY <1>5
    <3> HIDE DEF c, N, K
    <3>2. UsageIs(c, b, s, left, j, old, e, n)
      BY <1>1, <3>1, UsageAt
    <3> QED
      BY <3>2 DEF R, UsageIs
  <2> QED
    BY <2>3, <2>5, <2>6, <2>7
<1>6. \A j \in 0 .. m - 1 : SumOf(b.charge, InShard(b, CachedOf(b), s) \ FirstOf(left, j)) > capacity_
  BY DEF Evicted
<1>7. d.usage_[s] = SumOf(b.charge, InShard(b, CachedOf(b), s) \ FirstOf(left, m))
  <2>1. d.usage_[s] = SumOf(d.charge, InShard(d, CachedOf(d), s))
    BY DEF ShardsOK, Sound, UsageOK
  <2>2. /\ CachedOf(d) = CachedOf(b) \ FirstOf(left, m)
        /\ \A x \in CachedOf(d) : d.hash[x] = b.hash[x] /\ d.charge[x] = b.charge[x]
    BY DEF Evicted
  <2>3. InShard(d, CachedOf(d), s) = InShard(b, CachedOf(b), s) \ FirstOf(left, m)
    BY <2>2 DEF InShard
  <2>4. \A x \in InShard(d, CachedOf(d), s) : d.charge[x] = b.charge[x]
    BY <2>2 DEF InShard
  <2>5. SumOf(d.charge, InShard(d, CachedOf(d), s)) = SumOf(b.charge, InShard(d, CachedOf(d), s))
    BY <2>4, SumSame
  <2> QED
    BY <2>1, <2>3, <2>5
<1>8. m = N \/ ~ (d.usage_[s] > capacity_)
  BY DEF Enough
<1>9. Abstract!Evictions(s, left, old, n) = Abstract!Min(K)
  BY DEF Abstract!Evictions
<1> HIDE DEF Cost
<1>10. m \in K
  <2>1. Cost(m) = d.usage_[s] /\ Cost(m) \in Nat
    BY <1>4, <1>5, <1>7
  <2> QED
    BY <1>1, <1>4, <1>8, <2>1
<1>11. ASSUME NEW j \in K PROVE m <= j
  <2> SUFFICES ASSUME ~ (m <= j) PROVE FALSE
    OBVIOUS
  <2>1. j \in 0 .. m - 1 /\ j \in 0 .. N /\ j # N
    BY <1>3, <1>4
  <2>2. Cost(j) > capacity_ /\ Cost(j) \in Nat
    BY <1>5, <1>6, <2>1
  <2> QED
    BY <1>1, <1>11, <2>1, <2>2
<1>12. K \subseteq Int
  BY <1>3
<1> HIDE DEF K
<1>13. Abstract!Min(K) = m
  <2>1. \A x \in K : (\A y \in K : x <= y) => x = m
    <3>1. ASSUME NEW x \in K, \A y \in K : x <= y PROVE x = m
      <4>1. x <= m /\ m <= x /\ x \in Int /\ m \in Int
        BY <1>10, <1>11, <1>12, <3>1
      <4> QED
        BY <4>1
    <3> QED
      BY <3>1
  <2> QED
    BY <1>10, <1>11, <2>1 DEF Abstract!Min
<1> QED
  BY <1>9, <1>13

\* With capacity 0 nothing is ever cached.
OffIsEmpty == capacity_ = 0 => CachedOf(shard_) = {}

\* Insert with capacity 0: the entry is the caller's alone.
LEMMA InsertOffRefines ==
    ASSUME CacheInv, OffIsEmpty, NEW k \in Keys, NEW e \in Entries, NEW n \in Charges, Insert(k, e, n), ~ (capacity_ > 0)
    PROVE  Abstract!Insert(k, e, n) /\ OffIsEmpty'
<1> DEFINE c == shard_
           d == shard_'
           s == Shard(HashSlice[k])
           held == One(handles, e)
<1>1. /\ CacheInv' /\ ~ destroyed /\ handles' = held
      /\ Inserted(c, d, handles, HashSlice, e, k, n, s, capacity_)
  BY InsertStep
<1>2. UNCHANGED <<HashSlice, capacity_, destroyed>> /\ c.refs[e] = 0
  BY DEF Insert
<1>3. handles \in [Entries -> Nat] /\ RefsOK(c, handles) /\ HashSlice \in [Keys -> 0 .. HashRange - 1] /\ capacity_ \in Nat
  BY <1>1, InvGives DEF CacheInv
<1>4. RefsOK(d, held) /\ held = [handles EXCEPT ![e] = 1]
  BY <1>1, <1>2 DEF CacheInv, One
<1>5. CachedOf(c) = {}
  BY <1>3 DEF OffIsEmpty
<1>6. s \in Shards
  BY <1>3, ShardIs
<1>7. held \in [Entries -> Nat] /\ \A f \in Entries : held[f] = IF f = e THEN 1 ELSE handles[f]
  BY <1>3, <1>4
<1> HIDE DEF c, d, s, held
<1>8. PICK a, b, m : NowMade(c, a, handles, HashSlice, e, k, n) /\ b = a /\ Evicted(b, d, held, HashSlice, s, capacity_, m)
                     /\ ShardsOK(b, held, HashSlice)
  BY <1>1 DEF Inserted, held
<1>9. CachedOf(b) = {} /\ IdleSame(c, b)
  BY <1>5, <1>8 DEF NowMade
<1> DEFINE t == ListOf(b, lru_(s))
<1>10. t \in Seq(Entries) /\ Inj(t) /\ Len(t) = 0
  <2>1. IdleList(b, held, s, t)
    BY <1>6, <1>7, <1>8, IdleListIs
  <2>2. t \in Seq(Entries) /\ Inj(t) /\ ToSet(t) = {}
    BY <1>9, <2>1 DEF IdleList, IdleIn, InShard
  <2> HIDE DEF t
  <2> QED
    BY <2>2, NoElements
<1>11. /\ m \in 0 .. Len(t) /\ ListOf(d, lru_(s)) = After(t, m) /\ CachedOf(d) \subseteq CachedOf(b)
       /\ \A r \in Shards : r # s => ListOf(d, lru_(r)) = ListOf(b, lru_(r))
  BY <1>8 DEF Evicted
<1>12. IdleSame(c, d)
  <2>1. m = 0 /\ After(t, m) = t
    <3>1. m \in 0 .. Len(t) /\ m = 0
      BY <1>10, <1>11
    <3> HIDE DEF t
    <3> QED
      BY <1>10, <3>1, AfterFacts
  <2>2. \A r \in Shards : ListOf(d, lru_(r)) = ListOf(b, lru_(r))
    BY <1>11, <2>1
  <2> QED
    BY <1>9, <2>2 DEF IdleSame
<1>13. CachedOf(d) = {}
  BY <1>9, <1>11
<1>14. MapOf(d) = MapOf(c) /\ CostOf(d) = CostOf(c)
  BY <1>5, <1>13 DEF MapOf, For, CostOf
<1>15. LifeOf(d) = LifeOf(c) \cup {e}
  <2>1. \A f \in Entries : c.refs[f] = handles[f] /\ handles[f] \in Nat
    BY <1>3, <1>5 DEF RefsOK
  <2>2. \A f \in Entries : d.refs[f] = IF f = e THEN 1 ELSE handles[f]
    BY <1>4, <1>7, <1>13 DEF RefsOK
  <2> QED
    BY <2>1, <2>2 DEF LifeOf
<1>16. IdleOf(d) = IdleOf(c)
  BY <1>12 DEF IdleOf, IdleSame
<1>17. e \notin Alive
  BY <1>2, MappingIs DEF LifeOf, c
<1>18. /\ CachedMap' = CachedMap /\ CostMap' = CostMap /\ IdleLists' = IdleLists /\ Alive' = Alive \cup {e}
       /\ PartOf' = PartOf
  BY <1>1, <1>2, <1>14, <1>15, <1>16, MappingIs, MappingNext DEF PartOf, c, d
<1>19. OffIsEmpty'
  BY <1>13 DEF OffIsEmpty, d
<1>20. handles' = [handles EXCEPT ![e] = 1]
  BY <1>1, <1>4
<1> QED
  BY <1>1, <1>2, <1>17, <1>18, <1>19, <1>20 DEF Abstract!Insert

LEMMA InsertOnRefines ==
    ASSUME CacheInv, NEW k \in Keys, NEW e \in Entries, NEW n \in Charges, Insert(k, e, n), capacity_ > 0
    PROVE  Abstract!Insert(k, e, n)
<1> DEFINE c == shard_
           d == shard_'
           s == Shard(HashSlice[k])
           held == One(handles, e)
<1>1. /\ CacheInv' /\ ~ destroyed /\ handles' = held
      /\ Inserted(c, d, handles, HashSlice, e, k, n, s, capacity_)
  BY InsertStep
<1>2. UNCHANGED <<HashSlice, capacity_, destroyed>> /\ c.refs[e] = 0 /\ n \in Nat
  BY CacheAssumption DEF Insert
<1>3. /\ handles \in [Entries -> Nat] /\ RefsOK(c, handles) /\ HashSlice \in [Keys -> 0 .. HashRange - 1]
      /\ UniqueIn(c, CachedOf(c)) /\ c \in States
  BY <1>1, InvGives
<1>4. RefsOK(d, held) /\ ShardsOK(d, held, HashSlice) /\ held = [handles EXCEPT ![e] = 1]
  BY <1>1, <1>2 DEF CacheInv, One
<1>5. s \in Shards /\ PartOf[k] = s
  BY <1>3, PartIs
<1>6. held \in [Entries -> Nat] /\ held[e] # 0
  BY <1>3, <1>4
<1>7. UniqueIn(d, CachedOf(d))
  BY <1>4 DEF ShardsOK
<1>8. s = Shard(HashSlice[k])
  OBVIOUS
<1> HIDE DEF c, d, s, held
<1>9. PICK a, b, m :
        /\ NowMade(c, a, handles, HashSlice, e, k, n) /\ Added(a, b, held, e, k)
        /\ ShardsOK(b, held, HashSlice)
        /\ Evicted(b, d, held, HashSlice, s, capacity_, m) /\ Enough(b, d, s, capacity_, m)
  BY <1>1 DEF Inserted, held
<1>10. PICK old \in Entries \cup {Nil} : Replaced(c, b, HashSlice, e, k, n, s, old)
  BY <1>3, <1>8, <1>9, ReplacedIs DEF held
<1> DEFINE left == ListOf(b, lru_(s))
           G == FirstOf(left, m) \cup {old}
<1>11. left = ListOf(b, lru_(s))
  OBVIOUS
<1>12. IdleList(b, held, s, left)
  BY <1>5, <1>6, <1>9, IdleListIs
<1> HIDE DEF left
<1>13. left \in Seq(Entries) /\ Inj(left) /\ ToSet(left) = IdleIn(b, held, s)
  BY <1>12 DEF IdleList
<1>14. Abstract!Evictions(s, left, old, n) = m
  <2>1. Replaced(shard_, b, HashSlice, e, k, n, s, old)
    BY <1>10 DEF c
  <2>2. n \in Nat /\ ~ destroyed /\ held \in [Entries -> Nat] /\ held[e] # 0 /\ s \in Shards
    BY <1>1, <1>2, <1>5, <1>6
  <2>3. ShardsOK(b, held, HashSlice) /\ Evicted(b, d, held, HashSlice, s, capacity_, m) /\ Enough(b, d, s, capacity_, m)
    BY <1>9
  <2>4. ShardsOK(d, held, HashSlice)
    BY <1>4
  <2> QED
    BY <1>8, <1>11, <2>1, <2>2, <2>3, <2>4, EvictionsIs
<1>15. /\ m \in 0 .. Len(left) /\ ListOf(d, lru_(s)) = After(left, m) /\ CachedOf(d) = CachedOf(b) \ FirstOf(left, m)
       /\ \A r \in Shards : r # s => ListOf(d, lru_(r)) = ListOf(b, lru_(r))
       /\ \A x \in CachedOf(d) : d.key[x] = b.key[x] /\ d.charge[x] = b.charge[x]
  BY <1>9, <1>11 DEF Evicted
<1>16. /\ IsFor(c, k, old) /\ e \notin CachedOf(c) /\ CachedOf(b) = (CachedOf(c) \ {old}) \cup {e}
       /\ \A x \in CachedOf(b) : x # e => b.key[x] = c.key[x] /\ b.charge[x] = c.charge[x]
       /\ b.key[e] = k /\ b.charge[e] = n
       /\ left = Abstract!RemoveFirst(ListOf(c, lru_(s)), old)
       /\ \A r \in Shards : r # s => ListOf(b, lru_(r)) = ListOf(c, lru_(r))
  BY <1>10, <1>11 DEF Replaced
<1>17. For(c, k) = old
  BY <1>3, <1>16, ForIs
<1>18. Abstract!Oldest(left, m) = FirstOf(left, m) /\ SubSeq(left, m + 1, Len(left)) = After(left, m)
  BY <1>13, <1>15, OldestIs
<1>19. e \notin FirstOf(left, m)
  <2>1. e \notin ToSet(left)
    BY <1>6, <1>13 DEF IdleIn
  <2> QED
    BY <1>13, <1>15, <2>1, ToSetIs DEF FirstOf
<1>20. TakesPlace(c, d, e, k, n, G)
  <2>1. e \in CachedOf(d) /\ CachedOf(d) = (CachedOf(c) \ G) \cup {e}
    BY <1>15, <1>16, <1>19
  <2>2. \A x \in CachedOf(d) : x # e => d.key[x] = c.key[x] /\ d.charge[x] = c.charge[x]
    BY <1>15, <1>16
  <2>3. d.key[e] = k /\ d.charge[e] = n
    BY <1>15, <1>16, <2>1
  <2> QED
    BY <1>16, <1>17, <2>1, <2>2, <2>3 DEF TakesPlace
<1> HIDE DEF G
<1>21. Entered(c, d, handles, e, k, n, G)
  BY <1>3, <1>4, <1>7, <1>20, EnteredIs DEF held
<1>22. IdleOf(d) = [IdleOf(c) EXCEPT ![s] = After(left, m)]
  <2>1. \A r \in Shards : IdleOf(d)[r] = IF r = s THEN After(left, m) ELSE IdleOf(c)[r]
    BY <1>15, <1>16 DEF IdleOf
  <2>2. IdleOf(d) = [r \in Shards |-> IdleOf(d)[r]] /\ IdleOf(c) = [r \in Shards |-> IdleOf(c)[r]]
    BY DEF IdleOf
  <2> QED
    BY <2>1, <2>2
<1>23. /\ CachedMap[k] = old /\ IdleLists = IdleOf(c) /\ IdleLists' = IdleOf(d)
       /\ CachedMap = MapOf(c) /\ CachedMap' = MapOf(d) /\ CostMap = CostOf(c) /\ CostMap' = CostOf(d)
       /\ Alive = LifeOf(c) /\ Alive' = LifeOf(d)
  BY <1>1, <1>2, <1>17, MappingIs, MappingNext DEF MapOf, c, d
<1>24. Abstract!RemoveFirst(IdleLists[PartOf[k]], CachedMap[k]) = left
  <2>1. IdleLists[s] = ListOf(c, lru_(s))
    BY <1>5, <1>23 DEF IdleOf
  <2> QED
    BY <1>5, <1>16, <1>23, <2>1
<1>25. /\ CachedMap' = [j \in Keys |-> IF j = k THEN e ELSE IF CachedMap[j] \in G THEN Nil ELSE CachedMap[j]]
       /\ CostMap' = [f \in Entries |-> IF f = e THEN n ELSE IF f \in G THEN 0 ELSE CostMap[f]]
       /\ Alive' = {f \in Alive : f \in G => handles[f] > 0} \cup {e}
       /\ IdleLists' = [IdleLists EXCEPT ![PartOf[k]] = SubSeq(left, m + 1, Len(left))]
  BY <1>5, <1>18, <1>21, <1>22, <1>23 DEF Entered
<1>26. e \notin Alive
  BY <1>2, <1>23 DEF LifeOf
<1>27. PartOf' = PartOf /\ handles' = [handles EXCEPT ![e] = 1]
  BY <1>1, <1>2, <1>4 DEF PartOf
<1>28. G = Abstract!Oldest(left, m) \cup {CachedMap[k]}
  BY <1>18, <1>23 DEF G
<1>29. m = Abstract!Evictions(PartOf[k], left, CachedMap[k], n)
  BY <1>5, <1>14, <1>23
<1> QED
  BY <1>1, <1>2, <1>24, <1>25, <1>26, <1>27, <1>28, <1>29 DEF Abstract!Insert

LEMMA OffInit == Init => OffIsEmpty
BY DEF Init, OffIsEmpty, EmptyShards, CachedOf

LEMMA OffShrinks ==
    ASSUME OffIsEmpty, Shrinks(shard_, shard_'), UNCHANGED capacity_
    PROVE  OffIsEmpty'
BY DEF OffIsEmpty, Shrinks

LEMMA OffStep == CacheInv /\ OffIsEmpty /\ [Next]_vars => OffIsEmpty'
<1> SUFFICES ASSUME CacheInv, OffIsEmpty, [Next]_vars PROVE OffIsEmpty'
  OBVIOUS
<1>1. ASSUME NEW k \in Keys, NEW e \in Entries, NEW n \in Charges, Insert(k, e, n) PROVE OffIsEmpty'
  <2>1. CASE capacity_ > 0
    <3>1. capacity_' # 0
      BY <1>1, <2>1 DEF Insert, CacheInv
    <3> QED
      BY <3>1 DEF OffIsEmpty
  <2>2. CASE ~ (capacity_ > 0)
    BY <1>1, <2>2, InsertOffRefines
  <2> QED
    BY <2>1, <2>2
<1>2. ASSUME NEW k \in Keys, Lookup(k) PROVE OffIsEmpty'
  <2>1. PICK e \in Entries : Found(e, k)
    BY <1>2, LookupStep
  <2>2. Shrinks(shard_, shard_') /\ UNCHANGED capacity_
    BY <1>2, <2>1, KeptShrinks DEF Found, Lookup
  <2> QED
    BY <2>2, OffShrinks
<1>3. ASSUME NEW e \in Entries, Release(e) PROVE OffIsEmpty'
  <2>1. Kept(shard_, shard_') /\ UNCHANGED capacity_
    BY <1>3, ReleaseStep DEF Release
  <2> QED
    BY <2>1, KeptShrinks, OffShrinks
<1>4. ASSUME NEW k \in Keys, Erase(k) PROVE OffIsEmpty'
  <2>1. KeyErased(shard_, shard_', handles, k, TableLookup(shard_, Shard(HashSlice[k]), k, HashSlice[k]))
    BY <1>4, EraseStep
  <2>2. Shrinks(shard_, shard_') /\ UNCHANGED capacity_
    BY <1>4, <2>1, KeyErasedShrinks DEF Erase
  <2> QED
    BY <2>2, OffShrinks
<1>5. CASE PruneNext
  <2>1. Pruned(shard_, shard_', handles, HashSlice, walk.s)
    BY <1>5, PruneStep
  <2>2. Shrinks(shard_, shard_') /\ UNCHANGED capacity_
    BY <1>5, <2>1, EvictedShrinks DEF Pruned, PruneNext
  <2> QED
    BY <2>2, OffShrinks
<1>6. CASE Destroy
  <2>1. CachedOf(shard_') \subseteq CachedOf(shard_) /\ UNCHANGED capacity_
    BY <1>6, DestroyStep DEF Dropped, Destroy
  <2> QED
    BY <2>1 DEF OffIsEmpty
<1>7. CASE UNCHANGED <<shard_, capacity_>>
  BY <1>7 DEF OffIsEmpty
<1>8. CASE (\E method \in {"Prune", "TotalCharge"} : Call(method)) \/ TotalChargeNext \/ Return \/ Destroyed \/ UNCHANGED vars
  BY <1>7, <1>8 DEF Call, TotalChargeNext, Return, Destroyed, vars
<1> QED
  BY <1>1, <1>2, <1>3, <1>4, <1>5, <1>6, <1>8 DEF Next

LEMMA CacheInitRefines == Init => Abstract!Init
<1> SUFFICES ASSUME Init PROVE Abstract!Init
  OBVIOUS
<1>1. CacheInv /\ ~ destroyed /\ destroyed = FALSE /\ handles = [e \in Entries |-> 0]
  BY CacheInvInit DEF Init
<1>2. /\ ShardsOK(shard_, handles, HashSlice) /\ handles \in [Entries -> Nat]
      /\ HashSlice \in [Keys -> 0 .. HashRange - 1] /\ RefsOK(shard_, handles)
  BY <1>1, InvGives
<1>3. CachedOf(shard_) = {}
  BY DEF Init, EmptyShards, CachedOf
<1>4. PartOf \in [Keys -> Shards]
  BY <1>2, PartIs DEF PartOf
<1>5. MapOf(shard_) = [k \in Keys |-> Nil] /\ CostOf(shard_) = [e \in Entries |-> 0]
  BY <1>3 DEF MapOf, For, CostOf
<1>6. LifeOf(shard_) = {}
  <2>1. \A e \in Entries : shard_.refs[e] = 0
    BY <1>1, <1>2, <1>3 DEF RefsOK
  <2> QED
    BY <2>1 DEF LifeOf
<1>7. IdleOf(shard_) = [s \in Shards |-> <<>>]
  <2>1. ASSUME NEW s \in Shards PROVE ListOf(shard_, lru_(s)) = <<>>
    <3> DEFINE t == ListOf(shard_, lru_(s))
    <3>1. IdleList(shard_, handles, s, t)
      BY <1>2, IdleListIs
    <3>2. t \in Seq(Entries) /\ ToSet(t) = {}
      BY <1>3, <3>1 DEF IdleList, IdleIn, InShard
    <3> HIDE DEF t
    <3>4. t = <<>>
      BY <3>2, NoElements
    <3> QED
      BY <3>4 DEF t
  <2> QED
    BY <2>1 DEF IdleOf
<1>8. capacity_ \in Nat
  BY <1>1 DEF CacheInv
<1> QED
  BY <1>1, <1>4, <1>5, <1>6, <1>7, <1>8, MappingIs DEF Abstract!Init

LEMMA CacheNextRefines == CacheInv /\ OffIsEmpty /\ [Next]_vars => [Abstract!Next]_Abstract!vars
<1> DEFINE Stutters == UNCHANGED <<PartOf, capacity_, CachedMap, CostMap, IdleLists, handles, Alive, destroyed>>
<1> SUFFICES ASSUME CacheInv, OffIsEmpty, [Next]_vars PROVE Abstract!Next \/ Stutters
  BY DEF Abstract!vars
<1>0. ASSUME UNCHANGED <<HashSlice, shard_, capacity_, handles, destroyed>> PROVE Stutters
  <2>1. PartOf' = PartOf
    BY <1>0 DEF PartOf
  <2>2. CachedMap' = CachedMap /\ CostMap' = CostMap /\ Alive' = Alive /\ IdleLists' = IdleLists
    <3>1. destroyed \in BOOLEAN
      BY DEF CacheInv
    <3> QED
      BY <1>0, <3>1, MappingIs, MappingNext
  <2> QED
    BY <1>0, <2>1, <2>2
<1> HIDE DEF Stutters
<1>1. ASSUME NEW k \in Keys, NEW e \in Entries, NEW n \in Charges, Insert(k, e, n) PROVE Abstract!Next
  <2>1. Abstract!Insert(k, e, n)
    BY <1>1, InsertOnRefines, InsertOffRefines
  <2> QED
    BY <2>1 DEF Abstract!Next
<1>2. ASSUME NEW k \in Keys, Lookup(k) PROVE Abstract!Next
  <2>1. Abstract!Lookup(k)
    BY <1>2, LookupRefines
  <2> QED
    BY <2>1 DEF Abstract!Next
<1>3. ASSUME NEW e \in Entries, Release(e) PROVE Abstract!Next
  <2>1. Abstract!Release(e)
    BY <1>3, ReleaseRefines
  <2> QED
    BY <2>1 DEF Abstract!Next
<1>4. ASSUME NEW k \in Keys, Erase(k) PROVE Abstract!Next
  <2>1. Abstract!Erase(k)
    BY <1>4, EraseRefines
  <2> QED
    BY <2>1 DEF Abstract!Next
<1>5. CASE PruneNext
  <2>1. Abstract!Prune(walk.s) /\ walk.s \in Shards
    BY <1>5, PruneRefines, PruneStep
  <2> QED
    BY <2>1 DEF Abstract!Next
<1>6. CASE Destroy
  <2>1. Abstract!Destroy
    BY <1>6, DestroyRefines
  <2> QED
    BY <2>1 DEF Abstract!Next
<1>7. CASE (\E method \in {"Prune", "TotalCharge"} : Call(method)) \/ TotalChargeNext \/ Return \/ Destroyed \/ UNCHANGED vars
  BY <1>0, <1>7 DEF Call, TotalChargeNext, Return, Destroyed, vars
<1> QED
  BY <1>1, <1>2, <1>3, <1>4, <1>5, <1>6, <1>7 DEF Next

\* Whatever the keys, entries, shards, hash functions, charges and capacity, each method of
\* util/cache.cc does to the map, to the lives of its values and to the order of eviction
\* what the cache of include/cache.h does, and evicts no more than that one.
THEOREM CacheRefinement == Spec => ImplementsCache
<1>1. Init => Abstract!Init
  BY CacheInitRefines
<1>2. CacheInv /\ OffIsEmpty /\ [Next]_vars => [Abstract!Next]_Abstract!vars
  BY CacheNextRefines
<1>3. Spec => []CacheInv
  BY CacheInvariant
<1>4. Init => OffIsEmpty
  BY OffInit
<1>5. CacheInv /\ OffIsEmpty /\ [Next]_vars => OffIsEmpty'
  BY OffStep
<1> QED
  BY <1>1, <1>2, <1>3, <1>4, <1>5, PTL DEF Spec, ImplementsCache, Abstract!Spec
============================================================================
