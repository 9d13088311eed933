-------------------------- MODULE SkipListProofs --------------------------
(***************************************************************************)
(* Proofs about SkipList: no thread ever reads what is not initialised,    *)
(* and on every level and in every view the list is exact.                 *)
(***************************************************************************)
EXTENDS SkipList, TLAPS

(***************************************************************************)
(* The inductive invariant behind NoWildRead, LevelsExact and LevelsNested.*)
(***************************************************************************)
\* Stores are numbered by the clock and no two stores of a location share a number.
TimesOK ==
    /\ \A s \in stores : s.at <= clock
    /\ \A s, u \in stores : s.node = u.node /\ s.level = u.level /\ s.at = u.at => s = u
    /\ \A k \in Keys : born[k] <= clock
    /\ \A r \in Readers : seen[r] <= clock
    /\ \A e \in heights : e.at <= clock
    /\ \A e, f \in heights : e.at = f.at => e = f

\* A pointer leads to a larger key, written before the pointer was stored; a relaxed
\* store is to a slot of a node that was not linked on that level at the time; no
\* link is above max_height_.
PointersOK ==
    /\ \A s \in stores : s.val \in Keys => s.val > s.node /\ born[s.val] \in 1 .. s.at
    /\ \A s \in stores : s.node \in Keys => born[s.node] > 0
    /\ \A s \in stores : ~ s.rel =>
        s.node \in Keys /\ \A u \in stores : u.val = s.node /\ u.level = s.level => s.at < u.at
    /\ \A m \in GetMaxHeight(Writer) : \A s \in stores : s.val \in Keys => s.level < m

\* A thread inside a search stands on a node it has seen linked on its level, before
\* the key it looks for; an Iterator stands on a node its reader has seen.
SearchesOK ==
    /\ \A t \in Threads : op[t] \in {"Contains", "Seek", "Prev", "SeekToLast", "Insert"} =>
        /\ x[t] \in LinkedAt(level[t], View(t)) \cup {Head}
        /\ op[t] # "SeekToLast" => arg[t] \in Keys /\ x[t] < arg[t]
    /\ \A r \in Readers :
        /\ node[r] \in LinkedAt(0, seen[r]) \cup {Nil}
        /\ op[r] = "Prev" => arg[r] = node[r]

\* prev[l] is the last node of level l before the key being inserted.
PrevOK(l) ==
    /\ prev[l] \in LinkedAt(l, clock) \cup {Head}
    /\ prev[l] < arg[Writer]
    /\ \A k \in LinkedAt(l, clock) : k > prev[l] => k > arg[Writer]

\* The new node's slot on level l holds the node that will follow it.
OwnNextOK(l) ==
    \E s \in StoresTo(arg[Writer], l) :
        /\ \A u \in StoresTo(arg[Writer], l) : u.at <= s.at
        /\ s.val \in LinkedAt(l, clock) \cup {Nil}
        /\ s.val # Nil => s.val > arg[Writer]
        /\ \A k \in LinkedAt(l, clock) : k > arg[Writer] => s.val # Nil /\ s.val <= k

\* Where Insert has got to.
InsertOK ==
    LET k == arg[Writer]
        Found(m) == \A l \in Levels : l < m => PrevOK(l)
    IN  /\ op[Writer] # "none" => k \in Keys
        /\ op[Writer] \in {"Insert", "RaiseHeight", "NewNode"} => born[k] = 0
        /\ op[Writer] = "Insert" => \A m \in GetMaxHeight(Writer) :
            level[Writer] < m /\ \A l \in Levels : level[Writer] < l /\ l < m => PrevOK(l)
        /\ op[Writer] = "RaiseHeight" => \A m \in GetMaxHeight(Writer) : Found(m)
        /\ op[Writer] \in {"NewNode", "OwnNext", "PrevNext"} =>
            \A m \in GetMaxHeight(Writer) : height <= m
        /\ op[Writer] = "NewNode" => Found(height)
        /\ op[Writer] \in {"OwnNext", "PrevNext"} =>
            /\ born[k] \in 1 .. clock
            /\ i < height
            /\ \A l \in Levels :
                /\ l < i => k \in LinkedAt(l, clock)
                /\ l >= i => k \notin LinkedAt(l, clock)
                /\ l \in i .. height - 1 => PrevOK(l)
                /\ l > i \/ (l = i /\ op[Writer] = "OwnNext") => StoresTo(k, l) = {}
        /\ op[Writer] = "PrevNext" => OwnNextOK(i)

ListInv ==
    /\ TypeOK
    /\ NoWildRead
    /\ TimesOK
    /\ PointersOK
    /\ LevelsExact
    /\ LevelsNested
    /\ SearchesOK
    /\ InsertOK

(***************************************************************************)
(* Facts about one state.                                                  *)
(***************************************************************************)
\* Keys are numbers; head_ and nullptr are not keys.
LEMMA KeyFacts ==
    /\ Keys \subseteq Nat /\ Head \in Nat
    /\ Head \notin Keys /\ Nil \notin Keys
    /\ \A k \in Keys : Head < k
<1>1. \A k \in Keys : k \in Nat /\ k # 0
  BY KeysAssumption
<1>2. \A k \in Keys : Head < k
  BY KeysAssumption DEF Head
<1>4. Nil \notin Keys
  BY <1>1, PointerAssumption
<1>5. Head \in Nat /\ Head \notin Keys
  BY <1>1 DEF Head
<1> QED
  BY <1>1, <1>2, <1>4, <1>5

\* What is linked stays linked.
LEMMA LinkedGrows ==
    ASSUME stores \subseteq Store, NEW l \in Levels, NEW v \in Nat, NEW w \in Nat, v <= w
    PROVE  LinkedAt(l, v) \subseteq LinkedAt(l, w)
  BY DEF LinkedAt, Store

\* A thread's view is a time that has been.
LEMMA ViewBound ==
    ASSUME TypeOK, TimesOK, NEW t \in Threads
    PROVE  View(t) \in Nat /\ View(t) <= clock
  BY ThreadAssumption DEF TypeOK, TimesOK, View, Threads

\* The heart of the matter: a load from a node the thread has seen linked returns an
\* initialised pointer, and in the view the thread has afterwards that pointer leads
\* to the nearest larger key of the level (or is Nil if there is none).
LEMMA LoadExact ==
    ASSUME TypeOK, TimesOK, PointersOK, LevelsExact,
           NEW t \in Threads, NEW l \in Levels,
           NEW n \in LinkedAt(l, View(t)) \cup {Head},
           NEW s \in Loads(t, n, l)
    PROVE  LET w == ViewAfter(t, s) IN
           /\ s \in StoresTo(n, l)
           /\ w \in Nat /\ View(t) <= w /\ w <= clock
           /\ s.val \in LinkedAt(l, w) \cup {Nil}
           /\ s.val # Nil => s.val > n
           /\ \A k \in LinkedAt(l, w) : k > n => s.val # Nil /\ s.val <= k
           /\ ~ IsWild(s.val, w)
<1> DEFINE w == ViewAfter(t, s)
           known == {u \in StoresTo(n, l) : u.at <= View(t)}
<1>0. View(t) \in Nat /\ View(t) <= clock
  BY ViewBound
<1>1. PICK e \in StoresTo(n, l) : e.at <= View(t)
  BY <1>0 DEF LevelsExact
<1>2. s \in StoresTo(n, l) /\ \A k \in known : k.at <= s.at
  BY <1>1 DEF Loads
<1>3. s \in Store /\ s \in stores /\ s.node = n /\ s.level = l /\ s.at \in Nat /\ s.at <= clock
  BY <1>2 DEF StoresTo, TypeOK, TimesOK, Store
<1>4. s.rel \/ s.at <= View(t)
  <2>1. SUFFICES ASSUME ~ s.rel PROVE s.at <= View(t)
    OBVIOUS
  <2>2. n \in Keys
    BY <1>3, <2>1 DEF PointersOK
  <2>3. n \in LinkedAt(l, View(t))
    BY <2>2, KeysAssumption DEF Head
  <2>4. PICK u \in stores : u.level = l /\ u.val = n /\ u.at <= View(t)
    BY <2>3 DEF LinkedAt
  <2>5. s.at < u.at
    BY <1>3, <2>1, <2>4 DEF PointersOK
  <2>6. u.at \in Nat
    BY <2>4 DEF TypeOK, Store
  <2> QED
    BY <1>0, <1>3, <2>4, <2>5, <2>6
<1>5. w \in Nat /\ View(t) <= w /\ w <= clock /\ s.at <= w
  BY <1>0, <1>3, <1>4 DEF ViewAfter
<1>6. \A u \in StoresTo(n, l) : u.at <= w => u.at <= s.at
  <2>1. SUFFICES ASSUME NEW u \in StoresTo(n, l), u.at <= w PROVE u.at <= s.at
    OBVIOUS
  <2>2. CASE w = s.at
    BY <2>1, <2>2
  <2>3. CASE w = View(t)
    BY <2>1, <2>3, <1>2
  <2> QED
    BY <2>2, <2>3 DEF ViewAfter
<1>7. n \in LinkedAt(l, w) \cup {Head}
  BY <1>0, <1>5, LinkedGrows DEF TypeOK
<1>8. PICK f \in StoresTo(n, l) :
        /\ f.at <= w
        /\ \A u \in StoresTo(n, l) : u.at <= w => u.at <= f.at
        /\ f.val \in LinkedAt(l, w) \cup {Nil}
        /\ f.val # Nil => f.val > n
        /\ \A k \in LinkedAt(l, w) : k > n => f.val # Nil /\ f.val <= k
  BY <1>5, <1>7 DEF LevelsExact
<1>9. f = s
  <2>1. f.at \in Nat /\ f \in stores /\ f.node = n /\ f.level = l
    BY <1>8 DEF StoresTo, TypeOK, Store
  <2>2. f.at = s.at
    BY <1>2, <1>3, <1>5, <1>6, <1>8, <2>1
  <2> QED
    BY <1>3, <2>1, <2>2 DEF TimesOK
<1>10. ~ IsWild(s.val, w)
  <2>1. s.val \in Keys \cup {Nil}
    BY <1>3 DEF Store
  <2>2. s.val # Wild
    BY <2>1, PointerAssumption, KeysAssumption
  <2>3. s.val \in Keys => born[s.val] \in 1 .. w
    BY <1>3, <1>5 DEF PointersOK, TypeOK
  <2> QED
    BY <2>2, <2>3 DEF IsWild
<1> QED
  BY <1>2, <1>5, <1>8, <1>9, <1>10

(***************************************************************************)
(* Steps that leave the memory alone.                                      *)
(***************************************************************************)
\* A step that makes no store changes nothing that is said about the memory.
LEMMA QuietMemory ==
    ASSUME UNCHANGED mem
    PROVE  /\ \A l \in Levels, v \in Nat : LinkedAt(l, v)' = LinkedAt(l, v)
           /\ LinkedAt(0, clock)' = LinkedAt(0, clock)
           /\ \A n, l : StoresTo(n, l)' = StoresTo(n, l)
           /\ GetMaxHeight(Writer)' = GetMaxHeight(Writer)
           /\ PointersOK => PointersOK'
           /\ LevelsExact => LevelsExact'
           /\ LevelsNested => LevelsNested'
<1> USE DEF mem
<1>1. \A l, v : LinkedAt(l, v)' = LinkedAt(l, v)
  BY DEF LinkedAt
<1>2. \A n, l : StoresTo(n, l)' = StoresTo(n, l)
  BY DEF StoresTo
<1>3. GetMaxHeight(Writer)' = GetMaxHeight(Writer)
  BY DEF GetMaxHeight, View
<1>4. PointersOK => PointersOK'
  BY <1>3 DEF PointersOK
<1>5. LevelsExact => LevelsExact'
  BY <1>1, <1>2 DEF LevelsExact
<1>6. LevelsNested => LevelsNested'
  BY <1>1 DEF LevelsNested
<1> QED
  BY <1>1, <1>2, <1>3, <1>4, <1>5, <1>6

\* Insert is not disturbed by a step that makes no store and is not the writer's.
LEMMA QuietInsert ==
    ASSUME InsertOK, UNCHANGED <<mem, insert>>, op'[Writer] = op[Writer],
           arg'[Writer] = arg[Writer], level'[Writer] = level[Writer]
    PROVE  InsertOK'
<1>1. \A l : PrevOK(l)' = PrevOK(l) /\ OwnNextOK(l)' = OwnNextOK(l)
  BY DEF PrevOK, OwnNextOK, LinkedAt, StoresTo, mem, insert
<1>2. \A l : LinkedAt(l, clock)' = LinkedAt(l, clock)
  BY DEF LinkedAt, mem
<1> QED
  BY <1>1, <1>2, QuietMemory DEF InsertOK, mem, insert

\* A reader's step keeps the invariant if the reader's own part of it holds afterwards.
LEMMA ReaderStep ==
    ASSUME ListInv, TypeOK', UNCHANGED <<mem, insert>>, NEW r \in Readers,
           \A t \in Threads \ {r} :
             op'[t] = op[t] /\ arg'[t] = arg[t] /\ x'[t] = x[t] /\ level'[t] = level[t],
           \A q \in Readers \ {r} : seen'[q] = seen[q] /\ node'[q] = node[q],
           seen[r] <= seen'[r], seen'[r] <= clock,
           op'[r] # "wild",
           op'[r] # "none" =>
             /\ x'[r] \in LinkedAt(level'[r], seen'[r]) \cup {Head}
             /\ op'[r] # "SeekToLast" => arg'[r] \in Keys /\ x'[r] < arg'[r],
           node'[r] \in LinkedAt(0, seen'[r]) \cup {Nil},
           op'[r] = "Prev" => arg'[r] = node'[r]
    PROVE  ListInv'
<1>1. Writer \in Threads /\ Writer # r /\ \A q \in Readers : q \in Threads /\ q # Writer
  BY ThreadAssumption DEF Threads
<1>2. NoWildRead'
  BY <1>1 DEF NoWildRead, ListInv
<1>3. TimesOK'
  BY DEF TimesOK, ListInv, mem
<1>4. PointersOK' /\ LevelsExact' /\ LevelsNested'
  BY QuietMemory DEF ListInv
<1>5. InsertOK'
  BY <1>1, QuietInsert DEF ListInv
<1>8. SearchesOK'
  <2>1. ASSUME NEW t \in Threads, op'[t] \in {"Contains", "Seek", "Prev", "SeekToLast", "Insert"}
        PROVE  (/\ x[t] \in LinkedAt(level[t], View(t)) \cup {Head}
                /\ op[t] # "SeekToLast" => arg[t] \in Keys /\ x[t] < arg[t])'
    <3>1. CASE t = r
      BY <2>1, <3>1, <1>1 DEF View, LinkedAt, mem
    <3>2. CASE t # r
      BY <2>1, <3>2, <1>1 DEF ListInv, SearchesOK, View, LinkedAt, mem, Threads
    <3> QED
      BY <3>1, <3>2
  <2>2. ASSUME NEW q \in Readers
        PROVE  (/\ node[q] \in LinkedAt(0, seen[q]) \cup {Nil}
                /\ op[q] = "Prev" => arg[q] = node[q])'
    BY <1>1 DEF ListInv, SearchesOK, LinkedAt, mem
  <2> QED
    BY <2>1, <2>2 DEF SearchesOK
<1> QED
  BY <1>2, <1>3, <1>4, <1>5, <1>8 DEF ListInv

\* A relaxed load of max_height_ gives a level of the list.
LEMMA StartLevel ==
    ASSUME TypeOK, NEW t \in Threads, NEW h \in GetMaxHeight(t)
    PROVE  h - 1 \in Levels
  BY HeightAssumption DEF TypeOK, GetMaxHeight, Levels

\* A reader starts an operation that searches.
LEMMA StartQueryInv ==
    ASSUME ListInv, NEW r \in Readers, NEW o \in {"Contains", "Seek", "SeekToLast", "Prev"},
           NEW k \in Keys \cup {Nil}, o # "SeekToLast" => k \in Keys,
           o = "Prev" => k = node[r], StartQuery(r, o, k)
    PROVE  ListInv'
<1> USE DEF StartQuery, StartSearch
<1>1. r \in Threads /\ TypeOK
  BY DEF Threads, ListInv
<1>2. TypeOK'
  BY <1>1, StartLevel, ThreadAssumption DEF TypeOK, ReaderOps, WriterOps, Nodes, mem, insert
<1>3. Head \in Nat /\ \A j \in Keys : Head < j
  BY KeysAssumption DEF Head
<1>4. seen'[r] = seen[r] /\ seen[r] \in Nat /\ seen[r] <= clock /\ node'[r] = node[r]
  BY <1>1 DEF ListInv, TypeOK, TimesOK
<1>5. op'[r] = o /\ arg'[r] = k /\ x'[r] = Head
  BY <1>1 DEF TypeOK
<1>6. node[r] \in LinkedAt(0, seen[r]) \cup {Nil}
  BY DEF ListInv, SearchesOK
<1>7. \A t \in Threads \ {r} :
        op'[t] = op[t] /\ arg'[t] = arg[t] /\ x'[t] = x[t] /\ level'[t] = level[t]
  BY <1>1 DEF TypeOK
<1>8. UNCHANGED <<mem, insert>> /\ \A q \in Readers \ {r} : seen'[q] = seen[q] /\ node'[q] = node[q]
  OBVIOUS
<1> QED
  BY <1>2, <1>3, <1>4, <1>5, <1>6, <1>7, <1>8, ReaderStep

\* What a load by a searching reader gives, in the reader's new view.
LEMMA ReaderLoad ==
    ASSUME ListInv, NEW r \in Readers, NEW l \in Levels,
           NEW n \in LinkedAt(l, seen[r]) \cup {Head},
           NEW s \in Loads(r, n, l), Acquire(r, s)
    PROVE  /\ seen' \in [Readers -> Nat]
           /\ seen'[r] = ViewAfter(r, s) /\ seen'[r] \in Nat
           /\ seen[r] <= seen'[r] /\ seen'[r] <= clock
           /\ \A q \in Readers \ {r} : seen'[q] = seen[q]
           /\ s.val \in LinkedAt(l, seen'[r]) \cup {Nil}
           /\ s.val \in Keys \cup {Nil}
           /\ s.val # Nil => s.val > n
           /\ \A k \in LinkedAt(l, seen'[r]) : k > n => s.val # Nil /\ s.val <= k
           /\ s.val # Wild
           /\ ~ IsWild(s.val, seen'[r])
           /\ \A j \in Levels : LinkedAt(j, seen[r]) \subseteq LinkedAt(j, seen'[r])
<1>1. r \in Threads /\ View(r) = seen[r] /\ TypeOK
  BY ThreadAssumption DEF Threads, View, ListInv
<1>2. seen' = [seen EXCEPT ![r] = ViewAfter(r, s)]
  BY DEF Acquire
<1>3. LET w == ViewAfter(r, s) IN
        /\ w \in Nat /\ View(r) <= w /\ w <= clock
        /\ s.val \in LinkedAt(l, w) \cup {Nil}
        /\ s.val # Nil => s.val > n
        /\ \A k \in LinkedAt(l, w) : k > n => s.val # Nil /\ s.val <= k
        /\ ~ IsWild(s.val, w)
  BY <1>1, LoadExact DEF ListInv
<1>4. seen'[r] = ViewAfter(r, s) /\ \A q \in Readers \ {r} : seen'[q] = seen[q]
  BY <1>1, <1>2 DEF TypeOK
<1>5. seen' \in [Readers -> Nat]
  BY <1>1, <1>2, <1>3 DEF TypeOK
<1>6. s.val \in Keys \cup {Nil} /\ s.val # Wild
  BY <1>3, PointerAssumption DEF LinkedAt, IsWild
<1>7. \A j \in Levels : LinkedAt(j, seen[r]) \subseteq LinkedAt(j, seen'[r])
  BY <1>1, <1>3, <1>4, LinkedGrows DEF TypeOK
<1> QED
  BY <1>1, <1>3, <1>4, <1>5, <1>6, <1>7

\* A loop iteration of a search moves the reader right ...
LEMMA ReaderRight ==
    ASSUME ListInv, NEW r \in Readers, op[r] \notin {"none", "wild"},
           NEW s \in Loads(r, x[r], level[r]), Acquire(r, s), UNCHANGED <<mem, insert>>,
           s.val # Nil, op[r] # "SeekToLast" => s.val < arg[r], GoRight(r, s.val)
    PROVE  ListInv'
<1> USE DEF GoRight
<1>1. r \in Threads /\ r # Writer /\ TypeOK /\ op[r] \in ReaderOps
  BY ThreadAssumption DEF Threads, ListInv, TypeOK
<1>2. /\ level[r] \in Levels /\ x[r] \in LinkedAt(level[r], seen[r]) \cup {Head}
      /\ op[r] # "SeekToLast" => arg[r] \in Keys
      /\ node[r] \in LinkedAt(0, seen[r]) \cup {Nil}
      /\ op[r] = "Prev" => arg[r] = node[r]
  BY <1>1 DEF ListInv, SearchesOK, View, ReaderOps, TypeOK
<1>3. /\ seen' \in [Readers -> Nat] /\ seen[r] <= seen'[r] /\ seen'[r] <= clock
      /\ \A q \in Readers \ {r} : seen'[q] = seen[q]
      /\ s.val \in LinkedAt(level[r], seen'[r]) /\ s.val \in Keys
      /\ node[r] \in LinkedAt(0, seen'[r]) \cup {Nil}
  BY <1>2, ReaderLoad, HeightAssumption DEF Levels
<1>4. TypeOK'
  BY <1>1, <1>3 DEF TypeOK, Nodes, mem, insert
<1>5. /\ \A t \in Threads \ {r} :
           op'[t] = op[t] /\ arg'[t] = arg[t] /\ x'[t] = x[t] /\ level'[t] = level[t]
      /\ op'[r] = op[r] /\ arg'[r] = arg[r] /\ x'[r] = s.val /\ level'[r] = level[r]
      /\ \A q \in Readers : node'[q] = node[q]
  BY <1>1 DEF TypeOK
<1> QED
  BY <1>2, <1>3, <1>4, <1>5, ReaderStep

\* ... or down ...
LEMMA ReaderDown ==
    ASSUME ListInv, NEW r \in Readers, op[r] \notin {"none", "wild"},
           NEW s \in Loads(r, x[r], level[r]), Acquire(r, s), UNCHANGED <<mem, insert>>,
           level[r] # 0, Descend(r)
    PROVE  ListInv'
<1> USE DEF Descend
<1>1. r \in Threads /\ r # Writer /\ TypeOK /\ op[r] \in ReaderOps
  BY ThreadAssumption DEF Threads, ListInv, TypeOK
<1>2. /\ level[r] \in Levels /\ x[r] \in LinkedAt(level[r], seen[r]) \cup {Head}
      /\ op[r] # "SeekToLast" => arg[r] \in Keys /\ x[r] < arg[r]
      /\ node[r] \in LinkedAt(0, seen[r]) \cup {Nil}
      /\ op[r] = "Prev" => arg[r] = node[r]
  BY <1>1 DEF ListInv, SearchesOK, View, ReaderOps, TypeOK
<1>3. level[r] - 1 \in Levels /\ 0 \in Levels
  BY <1>2, HeightAssumption DEF Levels
<1>4. /\ seen' \in [Readers -> Nat] /\ seen[r] <= seen'[r] /\ seen'[r] <= clock
      /\ \A q \in Readers \ {r} : seen'[q] = seen[q]
      /\ x[r] \in LinkedAt(level[r], seen'[r]) \cup {Head}
      /\ node[r] \in LinkedAt(0, seen'[r]) \cup {Nil}
  BY <1>2, <1>3, ReaderLoad
<1>5. LinkedAt(level[r], seen'[r]) \subseteq LinkedAt(level[r] - 1, seen'[r])
  BY <1>1, <1>2, <1>4 DEF ListInv, LevelsNested, TypeOK
<1>6. TypeOK'
  BY <1>1, <1>3, <1>4 DEF TypeOK, mem, insert
<1>7. /\ \A t \in Threads \ {r} :
           op'[t] = op[t] /\ arg'[t] = arg[t] /\ x'[t] = x[t] /\ level'[t] = level[t]
      /\ op'[r] = op[r] /\ arg'[r] = arg[r] /\ x'[r] = x[r] /\ level'[r] = level[r] - 1
      /\ \A q \in Readers : node'[q] = node[q]
  BY <1>1 DEF TypeOK
<1> QED
  BY <1>2, <1>4, <1>5, <1>6, <1>7, ReaderStep

\* ... or the operation returns.
LEMMA ReaderReturn ==
    ASSUME ListInv, NEW r \in Readers,
           seen' \in [Readers -> Nat], seen[r] <= seen'[r], seen'[r] <= clock,
           \A q \in Readers \ {r} : seen'[q] = seen[q], UNCHANGED <<mem, insert>>,
           Return(r), found' \in [Readers -> BOOLEAN],
           NEW p \in LinkedAt(0, seen'[r]) \cup {Nil}, node' = [node EXCEPT ![r] = p]
    PROVE  ListInv'
<1> USE DEF Return
<1>1. r \in Threads /\ r # Writer /\ TypeOK /\ 0 \in Levels
  BY ThreadAssumption, HeightAssumption DEF Threads, ListInv, Levels
<1>2. p \in Keys \cup {Nil}
  BY DEF LinkedAt
<1>3. TypeOK'
  BY <1>1, <1>2 DEF TypeOK, ReaderOps, Nodes, mem, insert
<1>4. /\ \A t \in Threads \ {r} :
           op'[t] = op[t] /\ arg'[t] = arg[t] /\ x'[t] = x[t] /\ level'[t] = level[t]
      /\ op'[r] = "none" /\ node'[r] = p
      /\ \A q \in Readers \ {r} : node'[q] = node[q]
  BY <1>1 DEF TypeOK
<1> QED
  BY <1>3, <1>4, ReaderStep

\* A searching reader is where SearchesOK says.
LEMMA ReaderAt ==
    ASSUME ListInv, NEW r \in Readers, op[r] \notin {"none", "wild"}
    PROVE  /\ level[r] \in Levels /\ x[r] \in LinkedAt(level[r], seen[r]) \cup {Head}
           /\ op[r] # "SeekToLast" => arg[r] \in Keys /\ x[r] < arg[r]
  BY ThreadAssumption DEF ListInv, SearchesOK, View, ReaderOps, TypeOK, Threads

LEMMA ReaderFindGreaterOrEqual ==
    ASSUME ListInv, NEW r \in Readers, FindGreaterOrEqual(r)
    PROVE  ListInv'
<1>1. PICK s \in Loads(r, x[r], level[r]) :
        /\ Acquire(r, s)
        /\ IF IsWild(s.val, ViewAfter(r, s)) THEN GoWild(r) /\ UNCHANGED prev
           ELSE IF KeyIsAfterNode(arg[r], s.val) THEN GoRight(r, s.val) /\ UNCHANGED prev
           ELSE /\ prev' = IF op[r] = "Insert" THEN [prev EXCEPT ![level[r]] = x[r]] ELSE prev
                /\ IF level[r] = 0 THEN UseGreaterOrEqual(r, s.val) ELSE Descend(r)
  BY DEF FindGreaterOrEqual
<1>2. op[r] \in {"Contains", "Seek"}
  BY DEF FindGreaterOrEqual, ListInv, TypeOK, ReaderOps
<1>3. /\ seen'[r] = ViewAfter(r, s) /\ seen' \in [Readers -> Nat]
      /\ seen[r] <= seen'[r] /\ seen'[r] <= clock
      /\ \A q \in Readers \ {r} : seen'[q] = seen[q]
      /\ ~ IsWild(s.val, seen'[r])
      /\ s.val \in LinkedAt(level[r], seen'[r]) \cup {Nil}
      /\ \A j \in Levels : LinkedAt(j, seen[r]) \subseteq LinkedAt(j, seen'[r])
  BY <1>1, <1>2, ReaderAt, ReaderLoad
<1>4. UNCHANGED <<mem, insert>>
  BY <1>1, <1>2, <1>3 DEF FindGreaterOrEqual, insert
<1>5. CASE KeyIsAfterNode(arg[r], s.val)
  BY <1>1, <1>2, <1>3, <1>4, <1>5, ReaderRight DEF KeyIsAfterNode
<1>6. CASE ~ KeyIsAfterNode(arg[r], s.val) /\ level[r] # 0
  BY <1>1, <1>2, <1>3, <1>4, <1>6, ReaderDown
<1>7. CASE ~ KeyIsAfterNode(arg[r], s.val) /\ level[r] = 0
  <2>1. UseGreaterOrEqual(r, s.val)
    BY <1>1, <1>3, <1>7
  <2>2. Return(r) /\ found' \in [Readers -> BOOLEAN]
    BY <1>2, <2>1 DEF UseGreaterOrEqual, ListInv, TypeOK
  <2>3. node[r] \in LinkedAt(0, seen'[r]) \cup {Nil} /\ node = [node EXCEPT ![r] = node[r]]
    BY <1>3, HeightAssumption DEF ListInv, SearchesOK, Levels, TypeOK
  <2>4. node' = [node EXCEPT ![r] = IF op[r] = "Seek" THEN s.val ELSE node[r]]
    BY <2>1, <2>3 DEF UseGreaterOrEqual
  <2> QED
    BY <1>3, <1>4, <1>7, <2>2, <2>3, <2>4, ReaderReturn
<1> QED
  BY <1>5, <1>6, <1>7

\* FindLessThan and FindLast return the node they stand on.
LEMMA ReaderUseLast ==
    ASSUME ListInv, NEW r \in Readers, op[r] \in {"Prev", "SeekToLast"}, level[r] = 0,
           NEW s \in Loads(r, x[r], level[r]), Acquire(r, s), UNCHANGED <<mem, insert>>, UseLast(r)
    PROVE  ListInv'
<1>1. /\ seen' \in [Readers -> Nat] /\ seen[r] <= seen'[r] /\ seen'[r] <= clock
      /\ \A q \in Readers \ {r} : seen'[q] = seen[q]
      /\ x[r] \in LinkedAt(0, seen'[r]) \cup {Head}
  BY ReaderAt, ReaderLoad
<1>2. found' \in [Readers -> BOOLEAN]
  BY DEF UseLast, ListInv, TypeOK
<1> QED
  BY <1>1, <1>2, ReaderReturn DEF UseLast

LEMMA ReaderFindLessThan ==
    ASSUME ListInv, NEW r \in Readers, FindLessThan(r)
    PROVE  ListInv'
<1>1. PICK s \in Loads(r, x[r], level[r]) :
        /\ Acquire(r, s)
        /\ IF IsWild(s.val, ViewAfter(r, s)) THEN GoWild(r)
           ELSE IF ~ StopsBefore(arg[r], s.val) THEN GoRight(r, s.val)
           ELSE IF level[r] = 0 THEN UseLast(r) ELSE Descend(r)
  BY DEF FindLessThan
<1>2. op[r] = "Prev" /\ UNCHANGED <<mem, insert>>
  BY DEF FindLessThan
<1>3. seen'[r] = ViewAfter(r, s) /\ ~ IsWild(s.val, seen'[r]) /\ s.val \in Keys \cup {Nil} /\ arg[r] \in Keys
  BY <1>1, <1>2, ReaderAt, ReaderLoad
<1>4. CASE ~ StopsBefore(arg[r], s.val)
  <2>1. s.val # Nil /\ ~ (s.val >= arg[r])
    BY <1>4 DEF StopsBefore
  <2>2. s.val \in Nat /\ arg[r] \in Nat
    BY <1>3, <2>1, KeysAssumption
  <2>3. s.val < arg[r]
    BY <2>1, <2>2
  <2> QED
    BY <1>1, <1>2, <1>3, <1>4, <2>1, <2>3, ReaderRight
<1>5. CASE StopsBefore(arg[r], s.val) /\ level[r] = 0
  BY <1>1, <1>2, <1>3, <1>5, ReaderUseLast
<1>6. CASE StopsBefore(arg[r], s.val) /\ level[r] # 0
  BY <1>1, <1>2, <1>3, <1>6, ReaderDown
<1> QED
  BY <1>4, <1>5, <1>6

LEMMA ReaderFindLast ==
    ASSUME ListInv, NEW r \in Readers, FindLast(r)
    PROVE  ListInv'
<1>1. PICK s \in Loads(r, x[r], level[r]) :
        /\ Acquire(r, s)
        /\ IF s.val = Wild THEN GoWild(r)
           ELSE IF s.val # Nil THEN GoRight(r, s.val)
           ELSE IF level[r] = 0 THEN UseLast(r) ELSE Descend(r)
  BY DEF FindLast
<1>2. op[r] = "SeekToLast" /\ UNCHANGED <<mem, insert>>
  BY DEF FindLast
<1>3. s.val # Wild
  BY <1>1, <1>2, ReaderAt, ReaderLoad
<1>4. CASE s.val # Nil
  BY <1>1, <1>2, <1>3, <1>4, ReaderRight
<1>5. CASE s.val = Nil /\ level[r] = 0
  BY <1>1, <1>2, <1>3, <1>5, ReaderUseLast
<1>6. CASE s.val = Nil /\ level[r] # 0
  BY <1>1, <1>2, <1>3, <1>6, ReaderDown
<1> QED
  BY <1>4, <1>5, <1>6

\* Next and SeekToFirst.
LEMMA ReaderStepTo ==
    ASSUME ListInv, NEW r \in Readers, NEW n \in LinkedAt(0, seen[r]) \cup {Head}, StepTo(r, n)
    PROVE  ListInv'
<1> USE DEF StepTo
<1>1. PICK s \in Loads(r, n, 0) :
        /\ Acquire(r, s)
        /\ IF s.val = Wild THEN GoWild(r)
           ELSE node' = [node EXCEPT ![r] = s.val] /\ UNCHANGED <<search, found>>
  OBVIOUS
<1>2. 0 \in Levels /\ r \in Threads /\ TypeOK
  BY HeightAssumption DEF Levels, Threads, ListInv
<1>3. /\ seen' \in [Readers -> Nat] /\ seen[r] <= seen'[r] /\ seen'[r] <= clock
      /\ \A q \in Readers \ {r} : seen'[q] = seen[q]
      /\ s.val \in LinkedAt(0, seen'[r]) \cup {Nil}
      /\ s.val \in Keys \cup {Nil}
      /\ s.val # Wild
  BY <1>1, <1>2, ReaderLoad
<1>4. node' = [node EXCEPT ![r] = s.val] /\ UNCHANGED <<mem, search, found, insert>>
  BY <1>1, <1>3
<1>5. TypeOK'
  BY <1>2, <1>3, <1>4 DEF TypeOK, mem, search, insert
<1>6. op'[r] = "none" /\ node'[r] = s.val /\ \A q \in Readers \ {r} : node'[q] = node[q]
  BY <1>2, <1>4 DEF search, TypeOK
<1> QED
  BY <1>3, <1>4, <1>5, <1>6, ReaderStep DEF search

LEMMA ReaderSynchronize ==
    ASSUME ListInv, NEW r \in Readers, Synchronize(r)
    PROVE  ListInv'
<1> USE DEF Synchronize
<1>1. TypeOK /\ TypeOK' /\ 0 \in Levels
  BY HeightAssumption DEF ListInv, TypeOK, mem, search, insert, Levels
<1>2. seen'[r] = clock /\ seen[r] <= clock /\ \A q \in Readers \ {r} : seen'[q] = seen[q]
  BY <1>1 DEF ListInv, TimesOK, TypeOK
<1>3. node[r] \in LinkedAt(0, clock) \cup {Nil}
  BY <1>1, <1>2, LinkedGrows DEF ListInv, SearchesOK, TypeOK
<1> QED
  BY <1>1, <1>2, <1>3, ReaderStep DEF search, TypeOK

(***************************************************************************)
(* Steps of the writer.                                                    *)
(***************************************************************************)
\* The writer sees its own last store of max_height_.
LEMMA OneMaxHeight ==
    ASSUME TypeOK, TimesOK, NEW m \in GetMaxHeight(Writer), NEW h \in GetMaxHeight(Writer)
    PROVE  m = h /\ m \in 1 .. kMaxHeight
<1>1. PICK e \in heights : m = e.val /\ \A k \in heights : k.at <= clock => k.at <= e.at
  BY DEF GetMaxHeight, View
<1>2. PICK f \in heights : h = f.val /\ \A k \in heights : k.at <= clock => k.at <= f.at
  BY DEF GetMaxHeight, View
<1>3. e.at \in Nat /\ f.at \in Nat /\ e.at <= clock /\ f.at <= clock
  BY DEF TypeOK, TimesOK
<1>4. e.at = f.at
  BY <1>1, <1>2, <1>3
<1> QED
  BY <1>1, <1>2, <1>4 DEF TypeOK, TimesOK

\* A step of the writer's search: the readers' part of the invariant is untouched.
LEMMA WriterSearchStep ==
    ASSUME ListInv, TypeOK', UNCHANGED <<mem, seen, node>>,
           \A r \in Readers : op'[r] = op[r] /\ arg'[r] = arg[r] /\ x'[r] = x[r] /\ level'[r] = level[r],
           op'[Writer] # "wild",
           op'[Writer] = "Insert" =>
             /\ x'[Writer] \in LinkedAt(level'[Writer], clock) \cup {Head}
             /\ arg'[Writer] \in Keys /\ x'[Writer] < arg'[Writer],
           InsertOK'
    PROVE  ListInv'
<1>1. \A t \in Threads : t = Writer \/ t \in Readers
  BY DEF Threads
<1>2. Writer \in Threads /\ Writer \notin Readers
  BY ThreadAssumption DEF Threads
<1>3. NoWildRead'
  BY <1>1, <1>2 DEF NoWildRead, ListInv, Threads
<1>4. TimesOK'
  BY DEF TimesOK, ListInv, mem
<1>5. PointersOK' /\ LevelsExact' /\ LevelsNested'
  BY QuietMemory DEF ListInv
<1>6. SearchesOK'
  <2>1. ASSUME NEW t \in Threads, op'[t] \in {"Contains", "Seek", "Prev", "SeekToLast", "Insert"}
        PROVE  (/\ x[t] \in LinkedAt(level[t], View(t)) \cup {Head}
                /\ op[t] # "SeekToLast" => arg[t] \in Keys /\ x[t] < arg[t])'
    <3>1. CASE t = Writer
      BY <2>1, <3>1 DEF View, LinkedAt, mem, TypeOK, WriterOps
    <3>2. CASE t # Writer
      BY <1>1, <2>1, <3>2 DEF ListInv, SearchesOK, View, LinkedAt, mem
    <3> QED
      BY <3>1, <3>2
  <2>2. ASSUME NEW q \in Readers
        PROVE  (/\ node[q] \in LinkedAt(0, seen[q]) \cup {Nil}
                /\ op[q] = "Prev" => arg[q] = node[q])'
    BY DEF ListInv, SearchesOK, LinkedAt, mem
  <2> QED
    BY <2>1, <2>2 DEF SearchesOK
<1> QED
  BY <1>3, <1>4, <1>5, <1>6 DEF ListInv

LEMMA InsertInv ==
    ASSUME ListInv, NEW k \in Keys, Insert(k)
    PROVE  ListInv'
<1> USE DEF Insert, StartSearch
<1>1. Writer \in Threads /\ Writer \notin Readers /\ TypeOK
  BY ThreadAssumption DEF Threads, ListInv
<1>2. PICK h \in GetMaxHeight(Writer) : level' = [level EXCEPT ![Writer] = h - 1]
  OBVIOUS
<1>3. h - 1 \in Levels
  BY <1>1, StartLevel
<1>4. TypeOK'
  BY <1>1, <1>2, <1>3 DEF TypeOK, ReaderOps, WriterOps, Nodes, mem
<1>5. /\ \A r \in Readers : op'[r] = op[r] /\ arg'[r] = arg[r] /\ x'[r] = x[r] /\ level'[r] = level[r]
      /\ op'[Writer] = "Insert" /\ arg'[Writer] = k /\ x'[Writer] = Head
      /\ level'[Writer] = h - 1
  BY <1>1, <1>2 DEF TypeOK, Threads
<1>6. Head < k
  BY KeysAssumption DEF Head
<1>7. GetMaxHeight(Writer)' = GetMaxHeight(Writer) /\ born' = born /\ born[k] = 0
  BY QuietMemory DEF mem
<1>8. \A m \in GetMaxHeight(Writer) : m = h /\ m \in 1 .. kMaxHeight
  BY <1>2, OneMaxHeight DEF ListInv
<1>9. InsertOK'
  BY <1>5, <1>7, <1>8, HeightAssumption DEF InsertOK, Levels
<1> QED
  BY <1>4, <1>5, <1>6, <1>9, WriterSearchStep

\* The key being inserted is on no level before its node is made.
LEMMA UnbornUnlinked ==
    ASSUME TypeOK, PointersOK, NEW k \in Keys, born[k] = 0, NEW l \in Levels, NEW v \in Nat
    PROVE  k \notin LinkedAt(l, v)
  BY DEF PointersOK, LinkedAt, TypeOK, Store

LEMMA WriterFindGreaterOrEqual ==
    ASSUME ListInv, FindGreaterOrEqual(Writer)
    PROVE  ListInv'
<1> DEFINE k == arg[Writer]
           y == x[Writer]
           j == level[Writer]
<1>1. PICK s \in Loads(Writer, y, j) :
        /\ Acquire(Writer, s)
        /\ IF IsWild(s.val, ViewAfter(Writer, s)) THEN GoWild(Writer) /\ UNCHANGED prev
           ELSE IF KeyIsAfterNode(k, s.val) THEN GoRight(Writer, s.val) /\ UNCHANGED prev
           ELSE /\ prev' = IF op[Writer] = "Insert" THEN [prev EXCEPT ![j] = y] ELSE prev
                /\ IF j = 0 THEN UseGreaterOrEqual(Writer, s.val) ELSE Descend(Writer)
  BY DEF FindGreaterOrEqual
<1>2. /\ Writer \in Threads /\ Writer \notin Readers /\ TypeOK /\ View(Writer) = clock
      /\ clock \in Nat
  BY ThreadAssumption DEF Threads, ListInv, View, TypeOK
<1>3. op[Writer] = "Insert" /\ UNCHANGED <<mem, seen, height, i>>
  BY <1>1, <1>2 DEF FindGreaterOrEqual, Acquire, ListInv, TypeOK, WriterOps
<1>4. j \in Levels /\ y \in LinkedAt(j, clock) \cup {Head} /\ k \in Keys /\ y < k /\ born[k] = 0
  BY <1>2, <1>3 DEF ListInv, SearchesOK, InsertOK, TypeOK
<1>5. /\ s.val \in LinkedAt(j, clock) \cup {Nil}
      /\ s.val # Nil => s.val > y
      /\ \A q \in LinkedAt(j, clock) : q > y => s.val # Nil /\ s.val <= q
      /\ ~ IsWild(s.val, ViewAfter(Writer, s))
  <2>1. LET w == ViewAfter(Writer, s) IN
        /\ w \in Nat /\ clock <= w /\ w <= clock
        /\ s.val \in LinkedAt(j, w) \cup {Nil}
        /\ s.val # Nil => s.val > y
        /\ \A q \in LinkedAt(j, w) : q > y => s.val # Nil /\ s.val <= q
        /\ ~ IsWild(s.val, w)
    BY <1>2, <1>4, LoadExact DEF ListInv
  <2>2. ViewAfter(Writer, s) = clock
    BY <1>2, <2>1
  <2> QED
    BY <2>1, <2>2
<1>6. s.val \in Keys \cup {Nil} /\ \A q \in LinkedAt(j, clock) : q \in Keys
  BY <1>5 DEF LinkedAt
<1>7. Keys \subseteq Nat /\ Head \in Nat
  BY KeysAssumption DEF Head
<1>8. /\ \A l : LinkedAt(l, clock)' = LinkedAt(l, clock)
      /\ GetMaxHeight(Writer)' = GetMaxHeight(Writer)
  BY <1>3, QuietMemory DEF LinkedAt, mem
<1>9. \A m \in GetMaxHeight(Writer) :
        j < m /\ \A l \in Levels : j < l /\ l < m => PrevOK(l)
  BY <1>3 DEF ListInv, InsertOK
<1>10. CASE KeyIsAfterNode(k, s.val)
  <2>1. GoRight(Writer, s.val) /\ UNCHANGED prev /\ s.val # Nil /\ s.val < k
    BY <1>1, <1>5, <1>10 DEF KeyIsAfterNode
  <2>2. /\ \A r \in Readers : op'[r] = op[r] /\ arg'[r] = arg[r] /\ x'[r] = x[r] /\ level'[r] = level[r]
        /\ x'[Writer] = s.val /\ UNCHANGED <<op, arg, level, node, found>>
    BY <1>2, <2>1 DEF GoRight, TypeOK, Threads
  <2>3. TypeOK'
    BY <1>2, <1>3, <1>6, <2>1 DEF TypeOK, GoRight, Nodes, mem
  <2>4. InsertOK'
    BY <1>3, <2>1, <2>2, QuietInsert DEF ListInv, insert
  <2> QED
    BY <1>3, <1>4, <1>5, <2>1, <2>2, <2>3, <2>4, WriterSearchStep
<1>11. ASSUME ~ KeyIsAfterNode(k, s.val)
       PROVE  /\ prev' = [prev EXCEPT ![j] = y]
              /\ \A q \in LinkedAt(j, clock) : q > y => q > k
  <2>1. prev' = [prev EXCEPT ![j] = y]
    BY <1>1, <1>3, <1>5, <1>11
  <2>2. ASSUME NEW q \in LinkedAt(j, clock), q > y
        PROVE  q > k
    <3>1. s.val # Nil /\ s.val <= q /\ s.val \in Keys /\ q \in Keys
      BY <1>5, <1>6, <2>2
    <3>2. ~ (s.val < k)
      BY <1>11, <3>1 DEF KeyIsAfterNode
    <3>3. q # k
      BY <1>2, <1>4, UnbornUnlinked DEF ListInv
    <3>4. s.val \in Nat /\ q \in Nat /\ k \in Nat
      BY <1>4, <1>7, <3>1
    <3> QED
      BY <3>1, <3>2, <3>3, <3>4
  <2> QED
    BY <2>1, <2>2
<1>12. ASSUME ~ KeyIsAfterNode(k, s.val), arg'[Writer] = k, NEW l \in Levels,
              l = j \/ PrevOK(l)
       PROVE  PrevOK(l)'
  <2>1. prev[l] \in Nodes \cup {Wild} /\ prev \in [Levels -> Nodes \cup {Wild}]
    BY <1>2 DEF TypeOK
  <2>2. CASE l = j
    BY <1>4, <1>8, <1>11, <1>12, <2>1, <2>2 DEF PrevOK
  <2>3. CASE l # j
    BY <1>8, <1>11, <1>12, <2>1, <2>3 DEF PrevOK
  <2> QED
    BY <2>2, <2>3
<1>13. CASE ~ KeyIsAfterNode(k, s.val) /\ j # 0
  <2>1. Descend(Writer)
    BY <1>1, <1>5, <1>13
  <2>2. /\ \A r \in Readers : op'[r] = op[r] /\ arg'[r] = arg[r] /\ x'[r] = x[r] /\ level'[r] = level[r]
        /\ x' = x /\ op' = op /\ arg' = arg /\ level'[Writer] = j - 1 /\ UNCHANGED <<node, found>>
    BY <1>2, <2>1 DEF Descend, TypeOK, Threads
  <2>3. j - 1 \in Levels /\ j \in Int
    BY <1>4, <1>13, HeightAssumption DEF Levels
  <2>4. TypeOK'
    BY <1>2, <1>3, <1>4, <1>11, <1>13, <2>1, <2>3 DEF TypeOK, Descend, Nodes, mem, LinkedAt
  <2>5. LinkedAt(j, clock) \subseteq LinkedAt(j - 1, clock)
    BY <1>2, <1>4, <1>13 DEF ListInv, LevelsNested
  <2>6. \A m \in GetMaxHeight(Writer) :
          j - 1 < m /\ \A l \in Levels : j - 1 < l /\ l < m => PrevOK(l)'
    <3>1. TAKE m \in GetMaxHeight(Writer)
    <3>2. m \in Nat
      BY <1>2, OneMaxHeight DEF ListInv
    <3>3. ASSUME NEW l \in Levels, j - 1 < l, l < m PROVE l = j \/ PrevOK(l)
      BY <1>9, <2>3, <3>3 DEF Levels
    <3>4. ASSUME NEW l \in Levels, j - 1 < l, l < m PROVE PrevOK(l)'
      BY <1>12, <1>13, <2>2, <3>3, <3>4
    <3> QED
      BY <1>9, <2>3, <3>2, <3>4
  <2>7. InsertOK'
    BY <1>3, <1>4, <1>8, <2>2, <2>6 DEF InsertOK, mem
  <2> QED
    BY <1>3, <1>4, <2>2, <2>4, <2>5, <2>7, WriterSearchStep
<1>14. CASE ~ KeyIsAfterNode(k, s.val) /\ j = 0
  <2>1. UseGreaterOrEqual(Writer, s.val)
    BY <1>1, <1>5, <1>14
  <2>2. /\ op' = [op EXCEPT ![Writer] = "RaiseHeight"]
        /\ UNCHANGED <<arg, x, level, node, found>>
    BY <1>3, <2>1 DEF UseGreaterOrEqual
  <2>3. op'[Writer] = "RaiseHeight" /\ \A r \in Readers : op'[r] = op[r]
    BY <1>2, <2>2 DEF TypeOK, Threads
  <2>4. TypeOK'
    BY <1>2, <1>3, <1>4, <1>11, <1>14, <2>2, <2>3 DEF TypeOK, WriterOps, Nodes, mem, LinkedAt
  <2>5. \A m \in GetMaxHeight(Writer) : \A l \in Levels : l < m => PrevOK(l)'
    <3>1. TAKE m \in GetMaxHeight(Writer)
    <3>2. TAKE l \in Levels
    <3>3. l < m => l = j \/ PrevOK(l)
      BY <1>9, <1>14 DEF Levels
    <3> QED
      BY <1>12, <1>14, <2>2, <3>3
  <2>6. InsertOK'
    BY <1>3, <1>4, <1>8, <2>2, <2>3, <2>5 DEF InsertOK, mem
  <2> QED
    BY <1>3, <2>2, <2>3, <2>4, <2>6, WriterSearchStep
<1> QED
  BY <1>10, <1>13, <1>14

\* A step that stores: the past is as it was, and so are the readers.
LEMMA WriterStoreStep ==
    ASSUME ListInv, clock' \in {clock, clock + 1}, stores \subseteq stores',
           \A s \in stores' \ stores : s.at = clock + 1,
           UNCHANGED <<seen, arg, x, level, node>>,
           \A r \in Readers : op'[r] = op[r],
           op'[Writer] \in WriterOps \ {"wild", "Insert"}
    PROVE  /\ \A l, v : v \in 0 .. clock => LinkedAt(l, v)' = LinkedAt(l, v)
           /\ NoWildRead'
           /\ SearchesOK'
<1>1. clock \in Nat /\ Writer \notin Readers /\ \A t \in Threads : t = Writer \/ t \in Readers
  BY ThreadAssumption DEF ListInv, TypeOK, Threads
<1>2. \A l, v : v \in 0 .. clock => LinkedAt(l, v)' = LinkedAt(l, v)
  BY <1>1 DEF LinkedAt
<1>3. NoWildRead'
  BY <1>1 DEF NoWildRead, ListInv, Threads
<1>4. \A r \in Readers : seen[r] \in 0 .. clock
  BY <1>1 DEF ListInv, TypeOK, TimesOK
<1>5. SearchesOK'
  <2>1. ASSUME NEW t \in Threads, op'[t] \in {"Contains", "Seek", "Prev", "SeekToLast", "Insert"}
        PROVE  (/\ x[t] \in LinkedAt(level[t], View(t)) \cup {Head}
                /\ op[t] # "SeekToLast" => arg[t] \in Keys /\ x[t] < arg[t])'
    <3>1. CASE t = Writer
      BY <2>1, <3>1 DEF WriterOps
    <3>2. CASE t \in Readers
      <4>1. x[t] \in LinkedAt(level[t], seen[t]) \cup {Head}
        BY <1>1, <2>1, <3>2 DEF ListInv, SearchesOK, View
      <4>2. LinkedAt(level[t], seen[t]) \subseteq LinkedAt(level[t], seen[t])'
        BY DEF LinkedAt
      <4>3. (View(t) = seen[t])'
        BY <1>1, <3>2 DEF View
      <4> QED
        BY <1>1, <2>1, <3>2, <4>1, <4>2, <4>3 DEF ListInv, SearchesOK
    <3> QED
      BY <1>1, <3>1, <3>2
  <2>2. ASSUME NEW q \in Readers
        PROVE  (/\ node[q] \in LinkedAt(0, seen[q]) \cup {Nil}
                /\ op[q] = "Prev" => arg[q] = node[q])'
    BY DEF ListInv, SearchesOK, LinkedAt
  <2> QED
    BY <2>1, <2>2 DEF SearchesOK
<1> QED
  BY <1>2, <1>3, <1>5

\* A step that links nothing keeps every level as it is.
LEMMA LevelsUnchanged ==
    ASSUME ListInv, clock' \in {clock, clock + 1}, stores \subseteq stores',
           \A s \in stores' \ stores : s.at = clock + 1,
           \A l \in Levels, v \in Nat : v = clock + 1 => LinkedAt(l, v)' = LinkedAt(l, clock),
           \A l \in Levels : \A n \in LinkedAt(l, clock) \cup {Head} :
             StoresTo(n, l)' = StoresTo(n, l),
           \A l \in Levels, v \in 0 .. clock : LinkedAt(l, v)' = LinkedAt(l, v)
    PROVE  LevelsExact' /\ LevelsNested'
<1>1. clock \in Nat /\ stores \subseteq Store
  BY DEF ListInv, TypeOK
<1>2. ASSUME NEW v \in 0 .. clock', NEW l \in Levels
      PROVE  \E u \in 0 .. clock : LinkedAt(l, v)' = LinkedAt(l, u) /\ u <= v
               /\ (v <= clock => u = v) /\ (v > clock => u = clock)
               /\ (\A k \in Levels : LinkedAt(k, v)' = LinkedAt(k, u))
  <2>1. CASE v <= clock
    <3>1. v \in 0 .. clock
      BY <1>1, <2>1
    <3> QED
      BY <3>1, <1>1
  <2>2. CASE v > clock
    <3>1. v = clock + 1
      BY <1>1, <2>2
    <3>2. clock \in 0 .. clock /\ clock <= v
      BY <1>1, <3>1
    <3>3. \A k \in Levels : LinkedAt(k, v)' = LinkedAt(k, clock)
      BY <1>1, <3>1
    <3> QED
      BY <3>1, <3>2, <3>3, <2>2
  <2> QED
    BY <1>1, <2>1, <2>2
<1>3. LevelsExact'
  <2>1. SUFFICES ASSUME NEW v \in 0 .. clock', NEW l \in Levels,
                        NEW n \in LinkedAt(l, v)' \cup {Head}
                 PROVE  \E s \in StoresTo(n, l)' :
                          /\ s.at <= v
                          /\ \A u \in StoresTo(n, l)' : u.at <= v => u.at <= s.at
                          /\ s.val \in LinkedAt(l, v)' \cup {Nil}
                          /\ s.val # Nil => s.val > n
                          /\ \A k \in LinkedAt(l, v)' : k > n => s.val # Nil /\ s.val <= k
    BY DEF LevelsExact
  <2>2. PICK w \in 0 .. clock : LinkedAt(l, v)' = LinkedAt(l, w) /\ w <= v
               /\ (v <= clock => w = v) /\ (v > clock => w = clock)
    BY <1>2
  <2>3. PICK s \in StoresTo(n, l) :
          /\ s.at <= w
          /\ \A u \in StoresTo(n, l) : u.at <= w => u.at <= s.at
          /\ s.val \in LinkedAt(l, w) \cup {Nil}
          /\ s.val # Nil => s.val > n
          /\ \A k \in LinkedAt(l, w) : k > n => s.val # Nil /\ s.val <= k
    BY <2>2 DEF ListInv, LevelsExact
  <2>4. n \in LinkedAt(l, clock) \cup {Head}
    BY <1>1, <2>2, LinkedGrows
  <2>5. StoresTo(n, l)' = StoresTo(n, l) /\ \A u \in StoresTo(n, l) : u.at \in Nat /\ u.at <= clock
    BY <1>1, <2>4 DEF StoresTo, ListInv, TimesOK, Store
  <2>6. \A u \in StoresTo(n, l) : u.at <= v => u.at <= s.at
    BY <1>1, <2>2, <2>3, <2>5
  <2>7. s.at <= v
    BY <1>1, <2>2, <2>3, <2>5
  <2> QED
    BY <2>2, <2>3, <2>5, <2>6, <2>7
<1>4. LevelsNested'
  <2>1. SUFFICES ASSUME NEW v \in 0 .. clock', NEW l \in Levels \ {0}
                 PROVE  LinkedAt(l, v)' \subseteq LinkedAt(l - 1, v)'
    BY DEF LevelsNested
  <2>2. l \in Levels /\ l - 1 \in Levels
    BY HeightAssumption DEF Levels
  <2> QED
    BY <1>2, <2>2 DEF ListInv, LevelsNested
<1> QED
  BY <1>3, <1>4

\* When only the clock and max_height_ or a node's birth change, nothing is linked.
LEMMA NothingStored ==
    ASSUME ListInv, clock' \in {clock, clock + 1}, UNCHANGED stores
    PROVE  /\ \A l : LinkedAt(l, clock)' = LinkedAt(l, clock)
           /\ LevelsExact' /\ LevelsNested'
<1>1. clock \in Nat /\ stores \subseteq Store /\ \A s \in stores : s.at \in Nat /\ s.at <= clock
  BY DEF ListInv, TypeOK, TimesOK, Store
<1>2. \A l : LinkedAt(l, clock)' = LinkedAt(l, clock)
  BY <1>1 DEF LinkedAt
<1>3. \A l \in Levels, v \in Nat : v = clock + 1 => LinkedAt(l, v)' = LinkedAt(l, clock)
  BY <1>1 DEF LinkedAt
<1>4. /\ \A l \in Levels, v \in 0 .. clock : LinkedAt(l, v)' = LinkedAt(l, v)
      /\ \A n, l : StoresTo(n, l)' = StoresTo(n, l)
  BY DEF LinkedAt, StoresTo
<1>5. LevelsExact' /\ LevelsNested'
  BY <1>3, <1>4, LevelsUnchanged
<1> QED
  BY <1>2, <1>5

LEMMA RaiseHeightInv ==
    ASSUME ListInv, RaiseHeight
    PROVE  ListInv'
<1>0. \A k \in Keys : Head < k
  BY KeysAssumption DEF Head
<1> USE DEF RaiseHeight, RandomHeight, WriterAt
<1>1. /\ TypeOK /\ Writer \in Threads /\ Writer \notin Readers /\ clock \in Nat
      /\ TimesOK /\ PointersOK
  BY ThreadAssumption DEF ListInv, Threads, TypeOK
<1>2. PICK h \in 1 .. kMaxHeight, m \in GetMaxHeight(Writer) :
        /\ height' = h
        /\ prev' = [l \in Levels |-> IF l \in m .. h - 1 THEN Head ELSE prev[l]]
        /\ IF h > m
           THEN /\ clock' = clock + 1
                /\ heights' = heights \cup {[at |-> clock + 1, val |-> h]}
           ELSE UNCHANGED <<clock, heights>>
  OBVIOUS
<1>3. UNCHANGED <<stores, born, seen, arg, x, level, node, found, i>>
  OBVIOUS
<1>4. m \in 1 .. kMaxHeight /\ \A q \in GetMaxHeight(Writer) : q = m
  BY <1>1, OneMaxHeight
<1>5. clock' \in {clock, clock + 1} /\ clock' \in Nat
  BY <1>1, <1>2
<1>6. /\ op[Writer] = "RaiseHeight" /\ op'[Writer] = "NewNode"
      /\ \A r \in Readers : op'[r] = op[r] /\ op' \in [Threads -> ReaderOps \cup WriterOps]
  BY <1>1 DEF TypeOK, Threads, WriterOps
<1>7. heights' \subseteq [at: Nat, val: 1 .. kMaxHeight]
  BY <1>1, <1>2 DEF TypeOK
<1>8. TypeOK'
  <2>1. prev' \in [Levels -> Nodes \cup {Wild}]
    BY <1>1, <1>2 DEF TypeOK, Nodes
  <2>2. op'[Writer] \in WriterOps /\ \A r \in Readers : op'[r] \in ReaderOps
    BY <1>1, <1>6 DEF TypeOK, WriterOps
  <2>3. op' \in [Threads -> ReaderOps \cup WriterOps]
    BY <1>1 DEF TypeOK, WriterOps
  <2> QED
    BY <1>1, <1>2, <1>3, <1>5, <1>7, <2>1, <2>2, <2>3 DEF TypeOK
<1>9. NoWildRead' /\ SearchesOK'
  BY <1>3, <1>5, <1>6, WriterStoreStep DEF WriterOps
<1>10. /\ \A l : LinkedAt(l, clock)' = LinkedAt(l, clock)
       /\ LevelsExact' /\ LevelsNested'
  BY <1>3, <1>5, NothingStored
<1>11. TimesOK'
  <2>1. \A s \in stores : s.at \in Nat
    BY <1>1 DEF TypeOK, Store
  <2>2. /\ \A s \in stores : s.at <= clock'
        /\ \A k \in Keys : born[k] <= clock'
        /\ \A r \in Readers : seen[r] <= clock'
    BY <1>1, <1>5, <2>1 DEF TimesOK, TypeOK
  <2>3. \A e \in heights : e.at \in Nat /\ e.at <= clock
    BY <1>1 DEF TimesOK, TypeOK
  <2>4. /\ \A e \in heights' : e.at <= clock'
        /\ \A e, f \in heights' : e.at = f.at => e = f
    BY <1>1, <1>2, <2>3 DEF TimesOK
  <2> QED
    BY <1>1, <1>3, <2>2, <2>4 DEF TimesOK
<1>12. \A q \in GetMaxHeight(Writer)' : h <= q /\ m <= q
  <2>0. h \in Int /\ m \in Int
    BY <1>4
  <2>1. ASSUME h > m, NEW q \in GetMaxHeight(Writer)' PROVE q = h
    <3>1. PICK e \in heights' : q = e.val /\ \A k \in heights' : k.at <= clock' => k.at <= e.at
      BY <2>1 DEF GetMaxHeight, View
    <3>2. \A f \in heights : f.at \in Nat /\ f.at <= clock
      BY <1>1 DEF TimesOK, TypeOK
    <3>3. clock' = clock + 1 /\ heights' = heights \cup {[at |-> clock + 1, val |-> h]}
      BY <1>2, <2>1
    <3>4. clock + 1 <= e.at
      <4> DEFINE f == [at |-> clock + 1, val |-> h]
      <4>1. f \in heights' /\ f.at = clock + 1 /\ f.at <= clock'
        BY <1>1, <3>3
      <4> QED
        BY <3>1, <4>1
    <3>5. e \notin heights
      BY <1>1, <3>2, <3>4
    <3> QED
      BY <3>1, <3>3, <3>5
  <2>2. ASSUME ~ (h > m), NEW q \in GetMaxHeight(Writer)' PROVE q = m
    <3>1. GetMaxHeight(Writer)' = GetMaxHeight(Writer)
      BY <1>2, <2>2 DEF GetMaxHeight, View
    <3> QED
      BY <1>4, <2>2, <3>1
  <2>3. TAKE q \in GetMaxHeight(Writer)'
  <2> QED
    BY <2>0, <2>1, <2>2
<1>13. PointersOK'
  <2>1. \A s \in stores : s.val \in Keys => s.level < m
    BY <1>1, <1>2 DEF PointersOK
  <2>2. \A s \in stores : s.level \in Int
    BY <1>1 DEF TypeOK, Store, Levels
  <2>3. \A q \in GetMaxHeight(Writer)' : q \in Int
    BY <1>7 DEF GetMaxHeight
  <2>4. \A q \in GetMaxHeight(Writer)' : \A s \in stores : s.val \in Keys => s.level < q
    BY <1>4, <1>12, <2>1, <2>2, <2>3
  <2> QED
    BY <1>1, <1>3, <2>4 DEF PointersOK
<1>14. InsertOK'
  <2>1. arg[Writer] \in Keys /\ born[arg[Writer]] = 0
    BY <1>6 DEF ListInv, InsertOK
  <2>2. ASSUME NEW l \in Levels, l < h PROVE PrevOK(l)'
    <3>1. CASE l < m
      <4>1. PrevOK(l) /\ prev'[l] = prev[l]
        BY <1>2, <1>4, <1>6, <3>1 DEF ListInv, InsertOK, Levels
      <4> QED
        BY <1>3, <1>10, <4>1 DEF PrevOK
    <3>2. CASE ~ (l < m)
      <4>1. prev'[l] = Head
        BY <1>2, <1>4, <2>2, <3>2 DEF Levels
      <4>2. LinkedAt(l, clock) = {}
        BY <1>1, <1>2, <3>2 DEF PointersOK, LinkedAt
      <4>3. Head < arg[Writer]
        BY <1>0, <2>1
      <4> QED
        BY <1>3, <1>10, <4>1, <4>2, <4>3 DEF PrevOK
    <3> QED
      BY <3>1, <3>2
  <2> QED
    BY <1>2, <1>3, <1>6, <1>12, <2>1, <2>2 DEF InsertOK
<1> QED
  BY <1>8, <1>9, <1>10, <1>11, <1>13, <1>14 DEF ListInv

\* The writer moves from one step of Insert to the next.
LEMMA WriterOp ==
    ASSUME TypeOK, NEW o \in WriterOps, op' = [op EXCEPT ![Writer] = o]
    PROVE  /\ op' \in [Threads -> ReaderOps \cup WriterOps]
           /\ op'[Writer] = o
           /\ \A r \in Readers : op'[r] = op[r] /\ op'[r] \in ReaderOps
  BY ThreadAssumption DEF TypeOK, Threads

LEMMA NewNodeInv ==
    ASSUME ListInv, NewNode
    PROVE  ListInv'
<1> DEFINE k == arg[Writer]
<1>1. /\ op[Writer] = "NewNode" /\ op' = [op EXCEPT ![Writer] = "OwnNext"]
      /\ clock' = clock + 1
      /\ born' = [born EXCEPT ![k] = clock + 1]
      /\ i' = 0
      /\ UNCHANGED <<stores, heights, seen, arg, x, level, node, found, prev, height>>
  BY DEF NewNode, WriterAt
<1>2. /\ TypeOK /\ Writer \in Threads /\ Writer \notin Readers /\ clock \in Nat
      /\ TimesOK /\ PointersOK
  BY ThreadAssumption DEF ListInv, Threads, TypeOK
<1>3. k \in Keys /\ born[k] = 0 /\ \A l \in Levels : l < height => PrevOK(l)
  BY <1>1 DEF ListInv, InsertOK
<1>4. /\ op' \in [Threads -> ReaderOps \cup WriterOps] /\ op'[Writer] = "OwnNext"
      /\ op'[Writer] \in WriterOps
      /\ \A r \in Readers : op'[r] = op[r] /\ op'[r] \in ReaderOps
  BY <1>1, <1>2, WriterOp DEF WriterOps
<1>5. born'[k] = clock + 1 /\ \A q \in Keys : q # k => born'[q] = born[q]
  BY <1>1, <1>2, <1>3 DEF TypeOK
<1>6. TypeOK'
  <2>1. clock' \in Nat /\ born' \in [Keys -> Nat] /\ i' \in Nat
    BY <1>1, <1>2, <1>3 DEF TypeOK
  <2> QED
    BY <1>1, <1>2, <1>4, <2>1 DEF TypeOK
<1>7. NoWildRead' /\ SearchesOK'
  BY <1>1, <1>4, WriterStoreStep DEF WriterOps
<1>8. /\ \A l : LinkedAt(l, clock)' = LinkedAt(l, clock)
      /\ LevelsExact' /\ LevelsNested'
  BY <1>1, NothingStored
<1>9. \A s \in stores : s.at \in Nat /\ s.at <= clock
  BY <1>2 DEF TypeOK, Store, TimesOK
<1>10. \A e \in heights : e.at \in Nat /\ e.at <= clock
  BY <1>2 DEF TimesOK, TypeOK
<1>11. TimesOK'
  <2>1. /\ \A q \in Keys : born'[q] <= clock'
        /\ \A r \in Readers : seen[r] <= clock'
    BY <1>1, <1>2, <1>5 DEF TimesOK, TypeOK
  <2> QED
    BY <1>1, <1>2, <1>9, <1>10, <2>1 DEF TimesOK
<1>12. GetMaxHeight(Writer)' = GetMaxHeight(Writer)
  <2>1. \A e \in heights : e.at <= clock' /\ e.at <= clock
    BY <1>1, <1>2, <1>10
  <2> QED
    BY <1>1, <2>1 DEF GetMaxHeight, View
<1>13. PointersOK'
  <2>1. \A s \in stores : s.val # k /\ s.node # k
    BY <1>2, <1>3 DEF PointersOK
  <2>2. \A s \in stores : s.val \in Keys => born'[s.val] = born[s.val]
    BY <1>5, <2>1
  <2>3. \A s \in stores : s.node \in Keys => born'[s.node] = born[s.node]
    BY <1>5, <2>1
  <2> QED
    BY <1>1, <1>2, <1>12, <2>2, <2>3 DEF PointersOK
<1>14. InsertOK'
  <2>1. \A l : PrevOK(l) => PrevOK(l)'
    BY <1>1, <1>8 DEF PrevOK
  <2>2. \A l \in Levels : k \notin LinkedAt(l, clock)
    BY <1>2, <1>3, UnbornUnlinked
  <2>3. \A l : StoresTo(k, l)' = {}
    BY <1>1, <1>2, <1>3 DEF StoresTo, PointersOK
  <2>4. height \in Nat /\ height > 0 /\ \A m \in GetMaxHeight(Writer) : height <= m
    BY <1>1, <1>2 DEF TypeOK, ListInv, InsertOK
  <2>5. born'[k] \in 1 .. clock'
    BY <1>1, <1>2, <1>5
  <2>6. \A l \in Levels : ~ (l < 0) /\ (l \in 0 .. height - 1 => l < height)
    BY <2>4 DEF Levels
  <2> QED
    BY <1>1, <1>3, <1>4, <1>8, <1>12, <2>1, <2>2, <2>3, <2>4, <2>5, <2>6 DEF InsertOK
<1> QED
  BY <1>6, <1>7, <1>8, <1>11, <1>13, <1>14 DEF ListInv

\* What a store by the writer does to times and to max_height_.
LEMMA StoreTimes ==
    ASSUME ListInv, NEW e \in Store, e.at = clock + 1, stores' = stores \cup {e},
           clock' = clock + 1, UNCHANGED <<heights, born, seen>>
    PROVE  /\ TimesOK'
           /\ GetMaxHeight(Writer)' = GetMaxHeight(Writer)
           /\ \A s \in stores : s.at \in Nat /\ s.at <= clock
<1>1. clock \in Nat /\ TypeOK /\ TimesOK
  BY DEF ListInv, TypeOK
<1>2. \A s \in stores : s.at \in Nat /\ s.at <= clock
  BY <1>1 DEF TypeOK, Store, TimesOK
<1>3. \A f \in heights : f.at \in Nat /\ f.at <= clock
  BY <1>1 DEF TypeOK, TimesOK
<1>4. \A f \in heights : f.at <= clock'
  BY <1>1, <1>3
<1>5. GetMaxHeight(Writer)' = GetMaxHeight(Writer)
  BY <1>3, <1>4 DEF GetMaxHeight, View
<1>6. \A s \in stores' : s.at <= clock'
  BY <1>1, <1>2
<1>7. \A s, u \in stores' : s.node = u.node /\ s.level = u.level /\ s.at = u.at => s = u
  BY <1>1, <1>2 DEF TimesOK
<1>8. /\ \A q \in Keys : born[q] <= clock'
      /\ \A r \in Readers : seen[r] <= clock'
  BY <1>1 DEF TimesOK, TypeOK
<1> QED
  BY <1>1, <1>2, <1>4, <1>5, <1>6, <1>7, <1>8 DEF TimesOK

LEMMA OwnNextInv ==
    ASSUME ListInv, OwnNext
    PROVE  ListInv'
<1>0. Keys \subseteq Nat /\ Head \in Nat /\ Head \notin Keys /\ Nil \notin Keys
  BY KeyFacts
<1> DEFINE k == arg[Writer]
           n == prev[i]
<1>1. PICK s \in Loads(Writer, n, i) : NoBarrier_SetNext(k, i, s.val)
  BY DEF OwnNext
<1> DEFINE e == [node |-> k, level |-> i, at |-> clock + 1, val |-> s.val, rel |-> FALSE]
<1>2. /\ op[Writer] = "OwnNext" /\ op' = [op EXCEPT ![Writer] = "PrevNext"]
      /\ clock' = clock + 1 /\ stores' = stores \cup {e}
      /\ UNCHANGED <<heights, born, seen, arg, x, level, node, found, prev, height, i>>
  BY <1>1 DEF OwnNext, WriterAt, NoBarrier_SetNext, insert
<1>3. /\ TypeOK /\ Writer \in Threads /\ Writer \notin Readers /\ clock \in Nat
      /\ TimesOK /\ PointersOK /\ View(Writer) = clock
  BY ThreadAssumption DEF ListInv, Threads, TypeOK, View
<1>4. /\ op' \in [Threads -> ReaderOps \cup WriterOps] /\ op'[Writer] = "PrevNext"
      /\ op'[Writer] \in WriterOps
      /\ \A r \in Readers : op'[r] = op[r] /\ op'[r] \in ReaderOps
  BY <1>2, <1>3, WriterOp DEF WriterOps
<1>5. i \in Levels
  <2>1. i < height
    BY <1>2 DEF ListInv, InsertOK
  <2>2. i \in Nat /\ height \in 1 .. kMaxHeight
    BY <1>3 DEF TypeOK
  <2> QED
    BY <2>1, <2>2, HeightAssumption DEF Levels
<1>6. /\ k \in Keys /\ born[k] \in 1 .. clock /\ i < height
      /\ \A l \in Levels :
           /\ l < i => k \in LinkedAt(l, clock)
           /\ l >= i => k \notin LinkedAt(l, clock)
           /\ l \in i .. height - 1 => PrevOK(l)
           /\ l > i \/ l = i => StoresTo(k, l) = {}
      /\ \A m \in GetMaxHeight(Writer) : height <= m
  BY <1>2 DEF ListInv, InsertOK
<1>7. /\ PrevOK(i) /\ k \notin LinkedAt(i, clock) /\ StoresTo(k, i) = {}
      /\ i \in Int /\ height \in Int
  BY <1>3, <1>5, <1>6 DEF Levels, TypeOK
<1>8. /\ s.val \in LinkedAt(i, clock) \cup {Nil}
      /\ s.val # Nil => s.val > n
      /\ \A q \in LinkedAt(i, clock) : q > n => s.val # Nil /\ s.val <= q
  <2>1. LET w == ViewAfter(Writer, s) IN
        /\ w \in Nat /\ clock <= w /\ w <= clock
        /\ s.val \in LinkedAt(i, w) \cup {Nil}
        /\ s.val # Nil => s.val > n
        /\ \A q \in LinkedAt(i, w) : q > n => s.val # Nil /\ s.val <= q
    BY <1>1, <1>3, <1>5, <1>7, LoadExact DEF ListInv, PrevOK
  <2>2. ViewAfter(Writer, s) = clock
    BY <1>3, <2>1
  <2> QED
    BY <2>1, <2>2
<1>9. s.val \in Keys \cup {Nil}
  BY <1>8 DEF LinkedAt
<1>10. e \in Store
  BY <1>3, <1>5, <1>6, <1>9 DEF Store, Nodes
<1>11. TypeOK'
  <2>1. clock' \in Nat /\ stores \subseteq Store
    BY <1>2, <1>3 DEF TypeOK
  <2>2. stores' \subseteq Store
    BY <1>2, <1>10, <2>1, Zenon
  <2> QED
    BY <1>2, <1>3, <1>4, <2>1, <2>2 DEF TypeOK
<1>12. /\ TimesOK' /\ GetMaxHeight(Writer)' = GetMaxHeight(Writer)
       /\ \A u \in stores : u.at \in Nat /\ u.at <= clock
  BY <1>2, <1>10, StoreTimes
<1>13. /\ NoWildRead' /\ SearchesOK'
       /\ \A l, v : v \in 0 .. clock => LinkedAt(l, v)' = LinkedAt(l, v)
  BY <1>2, <1>4, WriterStoreStep DEF WriterOps
<1>14. \A l : LinkedAt(l, clock)' = LinkedAt(l, clock)
  <2>1. TAKE l
  <2>2. ASSUME NEW q \in LinkedAt(l, clock) PROVE q \in LinkedAt(l, clock)'
    <3>1. PICK u \in stores : u.level = l /\ u.val = q
      BY DEF LinkedAt
    <3>2. u \in stores' /\ u.at <= clock'
      BY <1>2, <1>3, <1>12
    <3> QED
      BY <3>1, <3>2 DEF LinkedAt
  <2>3. ASSUME NEW q \in LinkedAt(l, clock)' PROVE q \in LinkedAt(l, clock)
    <3>1. PICK u \in stores' : u.level = l /\ u.val = q /\ q \in Keys
      BY DEF LinkedAt
    <3>2. CASE u = e
      <4>1. l = i /\ s.val = q /\ q # Nil
        BY <1>0, <3>1, <3>2
      <4> QED
        BY <1>8, <4>1
    <3>3. CASE u \in stores
      BY <1>12, <3>1, <3>3 DEF LinkedAt
    <3> QED
      BY <1>2, <3>2, <3>3
  <2> QED
    BY <2>2, <2>3
<1>15. \A l \in Levels, v \in Nat : v = clock + 1 => LinkedAt(l, v)' = LinkedAt(l, clock)
  <2>1. \A l, v : v = clock' => LinkedAt(l, v)' = LinkedAt(l, clock)'
    BY DEF LinkedAt
  <2> QED
    BY <1>2, <1>14, <2>1
<1>16. \A l \in Levels : \A q \in LinkedAt(l, clock) \cup {Head} : StoresTo(q, l)' = StoresTo(q, l)
  <2>1. \A q, l : q # k \/ l # i => StoresTo(q, l)' = StoresTo(q, l)
    BY <1>2 DEF StoresTo
  <2> QED
    BY <1>6, <1>7, <2>1, KeysAssumption DEF Head
<1>17. LevelsExact' /\ LevelsNested'
  BY <1>2, <1>13, <1>15, <1>16, LevelsUnchanged
<1>18. s.val # Nil => s.val > k
  <2>1. s.val # Nil => s.val \in LinkedAt(i, clock) /\ s.val > n
    BY <1>8
  <2> QED
    BY <1>7, <2>1 DEF PrevOK
<1>19. PointersOK'
  <2>1. s.val \in Keys => born[s.val] \in 1 .. clock + 1
    <3>1. SUFFICES ASSUME s.val \in Keys PROVE born[s.val] \in 1 .. clock + 1
      OBVIOUS
    <3>2. PICK u \in stores : u.val = s.val
      BY <1>8, <3>1, PointerAssumption, KeysAssumption DEF LinkedAt
    <3>3. born[s.val] \in 1 .. u.at /\ u.at \in Nat /\ u.at <= clock
      BY <1>3, <1>12, <3>1, <3>2 DEF PointersOK
    <3> QED
      BY <1>3, <3>3
  <2>2. s.val \in Keys => s.val > k
    BY <1>18, PointerAssumption, KeysAssumption
  <2>3. \A u \in stores : u.val = k /\ u.level = i => FALSE
    BY <1>3, <1>6, <1>7, <1>12 DEF LinkedAt
  <2>4. s.val # k
    BY <1>7, <1>8, <1>6, PointerAssumption, KeysAssumption
  <2>5. \A m \in GetMaxHeight(Writer) : m \in Int /\ i < m
    <3>1. TAKE m \in GetMaxHeight(Writer)
    <3>2. m \in 1 .. kMaxHeight
      BY <1>3, OneMaxHeight
    <3> QED
      BY <1>6, <1>7, <3>2
  <2>6. e.node = k /\ e.level = i /\ e.at = clock + 1 /\ e.val = s.val /\ e.rel = FALSE
    OBVIOUS
  <2>7. \A u \in stores' : u.val \in Keys => u.val > u.node /\ born[u.val] \in 1 .. u.at
    BY <1>2, <1>3, <2>1, <2>2, <2>6 DEF PointersOK
  <2>8. \A u \in stores' : u.node \in Keys => born[u.node] > 0
    BY <1>2, <1>3, <1>6, <2>6 DEF PointersOK
  <2>9. ASSUME NEW a \in stores', ~ a.rel, NEW b \in stores', b.val = a.node, b.level = a.level
        PROVE  a.at < b.at
    <3>1. CASE a = e
      BY <1>2, <2>3, <2>4, <2>6, <2>9, <3>1
    <3>2. CASE a # e /\ b = e
      BY <1>2, <1>3, <1>12, <2>6, <2>9, <3>2
    <3>3. CASE a # e /\ b # e
      BY <1>2, <1>3, <2>9, <3>3 DEF PointersOK
    <3> QED
      BY <3>1, <3>2, <3>3
  <2>10. \A a \in stores' : ~ a.rel => a.node \in Keys
    BY <1>2, <1>3, <1>6, <2>6 DEF PointersOK
  <2>11. \A m \in GetMaxHeight(Writer) : \A u \in stores' : u.val \in Keys => u.level < m
    BY <1>2, <1>3, <2>5, <2>6 DEF PointersOK
  <2> QED
    BY <1>2, <1>12, <2>7, <2>8, <2>9, <2>10, <2>11 DEF PointersOK
<1>20. InsertOK'
  <2>1. \A l : PrevOK(l) => PrevOK(l)'
    BY <1>2, <1>14 DEF PrevOK
  <2>2. \A l \in Levels : l > i => StoresTo(k, l)' = {}
    <3>1. \A l : l # i => StoresTo(k, l)' = StoresTo(k, l)
      BY <1>2 DEF StoresTo
    <3> QED
      BY <1>6, <1>7, <3>1 DEF Levels
  <2>3. OwnNextOK(i)'
    <3>1. StoresTo(k, i)' = {e}
      BY <1>2, <1>7 DEF StoresTo
    <3>2. e.at <= e.at /\ e.val = s.val
      BY <1>3
    <3>3. \A q \in LinkedAt(i, clock) : q > k => s.val # Nil /\ s.val <= q
      <4>1. k \in Nat /\ n \in Nat /\ n < k /\ \A q \in LinkedAt(i, clock) : q \in Nat
        BY <1>0, <1>6, <1>7 DEF PrevOK, LinkedAt
      <4> QED
        BY <1>8, <4>1
    <3> QED
      BY <1>2, <1>8, <1>14, <1>18, <3>1, <3>2, <3>3 DEF OwnNextOK
  <2>4. born[k] \in 1 .. clock'
    BY <1>2, <1>3, <1>6
  <2> QED
    BY <1>2, <1>4, <1>6, <1>7, <1>12, <1>14, <2>1, <2>2, <2>3, <2>4 DEF InsertOK
<1> QED
  BY <1>11, <1>12, <1>13, <1>17, <1>19, <1>20 DEF ListInv

LEMMA PrevNextInv ==
    ASSUME ListInv, PrevNext
    PROVE  ListInv'
<1>0. Keys \subseteq Nat /\ Head \in Nat /\ Head \notin Keys /\ Nil \notin Keys
  BY KeyFacts
<1> DEFINE k == arg[Writer]
           n == prev[i]
           o == IF i + 1 < height THEN "OwnNext" ELSE "none"
           e == [node |-> n, level |-> i, at |-> clock + 1, val |-> k, rel |-> TRUE]
<1>1. /\ op[Writer] = "PrevNext" /\ op' = [op EXCEPT ![Writer] = o]
      /\ clock' = clock + 1 /\ stores' = stores \cup {e} /\ i' = i + 1
      /\ UNCHANGED <<heights, born, seen, arg, x, level, node, found, prev, height>>
  BY DEF PrevNext, WriterAt, SetNext
<1>2. e.node = n /\ e.level = i /\ e.at = clock + 1 /\ e.val = k /\ e.rel = TRUE
  OBVIOUS
<1>3. /\ TypeOK /\ Writer \in Threads /\ Writer \notin Readers /\ clock \in Nat
      /\ TimesOK /\ PointersOK
  BY ThreadAssumption DEF ListInv, Threads, TypeOK
<1>4. /\ op' \in [Threads -> ReaderOps \cup WriterOps] /\ op'[Writer] = o
      /\ op'[Writer] \in WriterOps /\ o \in {"OwnNext", "none"}
      /\ \A r \in Readers : op'[r] = op[r] /\ op'[r] \in ReaderOps
  BY <1>1, <1>3, WriterOp DEF WriterOps
<1>5. /\ k \in Keys /\ born[k] \in 1 .. clock /\ i < height
      /\ \A l \in Levels :
           /\ l < i => k \in LinkedAt(l, clock)
           /\ l >= i => k \notin LinkedAt(l, clock)
           /\ l \in i .. height - 1 => PrevOK(l)
           /\ l > i => StoresTo(k, l) = {}
      /\ \A m \in GetMaxHeight(Writer) : height <= m
      /\ OwnNextOK(i)
  BY <1>1 DEF ListInv, InsertOK
<1>6. i \in Levels /\ i \in Nat /\ height \in Nat
  <2>1. i \in Nat /\ height \in 1 .. kMaxHeight
    BY <1>3 DEF TypeOK
  <2> QED
    BY <1>5, <2>1, HeightAssumption DEF Levels
<1>7. /\ n \in LinkedAt(i, clock) \cup {Head} /\ n < k
      /\ \A q \in LinkedAt(i, clock) : q > n => q > k
      /\ k \notin LinkedAt(i, clock)
      /\ n \in Nat /\ k \in Nat /\ n \in Nodes /\ n # k
  <2>1. PrevOK(i) /\ k \notin LinkedAt(i, clock)
    BY <1>5, <1>6
  <2>2. n \in LinkedAt(i, clock) \cup {Head} /\ n < k /\ \A q \in LinkedAt(i, clock) : q > n => q > k
    BY <2>1 DEF PrevOK
  <2>3. n \in Nat /\ k \in Nat /\ n \in Nodes
    BY <1>0, <1>5, <2>2 DEF LinkedAt, Nodes
  <2> QED
    BY <2>1, <2>2, <2>3
<1>8. e \in Store
  BY <1>3, <1>5, <1>6, <1>7 DEF Store
<1>9. TypeOK'
  <2>1. clock' \in Nat /\ i' \in Nat /\ stores \subseteq Store
    BY <1>1, <1>3, <1>6 DEF TypeOK
  <2>2. stores' \subseteq Store
    BY <1>1, <1>8, <2>1, Zenon
  <2> QED
    BY <1>1, <1>3, <1>4, <2>1, <2>2 DEF TypeOK
<1>10. /\ TimesOK' /\ GetMaxHeight(Writer)' = GetMaxHeight(Writer)
       /\ \A u \in stores : u.at \in Nat /\ u.at <= clock
  BY <1>1, <1>8, StoreTimes
<1>11. /\ NoWildRead' /\ SearchesOK'
       /\ \A l, v : v \in 0 .. clock => LinkedAt(l, v)' = LinkedAt(l, v)
  BY <1>1, <1>4, WriterStoreStep
<1>12. \A l : l # i => LinkedAt(l, clock)' = LinkedAt(l, clock)
  <2>1. TAKE l
  <2>2. HAVE l # i
  <2>3. ASSUME NEW q \in LinkedAt(l, clock) PROVE q \in LinkedAt(l, clock)'
    <3>1. PICK u \in stores : u.level = l /\ u.val = q
      BY DEF LinkedAt
    <3>2. u \in stores' /\ u.at <= clock'
      BY <1>1, <1>3, <1>10
    <3> QED
      BY <3>1, <3>2 DEF LinkedAt
  <2>4. ASSUME NEW q \in LinkedAt(l, clock)' PROVE q \in LinkedAt(l, clock)
    <3>1. PICK u \in stores' : u.level = l /\ u.val = q /\ q \in Keys
      BY DEF LinkedAt
    <3>2. u \in stores
      BY <1>1, <1>2, <2>2, <3>1
    <3> QED
      BY <1>10, <3>1, <3>2 DEF LinkedAt
  <2> QED
    BY <2>3, <2>4
<1>13. e \in stores' /\ e.at <= clock'
  BY <1>1, <1>2, <1>3
<1> DEFINE L == LinkedAt(i, clock)
<1>14. \A j, v : j = i /\ v = clock' => LinkedAt(j, v)' = L \cup {k}
  <2>1. TAKE j, v
  <2>2. HAVE j = i /\ v = clock'
  <2>3. ASSUME NEW q \in L \cup {k} PROVE q \in LinkedAt(j, v)'
    <3>1. CASE q = k
      BY <1>2, <1>5, <1>13, <2>2, <3>1 DEF LinkedAt
    <3>2. CASE q \in L
      BY <1>1, <1>3, <1>10, <2>2, <3>2 DEF LinkedAt
    <3> QED
      BY <2>3, <3>1, <3>2
  <2>4. ASSUME NEW q \in LinkedAt(j, v)' PROVE q \in L \cup {k}
    <3>1. PICK u \in stores' : u.level = i /\ u.val = q /\ q \in Keys
      BY <2>2 DEF LinkedAt
    <3>2. CASE u = e
      BY <1>2, <3>1, <3>2
    <3>3. CASE u \in stores
      BY <1>10, <3>1, <3>3 DEF LinkedAt
    <3> QED
      BY <1>1, <3>2, <3>3
  <2> QED
    BY <2>3, <2>4
<1>15. \A l, v : l # i /\ v = clock' => LinkedAt(l, v)' = LinkedAt(l, clock)
  <2>1. \A l, v : v = clock' => LinkedAt(l, v)' = LinkedAt(l, clock)'
    BY DEF LinkedAt
  <2> QED
    BY <1>12, <2>1
<1>16. \A q, l : StoresTo(q, l)' = StoresTo(q, l) \cup (IF q = n /\ l = i THEN {e} ELSE {})
  BY <1>1, <1>2 DEF StoresTo
<1>17. \A q, l : \A u \in StoresTo(q, l) : u.at \in Nat /\ u.at <= clock
  BY <1>10 DEF StoresTo
<1> HIDE DEF e
<1>18. LevelsExact'
  <2>1. SUFFICES ASSUME NEW v \in 0 .. clock', NEW l \in Levels,
                        NEW p \in LinkedAt(l, v)' \cup {Head}
                 PROVE  \E s \in StoresTo(p, l)' :
                          /\ s.at <= v
                          /\ \A u \in StoresTo(p, l)' : u.at <= v => u.at <= s.at
                          /\ s.val \in LinkedAt(l, v)' \cup {Nil}
                          /\ s.val # Nil => s.val > p
                          /\ \A q \in LinkedAt(l, v)' : q > p => s.val # Nil /\ s.val <= q
    BY DEF LevelsExact
  <2>2. v \in Nat
    BY <1>1, <1>3
  <2>3. CASE v <= clock
    <3>1. v \in 0 .. clock /\ LinkedAt(l, v)' = LinkedAt(l, v)
      BY <1>3, <1>11, <2>2, <2>3
    <3>2. PICK s \in StoresTo(p, l) :
            /\ s.at <= v
            /\ \A u \in StoresTo(p, l) : u.at <= v => u.at <= s.at
            /\ s.val \in LinkedAt(l, v) \cup {Nil}
            /\ s.val # Nil => s.val > p
            /\ \A q \in LinkedAt(l, v) : q > p => s.val # Nil /\ s.val <= q
      BY <3>1 DEF ListInv, LevelsExact
    <3>3. s \in StoresTo(p, l)'
      BY <1>16
    <3>4. ~ (e.at <= v)
      BY <1>2, <1>3, <2>2, <2>3
    <3>5. \A u \in StoresTo(p, l)' : u.at <= v => u.at <= s.at
      BY <1>16, <3>2, <3>4
    <3> QED
      BY <3>1, <3>2, <3>3, <3>5
  <2>4. CASE v > clock
    <3>1. v = clock' /\ v = clock + 1
      BY <1>1, <1>3, <2>2, <2>4
    <3>2. clock \in 0 .. clock
      BY <1>3
    <3>3. \A a, b : \A u \in StoresTo(a, b) : u.at <= v /\ u.at <= clock
      BY <1>3, <1>17, <3>1
    <3>4. ASSUME p \in LinkedAt(l, clock) \cup {Head}
          PROVE  \E s \in StoresTo(p, l) :
                   /\ s.at <= v
                   /\ \A u \in StoresTo(p, l) : u.at <= s.at
                   /\ s.val \in LinkedAt(l, clock) \cup {Nil}
                   /\ s.val # Nil => s.val > p
                   /\ \A q \in LinkedAt(l, clock) : q > p => s.val # Nil /\ s.val <= q
      <4>1. PICK s \in StoresTo(p, l) :
              /\ s.at <= clock
              /\ \A u \in StoresTo(p, l) : u.at <= clock => u.at <= s.at
              /\ s.val \in LinkedAt(l, clock) \cup {Nil}
              /\ s.val # Nil => s.val > p
              /\ \A q \in LinkedAt(l, clock) : q > p => s.val # Nil /\ s.val <= q
        BY <3>2, <3>4 DEF ListInv, LevelsExact
      <4> QED
        BY <3>3, <4>1
    <3>5. CASE l # i
      <4>1. LinkedAt(l, v)' = LinkedAt(l, clock)
        BY <1>15, <3>1, <3>5
      <4>2. StoresTo(p, l)' = StoresTo(p, l)
        BY <1>16, <3>5
      <4> QED
        BY <2>1, <3>4, <4>1, <4>2
    <3>6. CASE l = i
      <4>1. LinkedAt(l, v)' = L \cup {k}
        BY <1>14, <3>1, <3>6
      <4>2. p \in Nat /\ \A q \in L : q \in Nat
        BY <1>0, <1>5, <2>1, <4>1 DEF LinkedAt
      <4>3. CASE p = n
        <5>1. e \in StoresTo(p, l)' /\ \A u \in StoresTo(p, l)' : u.at <= e.at
          BY <1>2, <1>3, <1>16, <1>17, <3>6, <4>3
        <5>2. e.at <= v /\ e.val = k /\ k # Nil /\ k > p
          BY <1>0, <1>2, <1>3, <1>5, <1>7, <3>1, <4>3
        <5>3. \A q \in L \cup {k} : q > p => k <= q
          BY <1>7, <4>2, <4>3
        <5> QED
          BY <4>1, <5>1, <5>2, <5>3
      <4>4. CASE p = k
        <5>1. PICK s \in StoresTo(k, i) :
                /\ \A u \in StoresTo(k, i) : u.at <= s.at
                /\ s.val \in L \cup {Nil}
                /\ s.val # Nil => s.val > k
                /\ \A q \in L : q > k => s.val # Nil /\ s.val <= q
          BY <1>5 DEF OwnNextOK
        <5>2. StoresTo(p, l)' = StoresTo(k, i)
          BY <1>7, <1>16, <3>6, <4>4
        <5>3. ~ (k > k)
          BY <1>7
        <5> QED
          BY <3>3, <4>1, <4>4, <5>1, <5>2, <5>3
      <4>5. CASE p # n /\ p # k
        <5>1. p \in L \cup {Head} /\ StoresTo(p, l)' = StoresTo(p, l)
          BY <1>16, <2>1, <4>1, <4>5
        <5>2. PICK s \in StoresTo(p, l) :
                /\ s.at <= v
                /\ \A u \in StoresTo(p, l) : u.at <= s.at
                /\ s.val \in L \cup {Nil}
                /\ s.val # Nil => s.val > p
                /\ \A q \in L : q > p => s.val # Nil /\ s.val <= q
          BY <3>4, <3>6, <5>1
        <5>3. k > p => s.val # Nil /\ s.val <= k
          <6>1. SUFFICES ASSUME k > p PROVE n \in L /\ n > p
            BY <1>7, <4>2, <5>2
          <6>2. ~ (p > n)
            <7>1. SUFFICES ASSUME p > n PROVE FALSE
              OBVIOUS
            <7>2. p \in L
              BY <1>7, <5>1, <7>1, KeyFacts DEF Head
            <7>3. p > k
              BY <1>7, <7>1, <7>2
            <7> QED
              BY <1>7, <4>2, <6>1, <7>3
          <6>3. n > p
            BY <1>7, <4>2, <4>5, <6>2
          <6>4. n # Head
            BY <4>2, <6>3 DEF Head
          <6> QED
            BY <1>7, <6>3, <6>4
        <5> QED
          BY <4>1, <5>1, <5>2, <5>3
      <4> QED
        BY <4>3, <4>4, <4>5
    <3> QED
      BY <3>5, <3>6
  <2> QED
    BY <1>3, <2>2, <2>3, <2>4
<1>19. LevelsNested'
  <2>1. SUFFICES ASSUME NEW v \in 0 .. clock', NEW l \in Levels \ {0}
                 PROVE  LinkedAt(l, v)' \subseteq LinkedAt(l - 1, v)'
    BY DEF LevelsNested
  <2>2. l \in Levels /\ l - 1 \in Levels /\ l - 1 # l /\ v \in Nat /\ l \in Nat
    BY <1>1, <1>3, HeightAssumption DEF Levels
  <2>3. CASE v <= clock
    <3>1. v \in 0 .. clock
      BY <1>3, <2>2, <2>3
    <3> QED
      BY <1>11, <3>1 DEF ListInv, LevelsNested
  <2>4. CASE v > clock
    <3>1. v = clock' /\ clock \in 0 .. clock
      BY <1>1, <1>3, <2>2, <2>4
    <3>2. LinkedAt(l, clock) \subseteq LinkedAt(l - 1, clock)
      BY <3>1 DEF ListInv, LevelsNested
    <3>3. l = i => k \in LinkedAt(l - 1, clock)
      BY <1>5, <1>6, <2>2
    <3>4. LinkedAt(l, v)' \subseteq LinkedAt(l, clock) \cup (IF l = i THEN {k} ELSE {})
      BY <1>14, <1>15, <3>1
    <3>5. LinkedAt(l - 1, clock) \subseteq LinkedAt(l - 1, v)'
      BY <1>14, <1>15, <3>1
    <3> QED
      BY <3>2, <3>3, <3>4, <3>5
  <2> QED
    BY <1>3, <2>2, <2>3, <2>4
<1>20. PointersOK'
  <2>1. \A m \in GetMaxHeight(Writer) : m \in Int /\ i < m
    <3>1. TAKE m \in GetMaxHeight(Writer)
    <3>2. m \in 1 .. kMaxHeight
      BY <1>3, OneMaxHeight
    <3> QED
      BY <1>5, <1>6, <3>2
  <2>2. k > n /\ born[k] \in 1 .. clock + 1
    BY <1>3, <1>5, <1>7
  <2>3. n \in Keys => born[n] > 0
    <3>1. SUFFICES ASSUME n \in Keys PROVE born[n] > 0
      OBVIOUS
    <3>2. PICK u \in stores : u.val = n
      BY <1>0, <1>7, <3>1 DEF LinkedAt
    <3>3. born[n] \in 1 .. u.at /\ u.at \in Nat
      BY <1>3, <1>10, <3>1, <3>2 DEF PointersOK
    <3> QED
      BY <3>3
  <2>4. \A u \in stores' : u.val \in Keys => u.val > u.node /\ born[u.val] \in 1 .. u.at
    BY <1>1, <1>2, <1>3, <2>2 DEF PointersOK
  <2>5. \A u \in stores' : u.node \in Keys => born[u.node] > 0
    BY <1>1, <1>2, <1>3, <2>3 DEF PointersOK
  <2>6. ASSUME NEW a \in stores', ~ a.rel, NEW b \in stores', b.val = a.node, b.level = a.level
        PROVE  a.at < b.at
    <3>1. a \in stores
      BY <1>1, <1>2, <2>6
    <3>2. CASE b = e
      BY <1>2, <1>3, <1>10, <3>1, <3>2
    <3>3. CASE b \in stores
      BY <1>3, <2>6, <3>1, <3>3 DEF PointersOK
    <3> QED
      BY <1>1, <3>2, <3>3
  <2>7. \A a \in stores' : ~ a.rel => a.node \in Keys
    BY <1>1, <1>2, <1>3 DEF PointersOK
  <2>8. \A m \in GetMaxHeight(Writer) : \A u \in stores' : u.val \in Keys => u.level < m
    BY <1>1, <1>2, <1>3, <2>1 DEF PointersOK
  <2> QED
    BY <1>1, <1>10, <2>4, <2>5, <2>6, <2>7, <2>8 DEF PointersOK
<1>21. InsertOK'
  <2>1. CASE o = "none"
    BY <1>4, <2>1 DEF InsertOK
  <2>2. CASE o = "OwnNext"
    <3>1. i' < height
      BY <1>1, <1>4, <1>6, <2>2
    <3>2. ASSUME NEW l \in Levels, l < i' PROVE k \in LinkedAt(l, clock)'
      <4>1. l \in Nat /\ (l = i \/ l < i)
        BY <1>1, <1>6, <3>2 DEF Levels
      <4>2. CASE l = i
        BY <1>2, <1>5, <1>13, <4>2 DEF LinkedAt
      <4>3. CASE l < i
        BY <1>5, <1>6, <1>12, <4>1, <4>3
      <4> QED
        BY <4>1, <4>2, <4>3
    <3>3. ASSUME NEW l \in Levels, l >= i'
          PROVE  /\ l # i /\ l > i /\ k \notin LinkedAt(l, clock)'
                 /\ l \in i' .. height - 1 => PrevOK(l)'
                 /\ StoresTo(k, l)' = {}
      <4>1. l \in Nat /\ l # i /\ l > i
        BY <1>1, <1>6, <3>3 DEF Levels
      <4>2. k \notin LinkedAt(l, clock)'
        BY <1>5, <1>6, <1>12, <4>1
      <4>3. l \in i' .. height - 1 => PrevOK(l)
        BY <1>1, <1>5, <1>6, <4>1
      <4>4. PrevOK(l) => PrevOK(l)'
        BY <1>1, <1>12, <4>1 DEF PrevOK
      <4>5. StoresTo(k, l)' = {}
        BY <1>1, <1>2, <1>5, <1>7, <4>1 DEF StoresTo
      <4> QED
        BY <4>1, <4>2, <4>3, <4>4, <4>5
    <3>4. born[k] \in 1 .. clock'
      BY <1>1, <1>3, <1>5
    <3>5. \A l \in Levels : l \in i' .. height - 1 => l >= i'
      BY <1>1, <1>6 DEF Levels
    <3>6. \A l \in Levels : l > i' \/ l = i' => l >= i'
      BY <1>1, <1>6 DEF Levels
    <3> QED
      BY <1>1, <1>4, <1>5, <1>10, <2>2, <3>1, <3>2, <3>3, <3>4, <3>5, <3>6 DEF InsertOK
  <2> QED
    BY <1>4, <2>1, <2>2
<1> QED
  BY <1>9, <1>10, <1>11, <1>18, <1>19, <1>20, <1>21 DEF ListInv

(***************************************************************************)
(* The theorems.                                                           *)
(***************************************************************************)
LEMMA InitInv == Init => ListInv
<1> SUFFICES ASSUME Init PROVE ListInv
  OBVIOUS
<1> USE DEF Init
<1>1. TypeOK
  <2>1. stores \subseteq Store
    <3>1. SUFFICES ASSUME NEW s \in stores PROVE s \in Store
      OBVIOUS
    <3>2. PICK l \in Levels : s = [node |-> Head, level |-> l, at |-> 0, val |-> Nil, rel |-> TRUE]
      OBVIOUS
    <3>3. Head \in Nodes /\ 0 \in Nat /\ Nil \in Keys \cup {Nil} /\ TRUE \in BOOLEAN
      BY DEF Nodes
    <3> QED
      BY <3>2, <3>3 DEF Store
  <2>2. 0 \in Levels /\ 1 \in 1 .. kMaxHeight
    BY HeightAssumption DEF Levels
  <2>3. heights \subseteq [at: Nat, val: 1 .. kMaxHeight]
    BY <2>2
  <2> QED
    BY <2>1, <2>2, <2>3 DEF TypeOK, Nodes, ReaderOps, WriterOps, Threads
<1>2. \A s \in stores : /\ s.node = Head /\ s.level \in Levels /\ s.at = 0 /\ s.val = Nil /\ s.rel = TRUE
  OBVIOUS
<1>3. \A l, v : LinkedAt(l, v) = {}
  BY <1>2, KeyFacts DEF LinkedAt
<1>4. TimesOK
  <2>1. \A s, u \in stores : s.node = u.node /\ s.level = u.level /\ s.at = u.at => s = u
    <3>1. TAKE s, u \in stores
    <3>2. PICK l \in Levels : s = [node |-> Head, level |-> l, at |-> 0, val |-> Nil, rel |-> TRUE]
      OBVIOUS
    <3>3. PICK m \in Levels : u = [node |-> Head, level |-> m, at |-> 0, val |-> Nil, rel |-> TRUE]
      OBVIOUS
    <3> QED
      BY <3>2, <3>3
  <2> QED
    BY <1>2, <2>1 DEF TimesOK
<1>5. PointersOK
  BY <1>2, KeyFacts DEF PointersOK
<1>6. LevelsExact
  <2>1. ASSUME NEW l \in Levels
        PROVE  \E s \in StoresTo(Head, l) : s.at = 0 /\ s.val = Nil
    <3>1. [node |-> Head, level |-> l, at |-> 0, val |-> Nil, rel |-> TRUE] \in stores
      OBVIOUS
    <3> QED
      BY <3>1 DEF StoresTo
  <2>2. \A l : \A u \in StoresTo(Head, l) : u.at = 0
    BY <1>2 DEF StoresTo
  <2> QED
    BY <1>3, <2>1, <2>2 DEF LevelsExact
<1>7. LevelsNested
  BY <1>3 DEF LevelsNested
<1>8. SearchesOK /\ InsertOK /\ NoWildRead
  BY ThreadAssumption DEF SearchesOK, InsertOK, NoWildRead, Threads
<1> QED
  BY <1>1, <1>4, <1>5, <1>6, <1>7, <1>8 DEF ListInv

\* Every step of every thread keeps the invariant.
LEMMA NextInv == ListInv /\ [Next]_vars => ListInv'
<1> SUFFICES ASSUME ListInv, [Next]_vars PROVE ListInv'
  OBVIOUS
<1>1. ASSUME NEW k \in Keys, Insert(k) PROVE ListInv'
  BY <1>1, InsertInv
<1>2. CASE RaiseHeight
  BY <1>2, RaiseHeightInv
<1>3. CASE NewNode
  BY <1>3, NewNodeInv
<1>4. CASE OwnNext
  BY <1>4, OwnNextInv
<1>5. CASE PrevNext
  BY <1>5, PrevNextInv
<1>6. ASSUME NEW t \in Threads, FindGreaterOrEqual(t) PROVE ListInv'
  BY <1>6, WriterFindGreaterOrEqual, ReaderFindGreaterOrEqual DEF Threads
<1>7. ASSUME NEW r \in Readers, FindLessThan(r) PROVE ListInv'
  BY <1>7, ReaderFindLessThan
<1>8. ASSUME NEW r \in Readers, FindLast(r) PROVE ListInv'
  BY <1>8, ReaderFindLast
<1>9. ASSUME NEW r \in Readers, NEW k \in Keys, Contains(r, k) \/ Seek(r, k) PROVE ListInv'
  BY <1>9, StartQueryInv DEF Contains, Seek
<1>10. ASSUME NEW r \in Readers, SeekToLast(r) PROVE ListInv'
  BY <1>10, StartQueryInv DEF SeekToLast
<1>11. ASSUME NEW r \in Readers, Prev(r) PROVE ListInv'
  <2>1. node[r] \in Keys
    BY <1>11 DEF Prev, ListInv, TypeOK
  <2> QED
    BY <1>11, <2>1, StartQueryInv DEF Prev
<1>12. ASSUME NEW r \in Readers, IterNext(r) PROVE ListInv'
  <2>1. node[r] \in LinkedAt(0, seen[r])
    BY <1>12 DEF IterNext, ListInv, SearchesOK
  <2> QED
    BY <1>12, <2>1, ReaderStepTo DEF IterNext
<1>13. ASSUME NEW r \in Readers, SeekToFirst(r) PROVE ListInv'
  BY <1>13, ReaderStepTo DEF SeekToFirst
<1>14. ASSUME NEW r \in Readers, Synchronize(r) PROVE ListInv'
  BY <1>14, ReaderSynchronize
<1>15. CASE UNCHANGED vars
  <2>1. UNCHANGED <<mem, insert, seen, op, arg, x, level, node, found>>
    BY <1>15 DEF vars, search
  <2>2. TypeOK' /\ TimesOK' /\ NoWildRead' /\ SearchesOK'
    BY <2>1 DEF ListInv, TypeOK, TimesOK, NoWildRead, SearchesOK, LinkedAt, View, mem, insert
  <2> QED
    BY <2>1, <2>2, QuietMemory, QuietInsert DEF ListInv
<1> QED
  BY <1>1, <1>2, <1>3, <1>4, <1>5, <1>6, <1>7, <1>8, <1>9, <1>10, <1>11, <1>12, <1>13, <1>14,
     <1>15 DEF Next

\* The inductive invariant holds in every reachable state, for any number of readers,
\* keys and levels.
THEOREM ListInvariant == Spec => []ListInv
  BY InitInv, NextInv, PTL DEF Spec

\* The variables keep their types.
THEOREM TypeCorrect == Spec => []TypeOK
<1>1. ListInv => TypeOK
  BY DEF ListInv
<1> QED
  BY <1>1, ListInvariant, PTL

\* The acquire loads and release stores of Node::Next and Node::SetNext suffice: no
\* thread reads an uninitialised slot or an unpublished key.
THEOREM NoThreadGoesWild == Spec => []NoWildRead
<1>1. ListInv => NoWildRead
  BY DEF ListInv
<1> QED
  BY <1>1, ListInvariant, PTL

\* In every view every level is an exact sorted list, also in the middle of an Insert.
THEOREM LevelsCorrect == Spec => []LevelsExact
<1>1. ListInv => LevelsExact
  BY DEF ListInv
<1> QED
  BY <1>1, ListInvariant, PTL

\* In every view each level is contained in the one below, since Insert links a node from
\* the bottom up.
THEOREM LevelsAreNested == Spec => []LevelsNested
<1>1. ListInv => LevelsNested
  BY DEF ListInv
<1> QED
  BY <1>1, ListInvariant, PTL

(***************************************************************************)
(* SkipList implements OrderedSet: each step of the list is a step of the  *)
(* ordered set or changes nothing the ordered set knows of.                *)
(***************************************************************************)

\* Least and Greatest give the least and the greatest key.
LEMMA LeastIs ==
    ASSUME NEW S, S \subseteq Keys, NEW m \in S, \A j \in S : m <= j
    PROVE  Abstract!Least(S) = m
<1>1. \A k \in S : k \in Nat
  BY KeyFacts
<1>2. \A k \in S : (\A j \in S : k <= j) => k = m
  BY <1>1
<1> QED
  BY <1>2 DEF Abstract!Least

LEMMA GreatestIs ==
    ASSUME NEW S, S \subseteq Keys, NEW m \in S, \A j \in S : j <= m
    PROVE  Abstract!Greatest(S) = m
<1>1. \A k \in S : k \in Nat
  BY KeyFacts
<1>2. \A k \in S : (\A j \in S : j <= k) => k = m
  BY <1>1
<1> QED
  BY <1>2 DEF Abstract!Greatest

\* The successor a load returned is the least key after a bound.
LEMMA LeastOrNil ==
    ASSUME NEW S, S \subseteq Keys, NEW p \in S \cup {Nil},
           p # Nil => \A j \in S : p <= j, p = Nil => S = {}
    PROVE  Abstract!Least(S) = p
<1>1. CASE p = Nil
  BY <1>1 DEF Abstract!Least
<1>2. CASE p # Nil
  BY <1>2, LeastIs
<1> QED
  BY <1>1, <1>2

\* What a reader's step does to what the ordered set sees.
LEMMA ReaderSees ==
    ASSUME ListInv, NEW r \in Readers, UNCHANGED mem,
           seen' \in [Readers -> Nat], seen[r] <= seen'[r], seen'[r] <= clock,
           \A q \in Readers \ {r} : seen'[q] = seen[q]
    PROVE  LET v == LinkedAt(0, seen'[r]) IN
           /\ Snapshots' = Snapshots
           /\ v \in Abstract!Newer(r)
           /\ Views' = [Views EXCEPT ![r] = v]
<1> DEFINE v == LinkedAt(0, seen'[r])
<1>1. TypeOK /\ clock \in Nat /\ 0 \in Levels /\ stores \subseteq Store
  BY HeightAssumption DEF ListInv, TypeOK, Levels
<1>2. Snapshots' = Snapshots
  BY DEF Snapshots, LinkedAt, mem
<1>3. seen[r] \in Nat /\ seen'[r] \in Nat
  BY <1>1 DEF TypeOK
<1>4. v \in Snapshots
  BY <1>1, <1>3 DEF Snapshots
<1>5. Views[r] \subseteq v
  BY <1>1, <1>3, LinkedGrows DEF Views
<1>6. Views' = [Views EXCEPT ![r] = v]
  BY DEF Views, LinkedAt, mem
<1> QED
  BY <1>2, <1>4, <1>5, <1>6 DEF Abstract!Newer

\* A loop iteration of a reader's search that does not return is an Advance.
LEMMA SearchAdvances ==
    ASSUME ListInv, NEW r \in Readers, op[r] \notin {"none", "wild"},
           NEW s \in Loads(r, x[r], level[r]), Acquire(r, s), UNCHANGED mem,
           UNCHANGED <<op, arg, node, found>>
    PROVE  Abstract!Advance(r)
<1>1. /\ seen' \in [Readers -> Nat] /\ seen[r] <= seen'[r] /\ seen'[r] <= clock
      /\ \A q \in Readers \ {r} : seen'[q] = seen[q]
  BY ReaderAt, ReaderLoad
<1>2. LET v == LinkedAt(0, seen'[r]) IN
      /\ Snapshots' = Snapshots
      /\ v \in Abstract!Newer(r)
      /\ Views' = [Views EXCEPT ![r] = v]
  BY <1>1, ReaderSees
<1>3. ReaderOp' = ReaderOp /\ ReaderArg' = ReaderArg
  BY DEF ReaderOp, ReaderArg
<1> QED
  BY <1>2, <1>3 DEF Abstract!Advance

\* An operation that returns is a Reply if it leaves the Iterator and the answer of
\* Contains as the ordered set has them.
LEMMA ReturnReplies ==
    ASSUME ListInv, NEW r \in Readers, op[r] # "none",
           seen' \in [Readers -> Nat], seen[r] <= seen'[r], seen'[r] <= clock,
           \A q \in Readers \ {r} : seen'[q] = seen[q],
           UNCHANGED mem, Return(r),
           NEW v, v = LinkedAt(0, seen'[r]),
           node' = [node EXCEPT ![r] = Abstract!Position(v, op[r], arg[r], node[r])],
           found' = [found EXCEPT ![r] = IF op[r] = "Contains" THEN arg[r] \in v ELSE found[r]]
    PROVE  Abstract!Reply(r)
<1>1. /\ Snapshots' = Snapshots
      /\ v \in Abstract!Newer(r)
      /\ Views' = [Views EXCEPT ![r] = v]
  BY ReaderSees
<1>2. ReaderOp[r] = op[r] /\ ReaderArg[r] = arg[r]
  BY DEF ReaderOp, ReaderArg
<1>3. /\ ReaderOp' = [ReaderOp EXCEPT ![r] = "none"]
      /\ ReaderArg' = [ReaderArg EXCEPT ![r] = Nil]
  BY DEF Return, ReaderOp, ReaderArg, ListInv, TypeOK, Threads
<1> QED
  BY <1>1, <1>2, <1>3 DEF Abstract!Reply

LEMMA StartRequests ==
    ASSUME ListInv, NEW r \in Readers, NEW o, NEW k, o = "Prev" => node[r] # Nil, StartQuery(r, o, k)
    PROVE  Abstract!Request(r, o, k)
<1>1. Snapshots' = Snapshots /\ Views' = Views
  BY DEF StartQuery, Snapshots, Views, LinkedAt, mem
<1>2. /\ ReaderOp[r] = "none"
      /\ ReaderOp' = [ReaderOp EXCEPT ![r] = o]
      /\ ReaderArg' = [ReaderArg EXCEPT ![r] = k]
  BY DEF StartQuery, StartSearch, ReaderOp, ReaderArg, ListInv, TypeOK, Threads
<1> QED
  BY <1>1, <1>2 DEF Abstract!Request, StartQuery

LEMMA FindGreaterOrEqualRefines ==
    ASSUME ListInv, NEW r \in Readers, FindGreaterOrEqual(r)
    PROVE  Abstract!Advance(r) \/ Abstract!Reply(r)
<1>1. PICK s \in Loads(r, x[r], level[r]) :
        /\ Acquire(r, s)
        /\ IF IsWild(s.val, ViewAfter(r, s)) THEN GoWild(r) /\ UNCHANGED prev
           ELSE IF KeyIsAfterNode(arg[r], s.val) THEN GoRight(r, s.val) /\ UNCHANGED prev
           ELSE /\ prev' = IF op[r] = "Insert" THEN [prev EXCEPT ![level[r]] = x[r]] ELSE prev
                /\ IF level[r] = 0 THEN UseGreaterOrEqual(r, s.val) ELSE Descend(r)
  BY DEF FindGreaterOrEqual
<1>2. op[r] \in {"Contains", "Seek"} /\ UNCHANGED mem
  BY DEF FindGreaterOrEqual, ListInv, TypeOK, ReaderOps
<1>3. /\ level[r] \in Levels /\ x[r] \in LinkedAt(level[r], seen[r]) \cup {Head}
      /\ arg[r] \in Keys /\ x[r] < arg[r]
  BY <1>2, ReaderAt
<1>4. /\ seen'[r] = ViewAfter(r, s) /\ seen' \in [Readers -> Nat]
      /\ seen[r] <= seen'[r] /\ seen'[r] <= clock
      /\ \A q \in Readers \ {r} : seen'[q] = seen[q]
      /\ ~ IsWild(s.val, seen'[r])
      /\ s.val \in LinkedAt(level[r], seen'[r]) \cup {Nil}
      /\ \A k \in LinkedAt(level[r], seen'[r]) : k > x[r] => s.val # Nil /\ s.val <= k
  BY <1>1, <1>3, ReaderLoad
<1>5. CASE KeyIsAfterNode(arg[r], s.val)
  BY <1>1, <1>2, <1>4, <1>5, SearchAdvances DEF GoRight
<1>6. CASE ~ KeyIsAfterNode(arg[r], s.val) /\ level[r] # 0
  BY <1>1, <1>2, <1>4, <1>6, SearchAdvances DEF Descend
<1>7. CASE ~ KeyIsAfterNode(arg[r], s.val) /\ level[r] = 0
  <2> DEFINE v == LinkedAt(0, seen'[r])
             a == arg[r]
  <2>1. UseGreaterOrEqual(r, s.val) /\ s.val \in v \cup {Nil}
    BY <1>1, <1>4, <1>7
  <2>2. v \subseteq Keys /\ x[r] \in Nat /\ a \in Nat
    BY <1>3, KeyFacts DEF LinkedAt
  <2>3. \A k \in v : k \in Nat
    BY <2>2, KeyFacts
  <2>4. s.val = Nil \/ (s.val \in v /\ s.val \in Nat /\ s.val >= a)
    BY <1>7, <2>1, <2>2, <2>3 DEF KeyIsAfterNode
  <2>5. \A k \in v : k >= a => s.val # Nil /\ s.val <= k
    BY <1>3, <1>4, <1>7, <2>2, <2>3
  <2>6. Abstract!Least({k \in v : k >= a}) = s.val
    <3>1. s.val \in {k \in v : k >= a} \cup {Nil}
      BY <2>4
    <3>2. s.val = Nil => {k \in v : k >= a} = {}
      BY <2>5
    <3> HIDE DEF v
    <3> QED
      BY <2>2, <2>5, <3>1, <3>2, LeastOrNil
  <2>7. (s.val = a) <=> a \in v
    <3>1. a \in v => s.val = a
      BY <2>2, <2>4, <2>5
    <3>2. s.val = a => a \in v
      BY <1>3, <2>4, KeyFacts
    <3> QED
      BY <3>1, <3>2
  <2>8. Return(r)
    BY <1>2, <2>1 DEF UseGreaterOrEqual
  <2>9. node = [node EXCEPT ![r] = node[r]] /\ found = [found EXCEPT ![r] = found[r]]
    BY DEF ListInv, TypeOK
  <2>10. node' = [node EXCEPT ![r] = Abstract!Position(v, op[r], a, node[r])]
    <3>1. Abstract!Position(v, op[r], a, node[r]) = IF op[r] = "Seek" THEN s.val ELSE node[r]
      BY <1>2, <2>6 DEF Abstract!Position
    <3> QED
      BY <2>1, <2>9, <3>1 DEF UseGreaterOrEqual
  <2>11. found' = [found EXCEPT ![r] = IF op[r] = "Contains" THEN a \in v ELSE found[r]]
    <3>1. (s.val = a) = (a \in v)
      BY <2>7
    <3>2. CASE op[r] = "Contains"
      BY <2>1, <3>1, <3>2 DEF UseGreaterOrEqual
    <3>3. CASE op[r] # "Contains"
      BY <2>1, <2>9, <3>3 DEF UseGreaterOrEqual
    <3> QED
      BY <3>2, <3>3
  <2> HIDE DEF v
  <2>12. v = LinkedAt(0, seen'[r])
    BY DEF v
  <2> QED
    BY <1>2, <1>4, <2>8, <2>10, <2>11, <2>12, ReturnReplies
<1> QED
  BY <1>5, <1>6, <1>7

\* FindLessThan and FindLast return the greatest key before a bound.
LEMMA UseLastReplies ==
    ASSUME ListInv, NEW r \in Readers, op[r] \in {"Prev", "SeekToLast"}, level[r] = 0,
           NEW s \in Loads(r, x[r], level[r]), Acquire(r, s), UNCHANGED mem, UseLast(r),
           op[r] = "Prev" => s.val = Nil \/ ~ (s.val < arg[r]),
           op[r] = "SeekToLast" => s.val = Nil
    PROVE  Abstract!Reply(r)
<1> DEFINE v == LinkedAt(0, seen'[r])
           S == IF op[r] = "Prev" THEN {k \in v : k < node[r]} ELSE v
<1>1. /\ x[r] \in LinkedAt(0, seen[r]) \cup {Head} /\ level[r] \in Levels
      /\ op[r] = "Prev" => arg[r] \in Keys /\ x[r] < arg[r] /\ arg[r] = node[r]
  BY ReaderAt DEF ListInv, SearchesOK
<1>2. /\ seen' \in [Readers -> Nat] /\ seen[r] <= seen'[r] /\ seen'[r] <= clock
      /\ \A q \in Readers \ {r} : seen'[q] = seen[q]
      /\ s.val \in v \cup {Nil}
      /\ \A k \in v : k > x[r] => s.val # Nil /\ s.val <= k
      /\ x[r] \in v \cup {Head}
  BY <1>1, ReaderLoad
<1>3. v \subseteq Keys /\ x[r] \in Nat /\ \A k \in v : k \in Nat
  BY <1>2, KeyFacts DEF LinkedAt
<1>4. S \subseteq v
  OBVIOUS
<1>5. \A k \in S : k <= x[r]
  <2>1. CASE op[r] = "Prev"
    <3>1. SUFFICES ASSUME NEW k \in v, k < arg[r], k > x[r] PROVE FALSE
      BY <1>1, <1>3, <2>1
    <3>2. s.val # Nil /\ s.val <= k /\ s.val \in Nat
      BY <1>2, <1>3, <3>1
    <3>3. arg[r] \in Nat /\ k \in Nat
      BY <1>1, <1>3, <2>1, KeyFacts
    <3> QED
      BY <2>1, <3>1, <3>2, <3>3
  <2>2. CASE op[r] = "SeekToLast"
    BY <1>2, <1>3, <2>2
  <2> QED
    BY <2>1, <2>2
<1>6. x[r] # Head => x[r] \in S
  BY <1>1, <1>2
<1>7. x[r] = Head => S = {}
  <2>1. SUFFICES ASSUME x[r] = Head, NEW k \in S PROVE FALSE
    OBVIOUS
  <2>2. Head < k /\ k \in Nat /\ k <= x[r]
    BY <1>3, <1>4, <1>5, <2>1, KeyFacts
  <2> QED
    BY <1>3, <2>1, <2>2
<1>8. Abstract!Greatest(S) = IF x[r] = Head THEN Nil ELSE x[r]
  <2>1. S \subseteq Keys
    BY <1>3, <1>4
  <2> HIDE DEF S
  <2>2. CASE x[r] = Head
    BY <1>7, <2>2 DEF Abstract!Greatest
  <2>3. CASE x[r] # Head
    BY <1>5, <1>6, <2>1, <2>3, GreatestIs
  <2> QED
    BY <2>2, <2>3
<1>9. Abstract!Position(v, op[r], arg[r], node[r]) = Abstract!Greatest(S)
  BY DEF Abstract!Position
<1>10. /\ Return(r)
       /\ node' = [node EXCEPT ![r] = Abstract!Position(v, op[r], arg[r], node[r])]
       /\ found' = [found EXCEPT ![r] = found[r]]
  BY <1>8, <1>9 DEF UseLast, ListInv, TypeOK
<1> HIDE DEF v, S
<1>11. v = LinkedAt(0, seen'[r])
  BY DEF v
<1> QED
  BY <1>2, <1>10, <1>11, ReturnReplies

LEMMA FindLessThanRefines ==
    ASSUME ListInv, NEW r \in Readers, FindLessThan(r)
    PROVE  Abstract!Advance(r) \/ Abstract!Reply(r)
<1>1. PICK s \in Loads(r, x[r], level[r]) :
        /\ Acquire(r, s)
        /\ IF IsWild(s.val, ViewAfter(r, s)) THEN GoWild(r)
           ELSE IF ~ StopsBefore(arg[r], s.val) THEN GoRight(r, s.val)
           ELSE IF level[r] = 0 THEN UseLast(r) ELSE Descend(r)
  BY DEF FindLessThan
<1>2. op[r] = "Prev" /\ UNCHANGED mem
  BY DEF FindLessThan
<1>3. seen'[r] = ViewAfter(r, s) /\ ~ IsWild(s.val, seen'[r]) /\ s.val \in Keys \cup {Nil} /\ arg[r] \in Keys
  BY <1>1, <1>2, ReaderAt, ReaderLoad
<1>4. CASE ~ StopsBefore(arg[r], s.val)
  BY <1>1, <1>2, <1>3, <1>4, SearchAdvances DEF GoRight
<1>5. CASE StopsBefore(arg[r], s.val) /\ level[r] # 0
  BY <1>1, <1>2, <1>3, <1>5, SearchAdvances DEF Descend
<1>6. CASE StopsBefore(arg[r], s.val) /\ level[r] = 0
  <2>1. s.val = Nil \/ s.val >= arg[r]
    BY <1>6 DEF StopsBefore
  <2>2. s.val = Nil \/ ~ (s.val < arg[r])
    <3>1. CASE s.val \in Keys
      <4>1. s.val \in Nat /\ arg[r] \in Nat
        BY <1>3, <3>1, KeyFacts
      <4> QED
        BY <2>1, <4>1
    <3> QED
      BY <1>3, <3>1
  <2> QED
    BY <1>1, <1>2, <1>3, <1>6, <2>2, UseLastReplies
<1> QED
  BY <1>4, <1>5, <1>6

LEMMA FindLastRefines ==
    ASSUME ListInv, NEW r \in Readers, FindLast(r)
    PROVE  Abstract!Advance(r) \/ Abstract!Reply(r)
<1>1. PICK s \in Loads(r, x[r], level[r]) :
        /\ Acquire(r, s)
        /\ IF s.val = Wild THEN GoWild(r)
           ELSE IF s.val # Nil THEN GoRight(r, s.val)
           ELSE IF level[r] = 0 THEN UseLast(r) ELSE Descend(r)
  BY DEF FindLast
<1>2. op[r] = "SeekToLast" /\ UNCHANGED mem
  BY DEF FindLast
<1>3. s.val # Wild
  BY <1>1, <1>2, ReaderAt, ReaderLoad
<1>4. CASE s.val # Nil
  BY <1>1, <1>2, <1>3, <1>4, SearchAdvances DEF GoRight
<1>5. CASE s.val = Nil /\ level[r] # 0
  BY <1>1, <1>2, <1>3, <1>5, SearchAdvances DEF Descend
<1>6. CASE s.val = Nil /\ level[r] = 0
  BY <1>1, <1>2, <1>3, <1>6, UseLastReplies
<1> QED
  BY <1>4, <1>5, <1>6

\* Next and SeekToFirst find the nearest key after where they start.
LEMMA StepToRefines ==
    ASSUME ListInv, NEW r \in Readers,
           NEW n, NEW o, n \in LinkedAt(0, seen[r]) \cup {Head}, StepTo(r, n),
           \/ o = "Next" /\ n = node[r] /\ node[r] # Nil
           \/ o = "SeekToFirst" /\ n = Head
    PROVE  Abstract!Step(r, o)
<1> DEFINE v == LinkedAt(0, seen'[r])
<1>1. PICK s \in Loads(r, n, 0) :
        /\ Acquire(r, s)
        /\ IF s.val = Wild THEN GoWild(r)
           ELSE node' = [node EXCEPT ![r] = s.val] /\ UNCHANGED <<search, found>>
  BY DEF StepTo
<1>2. 0 \in Levels
  BY HeightAssumption DEF Levels
<1>3. /\ seen' \in [Readers -> Nat] /\ seen[r] <= seen'[r] /\ seen'[r] <= clock
      /\ \A q \in Readers \ {r} : seen'[q] = seen[q]
      /\ s.val \in v \cup {Nil} /\ (s.val # Nil => s.val > n)
      /\ \A k \in v : k > n => s.val # Nil /\ s.val <= k
      /\ s.val # Wild
  BY <1>1, <1>2, ReaderLoad
<1>4. node' = [node EXCEPT ![r] = s.val] /\ UNCHANGED <<mem, search, found>> /\ op[r] = "none"
  BY <1>1, <1>3 DEF StepTo
<1>5. Abstract!Least({k \in v : k > n}) = s.val
  <2>1. s.val \in {k \in v : k > n} \cup {Nil}
    BY <1>3
  <2>2. s.val = Nil => {k \in v : k > n} = {}
    BY <1>3
  <2>3. v \subseteq Keys
    BY DEF LinkedAt
  <2> HIDE DEF v
  <2> QED
    BY <1>3, <2>1, <2>2, <2>3, LeastOrNil
<1>6. Abstract!Position(v, o, ReaderArg[r], node[r]) = s.val
  <2>1. CASE o = "Next"
    BY <1>5, <2>1 DEF Abstract!Position
  <2>2. CASE o = "SeekToFirst"
    <3>1. n = Head
      BY <2>2
    <3>2. \A k \in v : k > Head
      BY KeyFacts DEF LinkedAt
    <3>3. {k \in v : k > n} = v
      BY <3>1, <3>2
    <3> QED
      BY <1>5, <2>2, <3>3 DEF Abstract!Position
  <2> QED
    BY <2>1, <2>2
<1>7. /\ Snapshots' = Snapshots
      /\ v \in Abstract!Newer(r)
      /\ Views' = [Views EXCEPT ![r] = v]
  BY <1>3, <1>4, ReaderSees
<1>8. ReaderOp' = ReaderOp /\ ReaderArg' = ReaderArg /\ ReaderOp[r] = "none" /\ found' = found
  BY <1>4 DEF ReaderOp, ReaderArg, search
<1> HIDE DEF v
<1> QED
  BY <1>4, <1>6, <1>7, <1>8 DEF Abstract!Step

\* The writer's steps: linking a node on level 0 inserts its key, no other step shows.
LEMMA QuietWriter ==
    ASSUME ListInv, clock' \in {clock, clock + 1}, UNCHANGED <<seen, node, found>>,
           \A r \in Readers : op'[r] = op[r] /\ arg'[r] = arg[r],
           stores \subseteq stores', \A s \in stores' \ stores : s.at = clock + 1,
           \A v \in Nat : v = clock + 1 => LinkedAt(0, v)' = LinkedAt(0, clock)
    PROVE  UNCHANGED <<Snapshots, Views, ReaderOp, ReaderArg, node, found>>
<1>1. clock \in Nat /\ stores \subseteq Store /\ \A r \in Readers : seen[r] \in 0 .. clock
  BY DEF ListInv, TypeOK, TimesOK
<1>2. \A v \in 0 .. clock : LinkedAt(0, v)' = LinkedAt(0, v)
  BY <1>1 DEF LinkedAt
<1>3. Snapshots' = Snapshots
  <2>1. ASSUME NEW S \in Snapshots PROVE S \in Snapshots'
    <3>1. PICK v \in 0 .. clock : S = LinkedAt(0, v)
      BY DEF Snapshots
    <3>2. v \in 0 .. clock' /\ S = LinkedAt(0, v)'
      BY <1>1, <1>2, <3>1
    <3> QED
      BY <3>2 DEF Snapshots
  <2>2. ASSUME NEW S \in Snapshots' PROVE S \in Snapshots
    <3>1. PICK v \in 0 .. clock' : S = LinkedAt(0, v)'
      BY DEF Snapshots
    <3>2. CASE v \in 0 .. clock
      BY <1>2, <3>1, <3>2 DEF Snapshots
    <3>3. CASE v \notin 0 .. clock
      <4>1. v = clock + 1 /\ v \in Nat /\ clock \in 0 .. clock
        BY <1>1, <3>1, <3>3
      <4> QED
        BY <3>1, <4>1 DEF Snapshots
    <3> QED
      BY <3>2, <3>3
  <2> QED
    BY <2>1, <2>2
<1>4. Views' = Views
  <2>1. \A r \in Readers : LinkedAt(0, seen[r])' = LinkedAt(0, seen[r])
    BY <1>1 DEF LinkedAt
  <2> QED
    BY <2>1 DEF Views
<1>5. ReaderOp' = ReaderOp /\ ReaderArg' = ReaderArg
  BY DEF ReaderOp, ReaderArg
<1> QED
  BY <1>3, <1>4, <1>5

\* Steps that make no store to next_[].
LEMMA NoStoreRefines ==
    ASSUME ListInv, clock' \in {clock, clock + 1}, UNCHANGED <<stores, seen, node, found>>,
           \A r \in Readers : op'[r] = op[r] /\ arg'[r] = arg[r]
    PROVE  UNCHANGED <<Snapshots, Views, ReaderOp, ReaderArg, node, found>>
<1>1. clock \in Nat /\ \A s \in stores : s.at \in Nat /\ s.at <= clock
  BY DEF ListInv, TypeOK, TimesOK, Store
<1>2. \A v \in Nat : v = clock + 1 => LinkedAt(0, v)' = LinkedAt(0, clock)
  BY <1>1 DEF LinkedAt
<1> QED
  BY <1>2, QuietWriter

LEMMA OwnNextRefines ==
    ASSUME ListInv, OwnNext
    PROVE  UNCHANGED <<Snapshots, Views, ReaderOp, ReaderArg, node, found>>
<1> DEFINE k == arg[Writer]
<1>1. PICK s \in Loads(Writer, prev[i], i) : NoBarrier_SetNext(k, i, s.val)
  BY DEF OwnNext
<1> DEFINE e == [node |-> k, level |-> i, at |-> clock + 1, val |-> s.val, rel |-> FALSE]
<1>2. /\ clock' = clock + 1 /\ stores' = stores \cup {e} /\ UNCHANGED <<seen, arg, node, found>>
      /\ op' = [op EXCEPT ![Writer] = "PrevNext"] /\ op[Writer] = "OwnNext"
  BY <1>1 DEF OwnNext, WriterAt, NoBarrier_SetNext
<1>3. /\ TypeOK /\ TimesOK /\ PointersOK /\ LevelsExact /\ clock \in Nat /\ View(Writer) = clock
      /\ Writer \in Threads /\ \A u \in stores : u.at \in Nat /\ u.at <= clock
  BY DEF ListInv, TypeOK, TimesOK, Store, View, Threads
<1>4. i \in Levels
  <2>1. i < height /\ i \in Nat /\ height \in 1 .. kMaxHeight
    BY <1>2 DEF ListInv, InsertOK, TypeOK
  <2> QED
    BY <2>1, HeightAssumption DEF Levels
<1>5. prev[i] \in LinkedAt(i, clock) \cup {Head}
  <2>1. \A l \in Levels : l \in i .. height - 1 => PrevOK(l)
    BY <1>2 DEF ListInv, InsertOK
  <2>2. i < height /\ i \in Nat /\ height \in Nat
    BY <1>2 DEF ListInv, InsertOK, TypeOK
  <2>3. i \in i .. height - 1
    BY <2>2
  <2> QED
    BY <1>4, <2>1, <2>3 DEF PrevOK
<1>6. s.val \in LinkedAt(i, clock) \cup {Nil}
  <2>1. LET w == ViewAfter(Writer, s) IN
        w \in Nat /\ clock <= w /\ w <= clock /\ s.val \in LinkedAt(i, w) \cup {Nil}
    BY <1>3, <1>4, <1>5, LoadExact
  <2>2. ViewAfter(Writer, s) = clock
    BY <1>3, <2>1
  <2> QED
    BY <2>1, <2>2
<1>7. e.level = i /\ e.val = s.val /\ e.at = clock + 1
  OBVIOUS
<1> HIDE DEF e
<1>8. \A v \in Nat : v = clock + 1 => LinkedAt(0, v)' = LinkedAt(0, clock)
  <2>1. TAKE v \in Nat
  <2>2. HAVE v = clock + 1
  <2>3. ASSUME NEW q \in LinkedAt(0, clock) PROVE q \in LinkedAt(0, v)'
    BY <1>2, <1>3, <2>2 DEF LinkedAt
  <2>4. ASSUME NEW q \in LinkedAt(0, v)' PROVE q \in LinkedAt(0, clock)
    <3>1. PICK u \in stores' : u.level = 0 /\ u.val = q /\ q \in Keys
      BY DEF LinkedAt
    <3>2. CASE u = e
      BY <1>6, <1>7, <3>1, <3>2, KeyFacts
    <3>3. CASE u \in stores
      BY <1>3, <3>1, <3>3 DEF LinkedAt
    <3> QED
      BY <1>2, <3>2, <3>3
  <2> QED
    BY <2>3, <2>4
<1>9. \A r \in Readers : op'[r] = op[r]
  BY <1>2, ThreadAssumption DEF ListInv, TypeOK, Threads
<1>10. stores \subseteq stores' /\ \A u \in stores' \ stores : u.at = clock + 1
  BY <1>2, <1>7
<1> QED
  BY <1>2, <1>8, <1>9, <1>10, QuietWriter

LEMMA PrevNextRefines ==
    ASSUME ListInv, PrevNext
    PROVE  \/ \E k \in Keys : Abstract!Insert(k)
           \/ UNCHANGED <<Snapshots, Views, ReaderOp, ReaderArg, node, found>>
<1> DEFINE k == arg[Writer]
           e == [node |-> prev[i], level |-> i, at |-> clock + 1, val |-> k, rel |-> TRUE]
           M == LinkedAt(0, clock)
<1>1. /\ clock' = clock + 1 /\ stores' = stores \cup {e} /\ UNCHANGED <<seen, arg, node, found>>
      /\ op[Writer] = "PrevNext"
      /\ op' = [op EXCEPT ![Writer] = IF i + 1 < height THEN "OwnNext" ELSE "none"]
  BY DEF PrevNext, WriterAt, SetNext
<1>2. e.level = i /\ e.val = k /\ e.at = clock + 1
  OBVIOUS
<1> HIDE DEF e
<1>3. /\ clock \in Nat /\ stores \subseteq Store /\ \A u \in stores : u.at \in Nat /\ u.at <= clock
      /\ \A r \in Readers : seen[r] \in 0 .. clock
  BY DEF ListInv, TypeOK, TimesOK, Store
<1>4. /\ \A r \in Readers : op'[r] = op[r]
      /\ stores \subseteq stores' /\ \A u \in stores' \ stores : u.at = clock + 1
  BY <1>1, <1>2, ThreadAssumption DEF ListInv, TypeOK, Threads
<1>5. k \in Keys /\ i \in Nat /\ (i = 0 => k \notin M)
  <2>1. 0 \in Levels
    BY HeightAssumption DEF Levels
  <2>2. k \in Keys /\ \A l \in Levels : l >= i => k \notin LinkedAt(l, clock)
    BY <1>1 DEF ListInv, InsertOK
  <2> QED
    BY <2>1, <2>2 DEF ListInv, TypeOK
<1>6. \A v \in Nat : v = clock + 1 => LinkedAt(0, v)' = M \cup (IF i = 0 THEN {k} ELSE {})
  <2>1. TAKE v \in Nat
  <2>2. HAVE v = clock + 1
  <2>3. ASSUME NEW q \in M PROVE q \in LinkedAt(0, v)'
    BY <1>1, <1>3, <2>2 DEF LinkedAt
  <2>4. ASSUME i = 0 PROVE k \in LinkedAt(0, v)'
    BY <1>1, <1>2, <1>3, <1>5, <2>2, <2>4 DEF LinkedAt
  <2>5. ASSUME NEW q \in LinkedAt(0, v)' PROVE q \in M \/ (i = 0 /\ q = k)
    <3>1. PICK u \in stores' : u.level = 0 /\ u.val = q /\ q \in Keys
      BY DEF LinkedAt
    <3>2. CASE u = e
      BY <1>2, <3>1, <3>2
    <3>3. CASE u \in stores
      BY <1>3, <3>1, <3>3 DEF LinkedAt
    <3> QED
      BY <1>1, <3>2, <3>3
  <2> QED
    BY <2>3, <2>4, <2>5
<1>7. CASE i # 0
  BY <1>1, <1>4, <1>6, <1>7, QuietWriter
<1>8. CASE i = 0
  <2>1. \A v \in 0 .. clock : LinkedAt(0, v)' = LinkedAt(0, v)
    BY <1>1, <1>2, <1>3 DEF LinkedAt
  <2>2. M = UNION Snapshots
    <3>1. M \in Snapshots
      BY <1>3 DEF Snapshots
    <3>2. \A S \in Snapshots : S \subseteq M
      BY <1>3, LinkedGrows, HeightAssumption DEF Snapshots, Levels
    <3> QED
      BY <3>1, <3>2
  <2>3. Snapshots' = Snapshots \cup {M \cup {k}}
    <3>1. clock + 1 \in Nat /\ \A v : v \in 0 .. clock' <=> (v \in 0 .. clock \/ v = clock + 1)
      BY <1>1, <1>3
    <3>2. ASSUME NEW v, v = clock + 1 PROVE LinkedAt(0, v)' = M \cup {k}
      BY <1>6, <1>8, <3>1, <3>2
    <3>3. ASSUME NEW S \in Snapshots' PROVE S \in Snapshots \cup {M \cup {k}}
      <4>1. PICK v \in 0 .. clock' : S = LinkedAt(0, v)'
        BY DEF Snapshots
      <4>2. CASE v \in 0 .. clock
        BY <2>1, <4>1, <4>2 DEF Snapshots
      <4>3. CASE v = clock + 1
        BY <3>2, <4>1, <4>3
      <4> QED
        BY <3>1, <4>2, <4>3
    <3>4. ASSUME NEW S \in Snapshots PROVE S \in Snapshots'
      <4>1. PICK v \in 0 .. clock : S = LinkedAt(0, v)
        BY DEF Snapshots
      <4>2. v \in 0 .. clock' /\ S = LinkedAt(0, v)'
        BY <2>1, <3>1, <4>1
      <4> QED
        BY <4>2 DEF Snapshots
    <3>5. M \cup {k} \in Snapshots'
      <4>1. PICK v : v = clock + 1
        OBVIOUS
      <4>2. v \in 0 .. clock' /\ M \cup {k} = LinkedAt(0, v)'
        BY <3>1, <3>2, <4>1
      <4> QED
        BY <4>2 DEF Snapshots
    <3> QED
      BY <3>3, <3>4, <3>5
  <2>4. Views' = Views
    <3>1. \A r \in Readers : LinkedAt(0, seen[r])' = LinkedAt(0, seen[r])
      BY <1>1, <1>2, <1>3 DEF LinkedAt
    <3> QED
      BY <3>1 DEF Views
  <2>5. ReaderOp' = ReaderOp /\ ReaderArg' = ReaderArg
    BY <1>1, <1>4 DEF ReaderOp, ReaderArg
  <2>6. Abstract!Insert(k)
    BY <1>1, <1>5, <1>8, <2>2, <2>3, <2>4, <2>5 DEF Abstract!Insert, Abstract!Members
  <2> QED
    BY <1>5, <2>6
<1> QED
  BY <1>7, <1>8

\* The steps of Insert that store to no next_[], its search included.
LEMMA WriterRefines ==
    ASSUME ListInv,
           \/ \E k \in Keys : Insert(k)
           \/ FindGreaterOrEqual(Writer)
           \/ RaiseHeight
           \/ NewNode
    PROVE  UNCHANGED <<Snapshots, Views, ReaderOp, ReaderArg, node, found>>
<1>1. op \in [Threads -> ReaderOps \cup WriterOps] /\ arg \in [Threads -> Keys \cup {Nil}]
  BY DEF ListInv, TypeOK
<1>2. \A r \in Readers : r # Writer /\ r \in Threads
  BY ThreadAssumption DEF Threads
<1>3. ASSUME NEW k \in Keys, Insert(k)
      PROVE  UNCHANGED <<Snapshots, Views, ReaderOp, ReaderArg, node, found>>
  <2>1. UNCHANGED <<clock, stores, seen, node, found>>
    BY <1>3 DEF Insert, mem
  <2>2. \A r \in Readers : op'[r] = op[r] /\ arg'[r] = arg[r]
    BY <1>1, <1>2, <1>3 DEF Insert, StartSearch
  <2> QED
    BY <2>1, <2>2, NoStoreRefines
<1>4. ASSUME FindGreaterOrEqual(Writer)
      PROVE  UNCHANGED <<Snapshots, Views, ReaderOp, ReaderArg, node, found>>
  <2>1. op[Writer] = "Insert"
    BY <1>4 DEF FindGreaterOrEqual, ListInv, TypeOK, WriterOps
  <2>2. UNCHANGED <<clock, stores, seen>>
    BY <1>4, ThreadAssumption DEF FindGreaterOrEqual, mem, Acquire
  <2>3. UNCHANGED <<arg, node, found>> /\ \A r \in Readers : op'[r] = op[r]
    BY <1>1, <1>2, <1>4, <2>1
       DEF FindGreaterOrEqual, GoWild, GoRight, Descend, UseGreaterOrEqual
  <2> QED
    BY <2>2, <2>3, NoStoreRefines
<1>5. ASSUME RaiseHeight
      PROVE  UNCHANGED <<Snapshots, Views, ReaderOp, ReaderArg, node, found>>
  <2>1. UNCHANGED <<stores, seen, arg, node, found>> /\ clock' \in {clock, clock + 1}
    BY <1>5 DEF RaiseHeight
  <2>2. \A r \in Readers : op'[r] = op[r]
    BY <1>1, <1>2, <1>5 DEF RaiseHeight, WriterAt
  <2> QED
    BY <2>1, <2>2, NoStoreRefines
<1>6. ASSUME NewNode
      PROVE  UNCHANGED <<Snapshots, Views, ReaderOp, ReaderArg, node, found>>
  <2>1. UNCHANGED <<stores, seen, arg, node, found>> /\ clock' = clock + 1
    BY <1>6 DEF NewNode
  <2>2. \A r \in Readers : op'[r] = op[r]
    BY <1>1, <1>2, <1>6 DEF NewNode, WriterAt
  <2> QED
    BY <2>1, <2>2, NoStoreRefines
<1> QED
  BY <1>3, <1>4, <1>5, <1>6

LEMMA SynchronizeRefines ==
    ASSUME ListInv, NEW r \in Readers, Synchronize(r)
    PROVE  Abstract!Advance(r)
<1>1. clock \in Nat /\ seen \in [Readers -> Nat] /\ seen[r] <= clock
  BY DEF ListInv, TypeOK, TimesOK
<1>2. UNCHANGED <<mem, search, node, found>> /\ seen' = [seen EXCEPT ![r] = clock]
  BY DEF Synchronize
<1>3. /\ seen' \in [Readers -> Nat] /\ seen[r] <= seen'[r] /\ seen'[r] <= clock
      /\ \A q \in Readers \ {r} : seen'[q] = seen[q]
  BY <1>1, <1>2
<1>4. LET v == LinkedAt(0, seen'[r]) IN
      /\ Snapshots' = Snapshots
      /\ v \in Abstract!Newer(r)
      /\ Views' = [Views EXCEPT ![r] = v]
  BY <1>2, <1>3, ReaderSees
<1>5. ReaderOp' = ReaderOp /\ ReaderArg' = ReaderArg
  BY <1>2 DEF ReaderOp, ReaderArg, search
<1> QED
  BY <1>2, <1>4, <1>5 DEF Abstract!Advance

LEMMA ReaderRefines ==
    ASSUME ListInv, NEW r \in Readers,
           \/ FindGreaterOrEqual(r)
           \/ FindLessThan(r)
           \/ FindLast(r)
           \/ \E k \in Keys : Contains(r, k)
           \/ \E k \in Keys : Seek(r, k)
           \/ SeekToLast(r)
           \/ Prev(r)
           \/ IterNext(r)
           \/ SeekToFirst(r)
           \/ Synchronize(r)
    PROVE  Abstract!Next
<1> DEFINE Ops == {"Contains", "Seek", "SeekToLast", "Prev"}
<1>1. CASE FindGreaterOrEqual(r) \/ FindLessThan(r) \/ FindLast(r)
  BY <1>1, FindGreaterOrEqualRefines, FindLessThanRefines, FindLastRefines DEF Abstract!Next
<1>2. ASSUME NEW o \in Ops, NEW k \in Keys \cup {Nil}, o = "Prev" => node[r] # Nil,
             StartQuery(r, o, k)
      PROVE  Abstract!Next
  <2>1. Abstract!Request(r, o, k)
    BY <1>2, StartRequests
  <2> QED
    BY <2>1 DEF Abstract!Next
<1>3. ASSUME NEW k \in Keys, Contains(r, k) PROVE Abstract!Next
  BY <1>2, <1>3 DEF Contains
<1>4. ASSUME NEW k \in Keys, Seek(r, k) PROVE Abstract!Next
  BY <1>2, <1>4 DEF Seek
<1>5. CASE SeekToLast(r)
  BY <1>2, <1>5 DEF SeekToLast
<1>6. CASE Prev(r)
  BY <1>2, <1>6 DEF Prev, ListInv, TypeOK
<1>7. CASE IterNext(r)
  <2>1. node[r] \in LinkedAt(0, seen[r]) /\ node[r] # Nil /\ StepTo(r, node[r])
    BY <1>7 DEF IterNext, ListInv, SearchesOK
  <2>2. Abstract!Step(r, "Next")
    BY <2>1, StepToRefines
  <2> QED
    BY <2>2 DEF Abstract!Next
<1>8. CASE SeekToFirst(r)
  <2>1. Abstract!Step(r, "SeekToFirst")
    BY <1>8, StepToRefines DEF SeekToFirst
  <2> QED
    BY <2>1 DEF Abstract!Next
<1>9. CASE Synchronize(r)
  BY <1>9, SynchronizeRefines DEF Abstract!Next
<1> QED
  BY <1>1, <1>3, <1>4, <1>5, <1>6, <1>7, <1>8, <1>9

LEMMA InitRefines == Init => Abstract!Init
<1> SUFFICES ASSUME Init PROVE Abstract!Init
  OBVIOUS
<1>1. \A v : LinkedAt(0, v) = {}
  BY KeyFacts DEF Init, LinkedAt
<1>2. Snapshots = {{}}
  <2>1. clock = 0 /\ 0 \in 0 .. clock
    BY DEF Init
  <2> QED
    BY <1>1, <2>1, Zenon DEF Snapshots
<1>3. Views = [r \in Readers |-> {}]
  BY <1>1 DEF Views
<1>4. ReaderOp = [r \in Readers |-> "none"] /\ ReaderArg = [r \in Readers |-> Nil]
  BY DEF Init, ReaderOp, ReaderArg, Threads
<1> QED
  BY <1>2, <1>3, <1>4 DEF Init, Abstract!Init

LEMMA NextRefines == ListInv /\ [Next]_vars => [Abstract!Next]_Abstract!vars
<1> SUFFICES ASSUME ListInv, [Next]_vars
             PROVE  Abstract!Next \/ UNCHANGED <<Snapshots, Views, ReaderOp, ReaderArg, node, found>>
  BY DEF Abstract!vars
<1>1. CASE UNCHANGED vars
  BY <1>1 DEF vars, mem, search, Snapshots, Views, ReaderOp, ReaderArg, LinkedAt
<1>2. CASE (\E k \in Keys : Insert(k)) \/ RaiseHeight \/ NewNode \/ FindGreaterOrEqual(Writer)
  BY <1>2, WriterRefines
<1>3. CASE OwnNext
  BY <1>3, OwnNextRefines
<1>4. CASE PrevNext
  BY <1>4, PrevNextRefines DEF Abstract!Next
<1>5. ASSUME NEW r \in Readers,
           \/ FindGreaterOrEqual(r)
           \/ FindLessThan(r)
           \/ FindLast(r)
           \/ \E k \in Keys : Contains(r, k)
           \/ \E k \in Keys : Seek(r, k)
           \/ SeekToLast(r)
           \/ Prev(r)
           \/ IterNext(r)
           \/ SeekToFirst(r)
           \/ Synchronize(r)
      PROVE  Abstract!Next
  BY <1>5, ReaderRefines
<1>6. CASE Next
  <2>1. CASE \E t \in Threads : FindGreaterOrEqual(t)
    BY <1>2, <1>5, <2>1 DEF Threads
  <2> QED
    BY <1>2, <1>3, <1>4, <1>5, <1>6, <2>1 DEF Next
<1> QED
  BY <1>1, <1>6

\* Whatever the keys, the readers and kMaxHeight, and in every order in which the C++
\* memory model lets readers see the writer's stores, db/skiplist.h answers Contains and
\* Iterator operations as the ordered set does: exactly, on a set the list really was.
THEOREM Refinement == Spec => ImplementsOrderedSet
<1>1. Init => Abstract!Init
  BY InitRefines
<1>2. ListInv /\ [Next]_vars => [Abstract!Next]_Abstract!vars
  BY NextRefines
<1>3. Spec => []ListInv
  BY ListInvariant
<1> QED
  BY <1>1, <1>2, <1>3, PTL DEF Spec, ImplementsOrderedSet, Abstract!Spec
===========================================================================
