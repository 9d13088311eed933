----------------------------- MODULE SkipList -----------------------------
(***************************************************************************)
(* db/skiplist.h: a skip list with one writer (Insert, which callers       *)
(* serialise) and lock-free readers (Contains, Iterator).  Threads meet    *)
(* only at the atomics next_[] and max_height_.                            *)
(*                                                                         *)
(* Memory model.  All stores come from the writer, so its program order    *)
(* (the variable clock counts stores) is the modification order of every   *)
(* location.  seen[r] is the store up to which everything happens before   *)
(* reader r's next step.  A load returns any store of its location that is *)
(* not older than the last one r has seen; an acquire load of a release    *)
(* store raises seen[r] to it; nothing else does.  A location none of      *)
(* whose stores r has seen still holds what the arena left there: loading  *)
(* it, or the key of a node whose construction r has not seen, is          *)
(* undefined, and the thread is "wild" from there on.                      *)
(*                                                                         *)
(* A node is named by its key: no key is inserted twice (Insert's assert). *)
(* The order of the naturals stands for the Comparator's.                  *)
(***************************************************************************)
EXTENDS Integers

CONSTANTS
    Keys,           \* the keys that may be inserted or looked for
    Readers,        \* the reading threads
    Writer,         \* the thread that inserts
    kMaxHeight,     \* the number of levels of the tallest node
    Nil,            \* nullptr
    Wild            \* an indeterminate pointer

ASSUME KeysAssumption == Keys \subseteq Nat \ {0}

ASSUME HeightAssumption == kMaxHeight \in Nat \ {0}

ASSUME ThreadAssumption == Writer \notin Readers

ASSUME PointerAssumption == Nil \notin Nat /\ Wild \notin Nat /\ Nil # Wild

Head == 0

Nodes == Keys \cup {Head}

Levels == 0 .. kMaxHeight - 1

Threads == Readers \cup {Writer}

VARIABLES
    clock,          \* the number of stores the writer has made
    stores,         \* the stores to next_[] so far
    heights,        \* the stores to max_height_ so far
    born,           \* the time a node's key was written, 0 if there is no node
    seen,           \* per reader: the stores it is synchronised with
    op,             \* per thread: the operation (writer: the step of Insert) under way
    arg,            \* per thread: the key looked for
    x, level,       \* per thread: where its search stands
    node,           \* per reader: Iterator::node_
    found,          \* per reader: the last result of Contains
    prev,           \* Insert: the node before the new one, per level; Wild where unset
    height, i       \* Insert: the new node's height, the level being linked

mem == <<clock, stores, heights, born>>
search == <<op, arg, x, level>>
insert == <<prev, height, i>>
vars == <<mem, seen, search, node, found, insert>>

\* A store to next_[level] of a node, the writer's at-th.
Store == [node: Nodes, level: Levels, at: Nat, val: Keys \cup {Nil}, rel: BOOLEAN]

ReaderOps == {"none", "Contains", "Seek", "SeekToLast", "Prev", "wild"}

WriterOps == {"none", "Insert", "RaiseHeight", "NewNode", "OwnNext", "PrevNext", "wild"}

(***************************************************************************)
(* Loads and stores.                                                       *)
(***************************************************************************)
View(t) == IF t = Writer THEN clock ELSE seen[t]

\* The stores to next_[l] of node n.
StoresTo(n, l) == {s \in stores : s.node = n /\ s.level = l}

\* What a load of next_[l] of node n by thread t may return.
Loads(t, n, l) ==
    LET known == {s \in StoresTo(n, l) : s.at <= View(t)}
    IN  {s \in StoresTo(n, l) : \A k \in known : k.at <= s.at}
          \cup IF known = {}
               THEN {[node |-> n, level |-> l, at |-> 0, val |-> Wild, rel |-> FALSE]}
               ELSE {}

\* The view of thread t once it has made an acquire load of store s.
ViewAfter(t, s) == IF s.rel /\ s.at > View(t) THEN s.at ELSE View(t)

\* A pointer whose target thread t may not read: indeterminate, or to a node whose
\* construction does not happen before a read by a thread with view v.
IsWild(p, v) == p = Wild \/ (p \in Keys /\ ~ (born[p] \in 1 .. v))

Acquire(t, s) ==
    seen' = IF t \in Readers THEN [seen EXCEPT ![t] = ViewAfter(t, s)] ELSE seen

\* A relaxed load of max_height_; it synchronises with nothing.
GetMaxHeight(t) ==
    {e.val : e \in {h \in heights : \A k \in heights : k.at <= View(t) => k.at <= h.at}}

\* Mutant: the new node is published by a relaxed store.
SetNextNoBarrier(n, l, p) ==
    /\ clock' = clock + 1
    /\ stores' = stores \cup
         {[node |-> n, level |-> l, at |-> clock + 1, val |-> p, rel |-> FALSE]}

\* A release store to next_[l] of node n.
SetNext(n, l, p) ==
    /\ clock' = clock + 1
    /\ stores' = stores \cup
         {[node |-> n, level |-> l, at |-> clock + 1, val |-> p, rel |-> TRUE]}

\* A relaxed store to next_[l] of node n.
NoBarrier_SetNext(n, l, p) ==
    /\ clock' = clock + 1
    /\ stores' = stores \cup
         {[node |-> n, level |-> l, at |-> clock + 1, val |-> p, rel |-> FALSE]}

(***************************************************************************)
(* Searches: one loop iteration, hence one load, per step.                 *)
(***************************************************************************)
KeyIsAfterNode(k, n) == n # Nil /\ n < k

\* Thread t enters a search for k: x = head_, level = GetMaxHeight() - 1.
StartSearch(t, o, k) ==
    /\ op[t] = "none"
    /\ op' = [op EXCEPT ![t] = o]
    /\ arg' = [arg EXCEPT ![t] = k]
    /\ x' = [x EXCEPT ![t] = Head]
    /\ \E h \in GetMaxHeight(t) : level' = [level EXCEPT ![t] = h - 1]

\* A reader's operation returns: its parameter and locals are gone.
Return(r) ==
    /\ op' = [op EXCEPT ![r] = "none"]
    /\ arg' = [arg EXCEPT ![r] = Nil]
    /\ x' = [x EXCEPT ![r] = Head]
    /\ level' = [level EXCEPT ![r] = 0]

\* The thread has read what it may not read.
GoWild(t) ==
    /\ op' = [op EXCEPT ![t] = "wild"]
    /\ UNCHANGED <<arg, x, level, node, found>>

GoRight(t, next) ==
    /\ x' = [x EXCEPT ![t] = next]
    /\ UNCHANGED <<op, arg, level, node, found>>

\* Mutant: at the end of a level the search stays on that level.
DescendNever(t) == UNCHANGED <<op, arg, x, level, node, found>>

Descend(t) ==
    /\ level' = [level EXCEPT ![t] = @ - 1]
    /\ UNCHANGED <<op, arg, x, node, found>>

\* What the callers of FindGreaterOrEqual do with the node it returns: Insert goes on,
\* Seek keeps it, Contains compares its key.
UseGreaterOrEqual(t, next) ==
    /\ IF op[t] = "Insert"
       THEN op' = [op EXCEPT ![t] = "RaiseHeight"] /\ UNCHANGED <<arg, x, level>>
       ELSE Return(t)
    /\ node' = IF op[t] = "Seek" THEN [node EXCEPT ![t] = next] ELSE node
    /\ found' = IF op[t] = "Contains" THEN [found EXCEPT ![t] = (next = arg[t])] ELSE found

FindGreaterOrEqual(t) ==
    /\ op[t] \in {"Contains", "Seek", "Insert"}
    /\ \E s \in Loads(t, x[t], level[t]) :
        /\ Acquire(t, s)
        /\ IF IsWild(s.val, ViewAfter(t, s)) THEN GoWild(t) /\ UNCHANGED prev
           ELSE IF KeyIsAfterNode(arg[t], s.val) THEN GoRight(t, s.val) /\ UNCHANGED prev
           ELSE /\ prev' = IF op[t] = "Insert" THEN [prev EXCEPT ![level[t]] = x[t]] ELSE prev
                /\ IF level[t] = 0 THEN UseGreaterOrEqual(t, s.val) ELSE Descend(t)
    /\ UNCHANGED <<mem, height, i>>

\* Prev and SeekToLast keep the node FindLessThan and FindLast return, head_ as nullptr.
UseLast(r) ==
    /\ Return(r)
    /\ node' = [node EXCEPT ![r] = IF x[r] = Head THEN Nil ELSE x[r]]
    /\ UNCHANGED found

\* Mutant: FindLessThan also steps onto the key itself.
StopsBeforeOrAt(k, n) == n = Nil \/ n > k

\* The condition on which FindLessThan does not go right.
StopsBefore(k, n) == n = Nil \/ n >= k

FindLessThan(r) ==
    /\ op[r] = "Prev"
    /\ \E s \in Loads(r, x[r], level[r]) :
        /\ Acquire(r, s)
        /\ IF IsWild(s.val, ViewAfter(r, s)) THEN GoWild(r)
           ELSE IF ~ StopsBefore(arg[r], s.val) THEN GoRight(r, s.val)
           ELSE IF level[r] = 0 THEN UseLast(r) ELSE Descend(r)
    /\ UNCHANGED <<mem, insert>>

\* FindLast never reads a key, only next_[].
FindLast(r) ==
    /\ op[r] = "SeekToLast"
    /\ \E s \in Loads(r, x[r], level[r]) :
        /\ Acquire(r, s)
        /\ IF s.val = Wild THEN GoWild(r)
           ELSE IF s.val # Nil THEN GoRight(r, s.val)
           ELSE IF level[r] = 0 THEN UseLast(r) ELSE Descend(r)
    /\ UNCHANGED <<mem, insert>>

(***************************************************************************)
(* Readers.                                                                *)
(***************************************************************************)
StartQuery(r, o, k) ==
    /\ StartSearch(r, o, k)
    /\ UNCHANGED <<mem, seen, node, found, insert>>

Contains(r, k) == StartQuery(r, "Contains", k)

Seek(r, k) == StartQuery(r, "Seek", k)

SeekToLast(r) == StartQuery(r, "SeekToLast", Nil)

\* Iterator::Prev asserts Valid().
Prev(r) == node[r] # Nil /\ StartQuery(r, "Prev", node[r])

\* One acquire load of next_[0] of node n gives the Iterator's new position.
StepTo(r, n) ==
    /\ op[r] = "none"
    /\ \E s \in Loads(r, n, 0) :
        /\ Acquire(r, s)
        /\ IF s.val = Wild THEN GoWild(r)
           ELSE /\ node' = [node EXCEPT ![r] = s.val]
                /\ UNCHANGED <<search, found>>
    /\ UNCHANGED <<mem, insert>>

\* Iterator::Next asserts Valid().
IterNext(r) == node[r] # Nil /\ StepTo(r, node[r])

SeekToFirst(r) == StepTo(r, Head)

\* The reader synchronises with a writer between two insertions through something else
\* than the list (a mutex, the sequence number a caller publishes).
Synchronize(r) ==
    /\ op[Writer] = "none" /\ op[r] = "none"
    /\ seen' = [seen EXCEPT ![r] = clock]
    /\ UNCHANGED <<mem, search, node, found, insert>>

(***************************************************************************)
(* The writer.                                                             *)
(***************************************************************************)
WriterAt(from, to) == op[Writer] = from /\ op' = [op EXCEPT ![Writer] = to]

\* Insert(k) of a key that is not in the list starts with FindGreaterOrEqual(k, prev).
Insert(k) ==
    /\ born[k] = 0
    /\ StartSearch(Writer, "Insert", k)
    /\ prev' = [l \in Levels |-> Wild]
    /\ UNCHANGED <<mem, seen, node, found, height, i>>

\* A coin is tossed for every level but the first: any height may come out.
RandomHeight == 1 .. kMaxHeight

\* Mutant: the levels above max_height_ are not given head_ as their prev.
RaiseHeightOnly ==
    /\ WriterAt("RaiseHeight", "NewNode")
    /\ \E h \in RandomHeight, m \in GetMaxHeight(Writer) :
        /\ height' = h
        /\ prev' = prev
        /\ IF h > m
           THEN /\ clock' = clock + 1
                /\ heights' = heights \cup {[at |-> clock + 1, val |-> h]}
           ELSE UNCHANGED <<clock, heights>>
    /\ UNCHANGED <<stores, born, seen, arg, x, level, node, found, i>>

\* A node taller than the list has head_ before it on the new levels, and a relaxed
\* store raises max_height_.
RaiseHeight ==
    /\ WriterAt("RaiseHeight", "NewNode")
    /\ \E h \in RandomHeight, m \in GetMaxHeight(Writer) :
        /\ height' = h
        /\ prev' = [l \in Levels |-> IF l \in m .. h - 1 THEN Head ELSE prev[l]]
        /\ IF h > m
           THEN /\ clock' = clock + 1
                /\ heights' = heights \cup {[at |-> clock + 1, val |-> h]}
           ELSE UNCHANGED <<clock, heights>>
    /\ UNCHANGED <<stores, born, seen, arg, x, level, node, found, i>>

\* Mutant: the loop that links the node starts at level 1 if there is one.
NewNodeFromOne ==
    /\ WriterAt("NewNode", "OwnNext")
    /\ clock' = clock + 1
    /\ born' = [born EXCEPT ![arg[Writer]] = clock + 1]
    /\ i' = IF height > 1 THEN 1 ELSE 0
    /\ UNCHANGED <<stores, heights, seen, arg, x, level, node, found, prev, height>>

\* NewNode(key, height): arena memory, with only the key written.
NewNode ==
    /\ WriterAt("NewNode", "OwnNext")
    /\ clock' = clock + 1
    /\ born' = [born EXCEPT ![arg[Writer]] = clock + 1]
    /\ i' = 0
    /\ UNCHANGED <<stores, heights, seen, arg, x, level, node, found, prev, height>>

\* x->NoBarrier_SetNext(i, prev[i]->NoBarrier_Next(i))
OwnNext ==
    /\ WriterAt("OwnNext", "PrevNext")
    /\ \E s \in Loads(Writer, prev[i], i) : NoBarrier_SetNext(arg[Writer], i, s.val)
    /\ UNCHANGED <<heights, born, seen, arg, x, level, node, found, insert>>

\* prev[i]->SetNext(i, x), and on to the next level
PrevNext ==
    /\ WriterAt("PrevNext", IF i + 1 < height THEN "OwnNext" ELSE "none")
    /\ SetNext(prev[i], i, arg[Writer])
    /\ i' = i + 1
    /\ UNCHANGED <<heights, born, seen, arg, x, level, node, found, prev, height>>

(***************************************************************************)
(* The specification.  It starts where the constructor ends: head_'s       *)
(* next_[] all nullptr, max_height_ 1, and every thread has seen that.     *)
(***************************************************************************)
Init ==
    /\ clock = 0
    /\ stores = {[node |-> Head, level |-> l, at |-> 0, val |-> Nil, rel |-> TRUE] : l \in Levels}
    /\ heights = {[at |-> 0, val |-> 1]}
    /\ born = [k \in Keys |-> 0]
    /\ seen = [r \in Readers |-> 0]
    /\ op = [t \in Threads |-> "none"]
    /\ arg = [t \in Threads |-> Nil]
    /\ x = [t \in Threads |-> Head]
    /\ level = [t \in Threads |-> 0]
    /\ node = [r \in Readers |-> Nil]
    /\ found = [r \in Readers |-> FALSE]
    /\ prev = [l \in Levels |-> Wild]
    /\ height = 1
    /\ i = 0

Search(t) == FindGreaterOrEqual(t) \/ (t \in Readers /\ (FindLessThan(t) \/ FindLast(t)))

LinkNode == RaiseHeight \/ NewNode \/ OwnNext \/ PrevNext

Next ==
    \/ \E k \in Keys : Insert(k)
    \/ RaiseHeight
    \/ NewNode
    \/ OwnNext
    \/ PrevNext
    \/ \E t \in Threads : FindGreaterOrEqual(t)
    \/ \E r \in Readers :
        \/ FindLessThan(r)
        \/ FindLast(r)
        \/ \E k \in Keys : Contains(r, k)
        \/ \E k \in Keys : Seek(r, k)
        \/ SeekToLast(r)
        \/ Prev(r)
        \/ IterNext(r)
        \/ SeekToFirst(r)
        \/ Synchronize(r)

Spec == Init /\ [][Next]_vars

\* A thread inside an operation keeps running; nothing makes it start one.
Fairness ==
    /\ \A t \in Threads : WF_vars(Search(t))
    /\ WF_vars(LinkNode)

FairSpec == Spec /\ Fairness

(***************************************************************************)
(* Properties.                                                             *)
(***************************************************************************)
\* The keys on level l after the writer's v-th store.
LinkedAt(l, v) == {k \in Keys : \E s \in stores : s.level = l /\ s.val = k /\ s.at <= v}

\* Type invariant.
TypeOK ==
    /\ clock \in Nat
    /\ stores \subseteq Store
    /\ heights \subseteq [at: Nat, val: 1 .. kMaxHeight]
    /\ born \in [Keys -> Nat]
    /\ seen \in [Readers -> Nat]
    /\ op \in [Threads -> ReaderOps \cup WriterOps]
    /\ op[Writer] \in WriterOps /\ \A r \in Readers : op[r] \in ReaderOps
    /\ arg \in [Threads -> Keys \cup {Nil}]
    /\ x \in [Threads -> Nodes]
    /\ level \in [Threads -> Levels]
    /\ node \in [Readers -> Keys \cup {Nil}]
    /\ found \in [Readers -> BOOLEAN]
    /\ prev \in [Levels -> Nodes \cup {Wild}]
    /\ height \in 1 .. kMaxHeight
    /\ i \in Nat

\* No thread follows an uninitialised or out-of-bounds next_[] slot, and none reads a
\* node's key without the node's construction happening before (Node::Next/SetNext).
NoWildRead == \A t \in Threads : op[t] # "wild"

\* In every view a reader can have, a node on a level points on that level to the
\* nearest larger key of the level: no level of the list skips, repeats or loses a
\* node while Insert links one (Insert's loop).
LevelsExact ==
    \A v \in 0 .. clock, l \in Levels : \A n \in LinkedAt(l, v) \cup {Head} :
        \E s \in StoresTo(n, l) :
            /\ s.at <= v
            /\ \A u \in StoresTo(n, l) : u.at <= v => u.at <= s.at
            /\ s.val \in LinkedAt(l, v) \cup {Nil}
            /\ s.val # Nil => s.val > n
            /\ \A k \in LinkedAt(l, v) : k > n => s.val # Nil /\ s.val <= k

\* In every view, a key on a level is on the level below, so that a search may go down
\* from where it stands (Insert links bottom up).
LevelsNested ==
    \A v \in 0 .. clock : \A l \in Levels \ {0} : LinkedAt(l, v) \subseteq LinkedAt(l - 1, v)

\* Every operation that starts ends: searches go right or down only, and a writer that
\* keeps inserting cannot hold a reader back.
OperationsEnd == \A t \in Threads : op[t] # "none" ~> op[t] = "none"

\* What an ordered set sees of the list.
Snapshots == {LinkedAt(0, v) : v \in 0 .. clock}

Views == [r \in Readers |-> LinkedAt(0, seen[r])]

ReaderOp == [r \in Readers |-> op[r]]

ReaderArg == [r \in Readers |-> arg[r]]

Abstract == INSTANCE OrderedSet WITH
    snapshots <- Snapshots, view <- Views, op <- ReaderOp, arg <- ReaderArg

\* The list implements the ordered set: every answer of Contains and of an Iterator is
\* exact on a set of keys the list was, at least as new as all the reader has seen.
ImplementsOrderedSet == Abstract!Spec
===========================================================================
