---------------------------- MODULE OrderedSet ----------------------------
(***************************************************************************)
(* What db/skiplist.h promises: one writer inserts keys, and every reader  *)
(* query (Contains and the operations of an Iterator) is answered exactly, *)
(* on a set the list really was at some moment.  A reader's moments never  *)
(* go back, but without other synchronisation they may lag behind the      *)
(* writer, because the list is read with acquire loads and no lock.        *)
(***************************************************************************)
EXTENDS Integers

CONSTANTS Keys, Readers, Nil

VARIABLES snapshots,    \* every set of keys the list has been, a chain
          view,         \* the snapshot a reader's answers are at least as new as
          op, arg,      \* the query a reader is waiting for ("none" if idle)
          node,         \* the key a reader's Iterator is at, or Nil
          found         \* a reader's last Contains answer

vars == <<snapshots, view, op, arg, node, found>>

Members == UNION snapshots

\* The least and the greatest key of a set of keys, Nil if there is none.
Least(S) == IF S = {} THEN Nil ELSE CHOOSE k \in S : \A j \in S : k <= j

Greatest(S) == IF S = {} THEN Nil ELSE CHOOSE k \in S : \A j \in S : j <= k

\* Where an Iterator at n stands after operation o with target a on the set v.
Position(v, o, a, n) ==
    CASE o = "Seek"        -> Least({k \in v : k >= a})
      [] o = "SeekToFirst" -> Least(v)
      [] o = "Next"        -> Least({k \in v : k > n})
      [] o = "Prev"        -> Greatest({k \in v : k < n})
      [] o = "SeekToLast"  -> Greatest(v)
      [] OTHER             -> n

Init ==
    /\ snapshots = {{}}
    /\ view = [r \in Readers |-> {}]
    /\ op = [r \in Readers |-> "none"]
    /\ arg = [r \in Readers |-> Nil]
    /\ node = [r \in Readers |-> Nil]
    /\ found = [r \in Readers |-> FALSE]

\* The writer adds a key that is not there yet.
Insert(k) ==
    /\ k \notin Members
    /\ snapshots' = snapshots \cup {Members \cup {k}}
    /\ UNCHANGED <<view, op, arg, node, found>>

\* The snapshots reader r may move to: none older than what it has seen.
Newer(r) == {v \in snapshots : view[r] \subseteq v}

\* The reader learns of more insertions.
Advance(r) ==
    /\ \E v \in Newer(r) : view' = [view EXCEPT ![r] = v]
    /\ UNCHANGED <<snapshots, op, arg, node, found>>

\* The reader starts a query that takes several steps; Prev needs a Valid Iterator.
Request(r, o, a) ==
    /\ op[r] = "none"
    /\ o = "Prev" => node[r] # Nil
    /\ op' = [op EXCEPT ![r] = o]
    /\ arg' = [arg EXCEPT ![r] = a]
    /\ UNCHANGED <<snapshots, view, node, found>>

\* The query is answered, on a snapshot at least as new as the reader's view.
Reply(r) ==
    /\ op[r] # "none"
    /\ \E v \in Newer(r) :
        /\ view' = [view EXCEPT ![r] = v]
        /\ node' = [node EXCEPT ![r] = Position(v, op[r], arg[r], node[r])]
        /\ found' = [found EXCEPT ![r] = IF op[r] = "Contains" THEN arg[r] \in v ELSE @]
    /\ op' = [op EXCEPT ![r] = "none"]
    /\ arg' = [arg EXCEPT ![r] = Nil]
    /\ UNCHANGED snapshots

\* Next and SeekToFirst take one load, so one step; Next needs a Valid Iterator.
Step(r, o) ==
    /\ op[r] = "none"
    /\ o = "Next" => node[r] # Nil
    /\ \E v \in Newer(r) :
        /\ view' = [view EXCEPT ![r] = v]
        /\ node' = [node EXCEPT ![r] = Position(v, o, arg[r], node[r])]
    /\ UNCHANGED <<snapshots, op, arg, found>>

Next ==
    \/ \E k \in Keys : Insert(k)
    \/ \E r \in Readers :
        \/ Advance(r)
        \/ \E o \in {"Contains", "Seek", "SeekToLast", "Prev"}, a \in Keys \cup {Nil} : Request(r, o, a)
        \/ Reply(r)
        \/ \E o \in {"Next", "SeekToFirst"} : Step(r, o)

Spec == Init /\ [][Next]_vars
============================================================================
