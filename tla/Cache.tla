------------------------------- MODULE Cache -------------------------------
(***************************************************************************)
(* What include/cache.h promises: a map from keys to entries, to which     *)
(* clients hold handles.  A value lives exactly while it is cached or      *)
(* held.  Each key belongs to a part of the cache.  A part whose cached    *)
(* entries cost more than its capacity gives up those that have been idle  *)
(* (held by nobody) longest, no more of them than it must, never a held    *)
(* one.                                                                    *)
(***************************************************************************)
EXTENDS Integers, SequencesExt

CONSTANTS Keys, Entries, Charges, Parts, Nil

VARIABLES part,         \* the part of each key
          capacity,     \* of a part; 0 turns caching off
          cached,       \* the entry of each key, or Nil
          cost,         \* what an entry costs while it is cached, 0 otherwise
          idle,         \* per part: the cached entries nobody holds, oldest first
          handles,      \* per entry: the handles clients hold
          alive,        \* the entries whose deleter has not been called
          closed        \* the cache has been destroyed

vars == <<part, capacity, cached, cost, idle, handles, alive, closed>>

CachedEntries == {cached[k] : k \in Keys} \ {Nil}

Members(p) == {e \in Entries : \E k \in Keys : cached[k] = e /\ part[k] = p}

Cost(S) == MapThenSumSet(LAMBDA e : cost[e], S)

\* The entries that keys leave to their holders; those nobody holds die.
Leave(gone) ==
    /\ cached' = [k \in Keys |-> IF cached[k] \in gone THEN Nil ELSE cached[k]]
    /\ cost' = [e \in Entries |-> IF e \in gone THEN 0 ELSE cost[e]]
    /\ alive' = {e \in alive : e \in gone => handles[e] > 0}

\* How many of the entries left, the oldest first, part p gives up for a new one that costs
\* c and replaces old.
Oldest(left, n) == ToSet(SubSeq(left, 1, n))

Evictions(p, left, old, c) ==
    Min({n \in 0 .. Len(left) : n = Len(left) \/ c + Cost(Members(p) \ (Oldest(left, n) \cup {old})) <= capacity})

\* A value is inserted and a handle to it returned; it replaces the key's entry.
Insert(k, e, c) ==
    LET left == RemoveFirst(idle[part[k]], cached[k])
        n == Evictions(part[k], left, cached[k], c)
        gone == Oldest(left, n) \cup {cached[k]}
    IN  /\ ~ closed
        /\ e \notin alive
        /\ handles' = [handles EXCEPT ![e] = 1]
        /\ IF capacity > 0
           THEN /\ cached' = [j \in Keys |-> IF j = k THEN e ELSE IF cached[j] \in gone THEN Nil ELSE cached[j]]
                /\ cost' = [f \in Entries |-> IF f = e THEN c ELSE IF f \in gone THEN 0 ELSE cost[f]]
                /\ alive' = {f \in alive : f \in gone => handles[f] > 0} \cup {e}
                /\ idle' = [idle EXCEPT ![part[k]] = SubSeq(left, n + 1, Len(left))]
           ELSE /\ alive' = alive \cup {e}
                /\ UNCHANGED <<cached, cost, idle>>
        /\ UNCHANGED <<part, capacity, closed>>

Lookup(k) ==
    /\ ~ closed
    /\ cached[k] # Nil
    /\ idle' = [idle EXCEPT ![part[k]] = RemoveFirst(@, cached[k])]
    /\ handles' = [handles EXCEPT ![cached[k]] = @ + 1]
    /\ UNCHANGED <<part, capacity, cached, cost, alive, closed>>

\* The last handle's release makes a cached entry the newest of the idle ones.
Release(e) ==
    /\ ~ closed
    /\ handles[e] > 0
    /\ handles' = [handles EXCEPT ![e] = @ - 1]
    /\ idle' = [p \in Parts |-> IF handles[e] = 1 /\ e \in Members(p) THEN Append(idle[p], e) ELSE idle[p]]
    /\ alive' = IF handles[e] = 1 /\ e \notin CachedEntries THEN alive \ {e} ELSE alive
    /\ UNCHANGED <<part, capacity, cached, cost, closed>>

Erase(k) ==
    /\ ~ closed
    /\ Leave({cached[k]})
    /\ idle' = [idle EXCEPT ![part[k]] = RemoveFirst(@, cached[k])]
    /\ UNCHANGED <<part, capacity, handles, closed>>

\* A part gives up all its idle entries.
Prune(p) ==
    /\ ~ closed
    /\ Leave(ToSet(idle[p]))
    /\ idle' = [idle EXCEPT ![p] = <<>>]
    /\ UNCHANGED <<part, capacity, handles, closed>>

\* Only a value a client still holds outlives the cache.
Destroy ==
    /\ ~ closed
    /\ \A e \in CachedEntries : handles[e] = 0
    /\ closed' = TRUE
    /\ Leave(CachedEntries)
    /\ idle' = [p \in Parts |-> <<>>]
    /\ UNCHANGED <<part, capacity, handles>>

Init ==
    /\ part \in [Keys -> Parts]
    /\ capacity \in Nat
    /\ cached = [k \in Keys |-> Nil]
    /\ cost = [e \in Entries |-> 0]
    /\ idle = [p \in Parts |-> <<>>]
    /\ handles = [e \in Entries |-> 0]
    /\ alive = {}
    /\ closed = FALSE

Next ==
    \/ \E k \in Keys, e \in Entries, c \in Charges : Insert(k, e, c)
    \/ \E k \in Keys : Lookup(k) \/ Erase(k)
    \/ \E e \in Entries : Release(e)
    \/ \E p \in Parts : Prune(p)
    \/ Destroy

Spec == Init /\ [][Next]_vars
============================================================================
