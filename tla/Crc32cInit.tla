----------------------------- MODULE Crc32cInit -----------------------------
(***************************************************************************)
(* How a call of crc32c::Extend (util/crc32c.cc) begins: the function's    *)
(* static variable is initialised by the first thread that gets there,     *)
(* with a call that leads to Extend again, while the others wait.          *)
(***************************************************************************)
EXTENDS Integers

CONSTANTS Threads, NoThread

VARIABLES
    guard,          \* of the static variable: "untouched", "pending" or "done"
    initialiser,    \* the thread that initialises it
    depth,          \* per thread: the calls of Extend it is in
    process         \* "running" or "terminated"

vars == <<guard, initialiser, depth, process>>

\* A thread calls Value or Extend.
Call(t) ==
    /\ process = "running" /\ depth[t] = 0
    /\ depth' = [depth EXCEPT ![t] = 1]
    /\ UNCHANGED <<guard, initialiser, process>>

\* CanAccelerateCRC32C calls AcceleratedCRC32C, and that calls Extend.
Initialise(t) ==
    /\ process = "running" /\ depth[t] > 0 /\ guard = "untouched"
    /\ guard' = "pending"
    /\ initialiser' = t
    /\ depth' = [depth EXCEPT ![t] = @ + 1]
    /\ UNCHANGED process

\* The thread comes to a variable that it is itself initialising.  The C++ standard leaves
\* that undefined; g++'s __cxa_guard_acquire throws, and nobody catches it.
InitialiseAgain(t) ==
    /\ process = "running" /\ depth[t] > 0 /\ guard = "pending" /\ initialiser = t
    /\ process' = "terminated"
    /\ UNCHANGED <<guard, initialiser, depth>>

\* Once the variable is initialised, Extend computes and returns.  It never comes to that.
Return(t) ==
    /\ process = "running" /\ depth[t] > 0 /\ guard = "done"
    /\ depth' = [depth EXCEPT ![t] = @ - 1]
    /\ UNCHANGED <<guard, initialiser, process>>

Init ==
    /\ guard = "untouched" /\ initialiser = NoThread
    /\ depth = [t \in Threads |-> 0]
    /\ process = "running"

Next ==
    \E t \in Threads : Call(t) \/ Initialise(t) \/ InitialiseAgain(t) \/ Return(t)

Spec == Init /\ [][Next]_vars

\* A call of Value or Extend returns a checksum (crc32c.h) and does not end the process
\* it is made in, whichever thread makes it first.
CallsReturn == process = "running"
=============================================================================
