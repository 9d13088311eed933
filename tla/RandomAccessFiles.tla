------------------------- MODULE RandomAccessFiles -------------------------
(***************************************************************************)
(* The read-only files of util/env_posix.cc and the two Limiters that      *)
(* bound them: a file is mapped while mmap_limiter_ allows, else it keeps  *)
(* its descriptor while fd_limiter_ allows, else it is opened anew for     *)
(* every read.  Each thread creates, reads and destroys a file of its own, *)
(* again and again; system calls and atomic operations are one step each.  *)
(*                                                                         *)
(* The Limiters' counters are relaxed atomics: every access is a read-     *)
(* modify-write, so each sees the last one of its counter.                 *)
(***************************************************************************)
EXTENDS Integers, FiniteSets

CONSTANTS
    Threads,
    MaxMmaps, MaxOpenFiles      \* the Limiters' max_acquires_

ASSUME LimitAssumption == MaxMmaps \in Nat /\ MaxOpenFiles \in Nat /\ IsFiniteSet(Threads)

Limiters == {"mmap", "fd"}

max_acquires_ == [l \in Limiters |-> IF l = "mmap" THEN MaxMmaps ELSE MaxOpenFiles]

VARIABLES
    pc,                 \* per thread: the step it is at; between calls, the file it has
    acquires_allowed_,  \* per Limiter
    open,               \* the descriptors open in the process
    failed              \* an assert of Limiter has failed

vars == <<pc, acquires_allowed_, open, failed>>

\* "none": no file.  "mapped", "permanent", "temporary": a file of that kind, idle.
Idle == {"none", "mapped", "permanent", "temporary"}

\* "mmap" and "fd": about to Acquire; "mmap-" and "fd-": about to take a failed Acquire
\* back; the others are named after what is done next.
Busy == {"mmap", "mmap-", "fd", "fd-", "map", "close mapped", "close unmapped", "close temporary",
         "release mmap", "release fd", "close read"}

At(t, from, to) == pc[t] = from /\ pc' = [pc EXCEPT ![t] = to]

Open == open' = open + 1

Close == open' = open - 1

\* Mutant: one more than the limit.
AcquireOneMore(t, l, yes, no) ==
    /\ acquires_allowed_' = [acquires_allowed_ EXCEPT ![l] = @ - 1]
    /\ At(t, l, IF acquires_allowed_[l] >= 0 THEN yes ELSE no)
    /\ UNCHANGED <<open, failed>>

\* Limiter::Acquire: fetch_sub, and done if the old value was positive.
Acquire(t, l, yes, no) ==
    /\ acquires_allowed_' = [acquires_allowed_ EXCEPT ![l] = @ - 1]
    /\ At(t, l, IF acquires_allowed_[l] > 0 THEN yes ELSE no)
    /\ UNCHANGED <<open, failed>>

\* fetch_add and the assert that the counter was below its maximum: the end of an
\* Acquire that fails, and Release.
FetchAdd(l) ==
    /\ acquires_allowed_' = [acquires_allowed_ EXCEPT ![l] = @ + 1]
    /\ failed' = (failed \/ acquires_allowed_[l] >= max_acquires_[l])

\* NewRandomAccessFile: open()
NewRandomAccessFile(t) ==
    /\ At(t, "none", "mmap")
    /\ Open
    /\ UNCHANGED <<acquires_allowed_, failed>>

AcquireMmap(t) == Acquire(t, "mmap", "map", "mmap-")

\* No mapping left: the PosixRandomAccessFile constructor asks the other Limiter.
RefuseMmap(t) ==
    /\ At(t, "mmap-", "fd")
    /\ FetchAdd("mmap")
    /\ UNCHANGED open

\* GetFileSize and mmap(), either of which may fail.
Map(t) ==
    /\ At(t, "map", "close mapped") \/ At(t, "map", "close unmapped")
    /\ UNCHANGED <<acquires_allowed_, open, failed>>

CloseMapped(t) ==
    /\ At(t, "close mapped", "mapped")
    /\ Close
    /\ UNCHANGED <<acquires_allowed_, failed>>

CloseUnmapped(t) ==
    /\ At(t, "close unmapped", "release mmap")
    /\ Close
    /\ UNCHANGED <<acquires_allowed_, failed>>

\* Mutant: the error path forgets to give the mapping back.
ReleaseMmapNot(t) ==
    /\ At(t, "release mmap", "none")
    /\ UNCHANGED <<acquires_allowed_, open, failed>>

\* Limiter::Release, after an error or in the destructor of PosixMmapReadableFile
ReleaseMmap(t) ==
    /\ At(t, "release mmap", "none")
    /\ FetchAdd("mmap")
    /\ UNCHANGED open

AcquireFd(t) == Acquire(t, "fd", "permanent", "fd-")

RefuseFd(t) ==
    /\ At(t, "fd-", "close temporary")
    /\ FetchAdd("fd")
    /\ UNCHANGED open

\* Mutant: a file that may not keep its descriptor keeps it open.
CloseTemporaryNot(t) ==
    /\ At(t, "close temporary", "temporary")
    /\ UNCHANGED <<acquires_allowed_, open, failed>>

\* The constructor closes a descriptor it may not keep.
CloseTemporary(t) ==
    /\ At(t, "close temporary", "temporary")
    /\ Close
    /\ UNCHANGED <<acquires_allowed_, failed>>

\* Read opens a file that has no descriptor for the length of a pread(); in the other
\* cases it changes nothing, nor does it if open() fails.
Read(t) ==
    /\ At(t, "temporary", "close read")
    /\ Open
    /\ UNCHANGED <<acquires_allowed_, failed>>

CloseRead(t) ==
    /\ At(t, "close read", "temporary")
    /\ Close
    /\ UNCHANGED <<acquires_allowed_, failed>>

\* The destructors: munmap(), or close(), and then Release.
DestroyMapped(t) ==
    /\ At(t, "mapped", "release mmap")
    /\ UNCHANGED <<acquires_allowed_, open, failed>>

DestroyPermanent(t) ==
    /\ At(t, "permanent", "release fd")
    /\ Close
    /\ UNCHANGED <<acquires_allowed_, failed>>

ReleaseFd(t) ==
    /\ At(t, "release fd", "none")
    /\ FetchAdd("fd")
    /\ UNCHANGED open

DestroyTemporary(t) ==
    /\ At(t, "temporary", "none")
    /\ UNCHANGED <<acquires_allowed_, open, failed>>

Init ==
    /\ pc = [t \in Threads |-> "none"]
    /\ acquires_allowed_ = max_acquires_
    /\ open = 0
    /\ failed = FALSE

Next ==
    \E t \in Threads :
        \/ NewRandomAccessFile(t)
        \/ AcquireMmap(t)
        \/ RefuseMmap(t)
        \/ Map(t)
        \/ CloseMapped(t)
        \/ CloseUnmapped(t)
        \/ ReleaseMmap(t)
        \/ AcquireFd(t)
        \/ RefuseFd(t)
        \/ CloseTemporary(t)
        \/ Read(t)
        \/ CloseRead(t)
        \/ DestroyMapped(t)
        \/ DestroyPermanent(t)
        \/ ReleaseFd(t)
        \/ DestroyTemporary(t)

Spec == Init /\ [][Next]_vars

(***************************************************************************)
(* Properties.                                                             *)
(***************************************************************************)
\* Type invariant.
TypeOK ==
    /\ pc \in [Threads -> Idle \cup Busy]
    /\ acquires_allowed_ \in [Limiters -> Int]
    /\ open \in Nat
    /\ failed \in BOOLEAN

Number(S) == Cardinality({t \in Threads : pc[t] \in S})

\* The steps of a thread that holds one unit of a Limiter.
Holding == [l \in Limiters |->
    IF l = "mmap" THEN {"map", "close mapped", "close unmapped", "mapped", "release mmap"}
                  ELSE {"permanent", "release fd"}]

\* ... and of one whose Acquire has failed and still has to restore the counter.
Failing == [l \in Limiters |-> IF l = "mmap" THEN {"mmap-"} ELSE {"fd-"}]

\* A Limiter's counter is what is left, less the Acquires that have failed and not yet
\* said so: every unit goes back once, on error paths too, and no assert fails.
CountersExact ==
    /\ ~ failed
    /\ \A l \in Limiters :
        acquires_allowed_[l] = max_acquires_[l] - Number(Holding[l]) - Number(Failing[l])

\* No more files are mapped, and no more keep a descriptor, than the limits say,
\* whatever Acquires and Releases overlap.
LimitsHold == \A l \in Limiters : Number(Holding[l]) <= max_acquires_[l]

\* The open descriptors are those of permanent files and of calls under way: none leaks
\* and none is closed twice.
DescriptorsExact ==
    open = Number({"permanent", "mmap", "mmap-", "fd", "fd-", "map", "close mapped",
                   "close unmapped", "close temporary", "close read"})
=============================================================================
