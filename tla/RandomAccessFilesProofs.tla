---------------------- MODULE RandomAccessFilesProofs ----------------------
(***************************************************************************)
(* Proofs about RandomAccessFiles, for any number of threads and any       *)
(* limits.                                                                 *)
(***************************************************************************)
EXTENDS RandomAccessFiles, FiniteSetTheorems, TLAPS

\* The steps of a thread that has a descriptor open.
HasDescriptor == {"permanent", "mmap", "mmap-", "fd", "fd-", "map", "close mapped",
                  "close unmapped", "close temporary", "close read"}

\* What CountersExact says of one Limiter.
Counts(l) == acquires_allowed_[l] = max_acquires_[l] - Number(Holding[l]) - Number(Failing[l])

\* The inductive invariant.  LimitsHold does not follow from the counters, which may be
\* negative; it is kept because an Acquire that succeeds has seen a positive one.
FilesInv ==
    /\ TypeOK
    /\ ~ failed
    /\ \A l \in Limiters : Counts(l)
    /\ LimitsHold
    /\ DescriptorsExact

(***************************************************************************)
(* Counting threads.                                                       *)
(***************************************************************************)
LEMMA NumberType ==
    ASSUME NEW S
    PROVE  Number(S) \in Nat
<1>1. IsFiniteSet({t \in Threads : pc[t] \in S})
  BY LimitAssumption, FS_Subset
<1> QED
  BY <1>1, FS_CardinalityType DEF Number

\* A step of one thread changes the number of threads at certain steps by what the thread
\* itself contributes.
LEMMA NumberStep ==
    ASSUME TypeOK, NEW t \in Threads, NEW from, NEW to, At(t, from, to), NEW S
    PROVE  /\ from \in S /\ to \in S => Number(S)' = Number(S)
           /\ from \notin S /\ to \notin S => Number(S)' = Number(S)
           /\ from \notin S /\ to \in S => Number(S)' = Number(S) + 1
           /\ from \in S /\ to \notin S => Number(S)' = Number(S) - 1 /\ Number(S) >= 1
<1> DEFINE old == {u \in Threads : pc[u] \in S}
           new == {u \in Threads : pc'[u] \in S}
<1>1. pc[t] = from /\ pc'[t] = to /\ \A u \in Threads : u # t => pc'[u] = pc[u]
  BY DEF At, TypeOK
<1>2. IsFiniteSet(old) /\ Number(S) = Cardinality(old) /\ Number(S)' = Cardinality(new)
  BY LimitAssumption, FS_Subset DEF Number
<1>3. CASE (from \in S /\ to \in S) \/ (from \notin S /\ to \notin S)
  <2>1. new = old
    BY <1>1, <1>3
  <2> QED
    BY <1>2, <1>3, <2>1
<1>4. CASE from \notin S /\ to \in S
  <2>1. new = old \cup {t} /\ t \notin old
    BY <1>1, <1>4
  <2> QED
    BY <1>2, <1>4, <2>1, FS_AddElement
<1>5. CASE from \in S /\ to \notin S
  <2>1. new = old \ {t} /\ t \in old
    BY <1>1, <1>5
  <2>2. Cardinality(new) = Cardinality(old) - 1 /\ IsFiniteSet(new)
    BY <1>2, <2>1, FS_RemoveElement
  <2>3. Cardinality(new) \in Nat /\ Cardinality(old) \in Nat
    BY <1>2, <2>2, FS_CardinalityType
  <2> QED
    BY <1>2, <1>5, <2>2, <2>3
<1> QED
  BY <1>3, <1>4, <1>5

(***************************************************************************)
(* What a step of a thread does to the numbers.                            *)
(***************************************************************************)
\* The thread neither gets nor gives back a unit of Limiter l.
LEMMA SameUnits ==
    ASSUME FilesInv, NEW l \in Limiters, NEW t \in Threads, NEW from, NEW to, At(t, from, to),
           from \in Holding[l] <=> to \in Holding[l], from \in Failing[l] <=> to \in Failing[l],
           acquires_allowed_'[l] = acquires_allowed_[l]
    PROVE  Counts(l)' /\ Number(Holding[l])' <= max_acquires_[l]
<1>1. Number(Holding[l])' = Number(Holding[l]) /\ Number(Failing[l])' = Number(Failing[l])
  BY NumberStep DEF FilesInv
<1> QED
  BY <1>1 DEF FilesInv, Counts, LimitsHold

\* It tries to get one.
LEMMA AcquiresUnit ==
    ASSUME FilesInv, NEW l \in Limiters, NEW t \in Threads, NEW from, NEW to, At(t, from, to),
           from \notin Holding[l] \cup Failing[l],
           IF acquires_allowed_[l] > 0 THEN to \in Holding[l] \ Failing[l] ELSE to \in Failing[l] \ Holding[l],
           acquires_allowed_'[l] = acquires_allowed_[l] - 1
    PROVE  Counts(l)' /\ Number(Holding[l])' <= max_acquires_[l]
<1>1. /\ Number(Holding[l]) \in Nat /\ Number(Failing[l]) \in Nat /\ max_acquires_[l] \in Nat
      /\ acquires_allowed_[l] = max_acquires_[l] - Number(Holding[l]) - Number(Failing[l])
      /\ Number(Holding[l]) <= max_acquires_[l]
  BY NumberType, LimitAssumption DEF FilesInv, Counts, LimitsHold, max_acquires_, Limiters
<1>2. CASE acquires_allowed_[l] > 0
  <2>1. Number(Holding[l])' = Number(Holding[l]) + 1 /\ Number(Failing[l])' = Number(Failing[l])
    BY <1>2, NumberStep DEF FilesInv
  <2> QED
    BY <1>1, <1>2, <2>1 DEF Counts
<1>3. CASE ~ (acquires_allowed_[l] > 0)
  <2>1. Number(Holding[l])' = Number(Holding[l]) /\ Number(Failing[l])' = Number(Failing[l]) + 1
    BY <1>3, NumberStep DEF FilesInv
  <2> QED
    BY <1>1, <2>1 DEF Counts
<1> QED
  BY <1>2, <1>3

\* It gives one back, or takes a failed Acquire back: the assert holds.
LEMMA ReturnsUnit ==
    ASSUME FilesInv, NEW l \in Limiters, NEW t \in Threads, NEW from, NEW to, At(t, from, to),
           \/ from \in Holding[l] \ Failing[l]
           \/ from \in Failing[l] \ Holding[l],
           to \notin Holding[l] \cup Failing[l],
           FetchAdd(l)
    PROVE  Counts(l)' /\ Number(Holding[l])' <= max_acquires_[l] /\ ~ failed'
<1>1. /\ Number(Holding[l]) \in Nat /\ Number(Failing[l]) \in Nat /\ max_acquires_[l] \in Nat
      /\ acquires_allowed_[l] = max_acquires_[l] - Number(Holding[l]) - Number(Failing[l])
      /\ Number(Holding[l]) <= max_acquires_[l]
      /\ ~ failed
  BY NumberType, LimitAssumption DEF FilesInv, Counts, LimitsHold, max_acquires_, Limiters
<1>2. acquires_allowed_'[l] = acquires_allowed_[l] + 1
  BY DEF FetchAdd, FilesInv, TypeOK
<1>3. CASE from \in Holding[l] \ Failing[l]
  <2>1. Number(Holding[l])' = Number(Holding[l]) - 1 /\ Number(Holding[l]) >= 1 /\ Number(Failing[l])' = Number(Failing[l])
    BY <1>3, NumberStep DEF FilesInv
  <2>2. Counts(l)' /\ Number(Holding[l])' <= max_acquires_[l] /\ ~ (acquires_allowed_[l] >= max_acquires_[l])
    BY <1>1, <1>2, <2>1 DEF Counts, max_acquires_
  <2> QED
    BY <1>1, <2>2 DEF FetchAdd
<1>4. CASE from \in Failing[l] \ Holding[l]
  <2>1. Number(Holding[l])' = Number(Holding[l]) /\ Number(Failing[l])' = Number(Failing[l]) - 1 /\ Number(Failing[l]) >= 1
    BY <1>4, NumberStep DEF FilesInv
  <2>2. Counts(l)' /\ Number(Holding[l])' <= max_acquires_[l] /\ ~ (acquires_allowed_[l] >= max_acquires_[l])
    BY <1>1, <1>2, <2>1 DEF Counts, max_acquires_
  <2> QED
    BY <1>1, <2>2 DEF FetchAdd
<1> QED
  BY <1>3, <1>4

\* The descriptors follow the steps.
LEMMA DescriptorStep ==
    ASSUME FilesInv, NEW t \in Threads, NEW from, NEW to, At(t, from, to),
           \/ UNCHANGED open /\ (from \in HasDescriptor <=> to \in HasDescriptor)
           \/ Open /\ from \notin HasDescriptor /\ to \in HasDescriptor
           \/ Close /\ from \in HasDescriptor /\ to \notin HasDescriptor
    PROVE  DescriptorsExact' /\ open' \in Nat
<1>1. open = Number(HasDescriptor) /\ Number(HasDescriptor) \in Nat
  BY NumberType DEF FilesInv, DescriptorsExact, HasDescriptor
<1>2. open' = Number(HasDescriptor)'
  BY <1>1, NumberStep DEF FilesInv, Open, Close
<1>3. Number(HasDescriptor)' \in Nat
  BY <1>1, NumberStep DEF FilesInv
<1> QED
  BY <1>2, <1>3 DEF DescriptorsExact, HasDescriptor

(***************************************************************************)
(* The three kinds of steps, and the actions.                              *)
(***************************************************************************)
\* Threads with a unit of Limiter l, or with an Acquire of it to take back.
Involved(l) == Holding[l] \cup Failing[l]

LEMMA QuietStep ==
    ASSUME FilesInv, NEW t \in Threads, NEW from, NEW to \in Idle \cup Busy, At(t, from, to),
           \A l \in Limiters : (from \in Holding[l] <=> to \in Holding[l]) /\ (from \in Failing[l] <=> to \in Failing[l]),
           UNCHANGED <<acquires_allowed_, failed>>,
           DescriptorsExact' /\ open' \in Nat
    PROVE  FilesInv'
<1>1. ASSUME NEW l \in Limiters PROVE Counts(l)' /\ Number(Holding[l])' <= max_acquires_[l]
  BY <1>1, SameUnits
<1>2. TypeOK' /\ ~ failed'
  BY DEF FilesInv, TypeOK, At
<1> QED
  BY <1>1, <1>2 DEF FilesInv, LimitsHold, max_acquires_

LEMMA AcquireStep ==
    ASSUME FilesInv, NEW l \in Limiters, NEW t \in Threads, NEW from, NEW yes \in Idle \cup Busy, NEW no \in Idle \cup Busy,
           from = l, Acquire(t, l, yes, no),
           l \notin Involved(l), yes \in Holding[l] \ Failing[l], no \in Failing[l] \ Holding[l],
           \A m \in Limiters \ {l} : {l, yes, no} \cap Involved(m) = {},
           {l, yes, no} \subseteq HasDescriptor
    PROVE  FilesInv'
<1> DEFINE to == IF acquires_allowed_[l] > 0 THEN yes ELSE no
<1>1. At(t, l, to) /\ UNCHANGED <<open, failed>> /\ to \in Idle \cup Busy
  BY DEF Acquire
<1>2. /\ acquires_allowed_' \in [Limiters -> Int] /\ acquires_allowed_'[l] = acquires_allowed_[l] - 1
      /\ \A m \in Limiters \ {l} : acquires_allowed_'[m] = acquires_allowed_[m]
  BY DEF Acquire, FilesInv, TypeOK
<1>3. Counts(l)' /\ Number(Holding[l])' <= max_acquires_[l]
  BY <1>1, <1>2, AcquiresUnit DEF Involved
<1>4. ASSUME NEW m \in Limiters \ {l} PROVE Counts(m)' /\ Number(Holding[m])' <= max_acquires_[m]
  <2>1. l \notin Holding[m] \cup Failing[m] /\ to \notin Holding[m] \cup Failing[m]
    BY <1>4 DEF Involved
  <2> QED
    BY <1>1, <1>2, <1>4, <2>1, SameUnits
<1>5. DescriptorsExact' /\ open' \in Nat
  BY <1>1, DescriptorStep
<1>6. TypeOK' /\ ~ failed'
  BY <1>1, <1>2, <1>5 DEF FilesInv, TypeOK, At
<1> QED
  BY <1>3, <1>4, <1>5, <1>6 DEF FilesInv, LimitsHold, max_acquires_

LEMMA ReturnStep ==
    ASSUME FilesInv, NEW l \in Limiters, NEW t \in Threads, NEW from, NEW to \in Idle \cup Busy, At(t, from, to),
           FetchAdd(l), UNCHANGED open,
           from \in Holding[l] \ Failing[l] \/ from \in Failing[l] \ Holding[l],
           to \notin Involved(l),
           \A m \in Limiters \ {l} : {from, to} \cap Involved(m) = {},
           from \in HasDescriptor <=> to \in HasDescriptor
    PROVE  FilesInv'
<1>1. /\ acquires_allowed_' \in [Limiters -> Int]
      /\ \A m \in Limiters \ {l} : acquires_allowed_'[m] = acquires_allowed_[m]
  BY DEF FetchAdd, FilesInv, TypeOK
<1>2. Counts(l)' /\ Number(Holding[l])' <= max_acquires_[l] /\ ~ failed'
  BY ReturnsUnit DEF Involved
<1>3. ASSUME NEW m \in Limiters \ {l} PROVE Counts(m)' /\ Number(Holding[m])' <= max_acquires_[m]
  <2>1. from \notin Holding[m] \cup Failing[m] /\ to \notin Holding[m] \cup Failing[m]
    BY <1>3 DEF Involved
  <2> QED
    BY <1>1, <1>3, <2>1, SameUnits
<1>4. DescriptorsExact' /\ open' \in Nat
  BY DescriptorStep
<1>5. failed' = FALSE
  BY <1>2 DEF FetchAdd, FilesInv, TypeOK
<1>6. TypeOK'
  BY <1>1, <1>4, <1>5 DEF FilesInv, TypeOK, At
<1> QED
  BY <1>2, <1>3, <1>4, <1>6 DEF FilesInv, LimitsHold, max_acquires_

\* Every action is a step of one of these kinds.
LEMMA StepKeeps ==
    ASSUME FilesInv, NEW t \in Threads,
           \/ NewRandomAccessFile(t) \/ AcquireMmap(t) \/ RefuseMmap(t) \/ Map(t) \/ CloseMapped(t)
           \/ CloseUnmapped(t) \/ ReleaseMmap(t) \/ AcquireFd(t) \/ RefuseFd(t) \/ CloseTemporary(t)
           \/ Read(t) \/ CloseRead(t) \/ DestroyMapped(t) \/ DestroyPermanent(t) \/ ReleaseFd(t)
           \/ DestroyTemporary(t)
    PROVE  FilesInv'
<1> USE DEF Holding, Failing, HasDescriptor, Idle, Busy, Limiters, Involved
<1>1. CASE NewRandomAccessFile(t)
  <2>1. At(t, "none", "mmap") /\ UNCHANGED <<acquires_allowed_, failed>>
    BY <1>1 DEF NewRandomAccessFile
  <2>2. DescriptorsExact' /\ open' \in Nat
    BY <1>1, <2>1, DescriptorStep DEF NewRandomAccessFile
  <2> QED
    BY <2>1, <2>2, QuietStep
<1>2. CASE CloseMapped(t)
  <2>1. At(t, "close mapped", "mapped") /\ UNCHANGED <<acquires_allowed_, failed>>
    BY <1>2 DEF CloseMapped
  <2>2. DescriptorsExact' /\ open' \in Nat
    BY <1>2, <2>1, DescriptorStep DEF CloseMapped
  <2> QED
    BY <2>1, <2>2, QuietStep
<1>3. CASE CloseUnmapped(t)
  <2>1. At(t, "close unmapped", "release mmap") /\ UNCHANGED <<acquires_allowed_, failed>>
    BY <1>3 DEF CloseUnmapped
  <2>2. DescriptorsExact' /\ open' \in Nat
    BY <1>3, <2>1, DescriptorStep DEF CloseUnmapped
  <2> QED
    BY <2>1, <2>2, QuietStep
<1>4. CASE CloseTemporary(t)
  <2>1. At(t, "close temporary", "temporary") /\ UNCHANGED <<acquires_allowed_, failed>>
    BY <1>4 DEF CloseTemporary
  <2>2. DescriptorsExact' /\ open' \in Nat
    BY <1>4, <2>1, DescriptorStep DEF CloseTemporary
  <2> QED
    BY <2>1, <2>2, QuietStep
<1>5. CASE Read(t)
  <2>1. At(t, "temporary", "close read") /\ UNCHANGED <<acquires_allowed_, failed>>
    BY <1>5 DEF Read
  <2>2. DescriptorsExact' /\ open' \in Nat
    BY <1>5, <2>1, DescriptorStep DEF Read
  <2> QED
    BY <2>1, <2>2, QuietStep
<1>6. CASE CloseRead(t)
  <2>1. At(t, "close read", "temporary") /\ UNCHANGED <<acquires_allowed_, failed>>
    BY <1>6 DEF CloseRead
  <2>2. DescriptorsExact' /\ open' \in Nat
    BY <1>6, <2>1, DescriptorStep DEF CloseRead
  <2> QED
    BY <2>1, <2>2, QuietStep
<1>7. CASE DestroyMapped(t)
  <2>1. At(t, "mapped", "release mmap") /\ UNCHANGED <<acquires_allowed_, failed>>
    BY <1>7 DEF DestroyMapped
  <2>2. DescriptorsExact' /\ open' \in Nat
    BY <1>7, <2>1, DescriptorStep DEF DestroyMapped
  <2> QED
    BY <2>1, <2>2, QuietStep
<1>8. CASE DestroyPermanent(t)
  <2>1. At(t, "permanent", "release fd") /\ UNCHANGED <<acquires_allowed_, failed>>
    BY <1>8 DEF DestroyPermanent
  <2>2. DescriptorsExact' /\ open' \in Nat
    BY <1>8, <2>1, DescriptorStep DEF DestroyPermanent
  <2> QED
    BY <2>1, <2>2, QuietStep
<1>9. CASE DestroyTemporary(t)
  <2>1. At(t, "temporary", "none") /\ UNCHANGED <<acquires_allowed_, failed>>
    BY <1>9 DEF DestroyTemporary
  <2>2. DescriptorsExact' /\ open' \in Nat
    BY <1>9, <2>1, DescriptorStep DEF DestroyTemporary
  <2> QED
    BY <2>1, <2>2, QuietStep
<1>10. CASE Map(t)
  <2>1. /\ At(t, "map", "close mapped") \/ At(t, "map", "close unmapped")
        /\ UNCHANGED <<acquires_allowed_, open, failed>>
    BY <1>10 DEF Map
  <2>2. DescriptorsExact' /\ open' \in Nat
    BY <2>1, DescriptorStep
  <2> QED
    BY <2>1, <2>2, QuietStep
<1>11. CASE AcquireMmap(t)
  BY <1>11, AcquireStep DEF AcquireMmap
<1>12. CASE AcquireFd(t)
  BY <1>12, AcquireStep DEF AcquireFd
<1>13. CASE RefuseMmap(t)
  <2>1. At(t, "mmap-", "fd") /\ FetchAdd("mmap") /\ UNCHANGED open
    BY <1>13 DEF RefuseMmap
  <2> QED
    BY <2>1, ReturnStep
<1>14. CASE ReleaseMmap(t)
  <2>1. At(t, "release mmap", "none") /\ FetchAdd("mmap") /\ UNCHANGED open
    BY <1>14 DEF ReleaseMmap
  <2> QED
    BY <2>1, ReturnStep
<1>15. CASE RefuseFd(t)
  <2>1. At(t, "fd-", "close temporary") /\ FetchAdd("fd") /\ UNCHANGED open
    BY <1>15 DEF RefuseFd
  <2> QED
    BY <2>1, ReturnStep
<1>16. CASE ReleaseFd(t)
  <2>1. At(t, "release fd", "none") /\ FetchAdd("fd") /\ UNCHANGED open
    BY <1>16 DEF ReleaseFd
  <2> QED
    BY <2>1, ReturnStep
<1> QED
  BY <1>1, <1>2, <1>3, <1>4, <1>5, <1>6, <1>7, <1>8, <1>9, <1>10, <1>11, <1>12, <1>13, <1>14, <1>15, <1>16

LEMMA InitKeeps == Init => FilesInv
<1> SUFFICES ASSUME Init PROVE FilesInv
  OBVIOUS
<1>1. ASSUME NEW S, "none" \notin S PROVE Number(S) = 0
  <2>1. {t \in Threads : pc[t] \in S} = {}
    BY <1>1 DEF Init
  <2> QED
    BY <2>1, FS_EmptySet DEF Number
<1>2. \A l \in Limiters : Number(Holding[l]) = 0 /\ Number(Failing[l]) = 0
  BY <1>1 DEF Limiters, Holding, Failing
<1>3. Number(HasDescriptor) = 0
  BY <1>1 DEF HasDescriptor
<1>4. max_acquires_ \in [Limiters -> Nat]
  BY LimitAssumption DEF max_acquires_, Limiters
<1>5. TypeOK
  <2>1. pc \in [Threads -> Idle \cup Busy]
    BY DEF Init, Idle
  <2>2. acquires_allowed_ \in [Limiters -> Int]
    BY <1>4 DEF Init
  <2>3. open \in Nat
    BY DEF Init
  <2>4. failed \in BOOLEAN
    BY Zenon DEF Init
  <2> QED
    BY <2>1, <2>2, <2>3, <2>4 DEF TypeOK
<1>6. ~ failed /\ (\A l \in Limiters : Counts(l)) /\ LimitsHold
  BY <1>2, <1>4 DEF Init, Counts, LimitsHold
<1> QED
  BY <1>3, <1>5, <1>6 DEF FilesInv, Init, DescriptorsExact, HasDescriptor

LEMMA FilesInvariant == Spec => []FilesInv
<1>1. FilesInv /\ [Next]_vars => FilesInv'
  <2> SUFFICES ASSUME FilesInv, [Next]_vars PROVE FilesInv'
    OBVIOUS
  <2>1. CASE Next
    BY <2>1, StepKeeps DEF Next
  <2>2. CASE UNCHANGED vars
    BY <2>2 DEF vars, FilesInv, TypeOK, Counts, LimitsHold, DescriptorsExact, Number
  <2> QED
    BY <2>1, <2>2
<1> QED
  BY <1>1, InitKeeps, PTL DEF Spec

(***************************************************************************)
(* Theorems.                                                               *)
(***************************************************************************)
\* The counter of each Limiter is what is left of it, less the failed Acquires under way,
\* and none of the asserts in Acquire and Release fails, for any limits and any number of
\* threads that create, read and destroy files at the same time.
THEOREM CountersAreExact == Spec => []CountersExact
<1>1. FilesInv => CountersExact
  BY DEF FilesInv, CountersExact, Counts
<1> QED
  BY <1>1, FilesInvariant, PTL

\* mmap_limiter_ and fd_limiter_ keep the files that are mapped, and those that keep their
\* descriptor, within their limits.
THEOREM LimitsAreKept == Spec => []LimitsHold
<1>1. FilesInv => LimitsHold
  BY DEF FilesInv
<1> QED
  BY <1>1, FilesInvariant, PTL

\* No path through the constructors, Read, the destructors and their errors leaks a
\* descriptor or closes one twice.
THEOREM DescriptorsAreExact == Spec => []DescriptorsExact
<1>1. FilesInv => DescriptorsExact
  BY DEF FilesInv
<1> QED
  BY <1>1, FilesInvariant, PTL
=============================================================================
