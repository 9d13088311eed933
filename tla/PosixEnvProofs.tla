--------------------------- MODULE PosixEnvProofs ---------------------------
(***************************************************************************)
(* Proofs about two parts of PosixEnv (util/env_posix.cc) that share       *)
(* nothing: the file locks, for any number of processes and threads, and   *)
(* the background thread, for any items and any tree of items that         *)
(* schedule others.                                                        *)
(***************************************************************************)
EXTENDS FileLock, BackgroundWork, SequenceTheorems, TLAPS

(***************************************************************************)
(* File locks.  The kernel's lock stands behind every FileLock that no     *)
(* close() has undone, which is what ExclusiveUnlessClosed needs.          *)
(***************************************************************************)
\* A FileLock that no close() has undone is backed by the kernel's lock.
Backed == \A p \in Processes : held[p] /\ p \notin lost => owner = p

LockInv == TypeOK /\ TableExact /\ Backed

\* What a step of thread t does to the table, for the steps that neither crash nor put
\* the file in or take it out.
LEMMA SameTable ==
    ASSUME LockInv, NEW t \in Threads, NEW from, NEW to \in Steps, At(t, from, to),
           from \in InTable <=> to \in InTable, UNCHANGED <<locked_files_, held>>
    PROVE  pc' \in [Threads -> Steps] /\ TableExact'
<1>1. pc' \in [Threads -> Steps] /\ \A u \in Threads : pc'[u] \in InTable <=> pc[u] \in InTable
  BY DEF At, LockInv, TypeOK
<1>2. UNCHANGED <<locked_files_, held>>
  OBVIOUS
<1> QED
  BY <1>1, <1>2 DEF LockInv, TableExact

\* close() undoes at most the lock of the process that calls it.
LEMMA CloseKeeps ==
    ASSUME LockInv, NEW p \in Processes, Close(p)
    PROVE  /\ held' = held
           /\ owner' \in Processes \cup {None} /\ lost' \in SUBSET Processes
           /\ Backed'
  BY ProcessAssumption DEF LockInv, TypeOK, Close, Backed

LEMMA StepKeeps ==
    ASSUME LockInv, NEW t \in Threads,
           \/ LockFile(t)
           \/ Insert(t)
           \/ LockOrUnlock(t)
           \/ CloseRefused(t)
           \/ CloseFailed(t)
           \/ RemoveFailed(t)
           \/ UnlockFile(t)
           \/ RemoveUnlocked(t)
           \/ CloseUnlocked(t)
    PROVE  LockInv'
<1> DEFINE p == ProcessOf[t]
<1>1. p \in Processes /\ TypeOK /\ TableExact /\ Backed
  BY ProcessAssumption DEF LockInv
<1>2. CASE LockFile(t)
  <2>1. pc' \in [Threads -> Steps] /\ TableExact'
    BY <1>2, SameTable DEF LockFile, Steps, InTable
  <2> QED
    BY <1>1, <1>2, <2>1 DEF LockFile, LockInv, TypeOK, Backed
<1>3. CASE Insert(t)
  <2>1. UNCHANGED <<held, owner, lost>> /\ pc \in [Threads -> Steps] /\ pc[t] = "opened"
    BY <1>1, <1>3 DEF Insert, At, TypeOK
  <2>2. locked_files_' = [locked_files_ EXCEPT ![p] = TRUE] /\ locked_files_ \in [Processes -> BOOLEAN]
    BY <1>1, <1>3 DEF Insert, TypeOK
  <2>3. pc' = [pc EXCEPT ![t] = IF locked_files_[p] THEN "refused" ELSE "locking"]
    BY <1>3 DEF Insert, At
  <2>4. TypeOK' /\ Backed'
    BY <1>1, <2>1, <2>2, <2>3 DEF TypeOK, Backed, Steps, InTable
  <2>5. CASE locked_files_[p]
    <3>1. locked_files_' = locked_files_ /\ \A u \in Threads : pc'[u] \in InTable <=> pc[u] \in InTable
      BY <1>1, <2>1, <2>2, <2>3, <2>5 DEF InTable
    <3> QED
      BY <1>1, <2>1, <2>4, <3>1 DEF LockInv, TableExact
  <2>6. CASE ~ locked_files_[p]
    <3>1. /\ ~ held[p] /\ \A u \in Threads : ProcessOf[u] = p => pc[u] \notin InTable
      BY <1>1, <2>6 DEF TableExact
    <3>2. /\ pc'[t] \in InTable /\ \A u \in Threads \ {t} : pc'[u] = pc[u]
          /\ locked_files_'[p] /\ \A q \in Processes \ {p} : locked_files_'[q] = locked_files_[q]
      BY <1>1, <2>1, <2>2, <2>3, <2>6 DEF InTable
    <3>3. TableExact'
      BY <1>1, <2>1, <3>1, <3>2, ProcessAssumption DEF TableExact
    <3> QED
      BY <2>4, <3>3 DEF LockInv
  <2> QED
    BY <2>5, <2>6
<1>4. CASE LockOrUnlock(t)
  <2>1. CASE At(t, "locking", "failed") /\ UNCHANGED <<locked_files_, held, owner, lost>>
    <3>1. pc' \in [Threads -> Steps] /\ TableExact'
      BY <2>1, SameTable DEF Steps, InTable
    <3> QED
      BY <1>1, <2>1, <3>1 DEF LockInv, TypeOK, Backed
  <2>2. CASE /\ At(t, "locking", "idle") /\ owner \in {None, p} /\ owner' = p
             /\ held' = [held EXCEPT ![p] = TRUE] /\ UNCHANGED <<locked_files_, lost>>
    <3>1. pc[t] \in InTable /\ pc' = [pc EXCEPT ![t] = "idle"]
      BY <2>2 DEF At, InTable
    <3>2. /\ pc' \in [Threads -> Steps] /\ held' \in [Processes -> BOOLEAN] /\ held'[p]
          /\ \A q \in Processes \ {p} : held'[q] = held[q]
          /\ pc'[t] \notin InTable /\ \A u \in Threads \ {t} : pc'[u] = pc[u]
      BY <1>1, <2>2, <3>1 DEF TypeOK, Steps, InTable
    <3>3. /\ locked_files_[p]
          /\ \A u \in Threads : u # t /\ ProcessOf[u] = p => pc[u] \notin InTable
      BY <1>1, <3>1 DEF TableExact
    <3>4. TableExact'
      BY <1>1, <2>2, <3>2, <3>3, ProcessAssumption DEF TableExact
    <3>5. Backed'
      BY <1>1, <2>2, <3>2, ProcessAssumption DEF Backed
    <3>6. TypeOK'
      BY <1>1, <2>2, <3>2 DEF TypeOK
    <3> QED
      BY <3>4, <3>5, <3>6 DEF LockInv
  <2> QED
    BY <1>4, <2>1, <2>2 DEF LockOrUnlock
<1>5. CASE CloseRefused(t) \/ CloseFailed(t) \/ CloseUnlocked(t)
  <2>1. Close(p) /\ UNCHANGED locked_files_
    BY <1>5 DEF CloseRefused, CloseFailed, CloseUnlocked
  <2>2. held' = held /\ owner' \in Processes \cup {None} /\ lost' \in SUBSET Processes /\ Backed'
    BY <1>1, <2>1, CloseKeeps
  <2>3. At(t, "refused", "idle") \/ At(t, "failed", "closed") \/ At(t, "removed", "idle")
    BY <1>5 DEF CloseRefused, CloseFailed, CloseUnlocked
  <2>4. pc' \in [Threads -> Steps] /\ TableExact'
    BY <2>1, <2>2, <2>3, SameTable DEF Steps, InTable
  <2> QED
    BY <1>1, <2>1, <2>2, <2>4 DEF LockInv, TypeOK
<1>6. CASE RemoveFailed(t) \/ RemoveUnlocked(t)
  <2>1. /\ UNCHANGED <<held, owner, lost>> /\ locked_files_' = [locked_files_ EXCEPT ![p] = FALSE]
        /\ At(t, "closed", "idle") \/ At(t, "unlocked", "removed")
    BY <1>6 DEF RemoveFailed, RemoveUnlocked, Remove
  <2>2. pc[t] \in InTable
    BY <2>1 DEF At, InTable
  <2>3. /\ ~ held[p]
        /\ \A u \in Threads : u # t /\ ProcessOf[u] = p => pc[u] \notin InTable
    BY <1>1, <2>2 DEF TableExact
  <2>4. /\ pc' \in [Threads -> Steps]
        /\ pc'[t] \notin InTable /\ \A u \in Threads \ {t} : pc'[u] = pc[u]
        /\ locked_files_' \in [Processes -> BOOLEAN]
        /\ ~ locked_files_'[p] /\ \A q \in Processes \ {p} : locked_files_'[q] = locked_files_[q]
    BY <1>1, <2>1 DEF At, TypeOK, Steps, InTable
  <2>5. TableExact'
    BY <1>1, <2>1, <2>3, <2>4, ProcessAssumption DEF TableExact
  <2> QED
    BY <1>1, <2>1, <2>4, <2>5 DEF LockInv, TypeOK, Backed
<1>7. CASE UnlockFile(t)
  <2>1. /\ held[p] /\ held' = [held EXCEPT ![p] = FALSE] /\ UNCHANGED locked_files_
        /\ At(t, "idle", "unlocked")
        /\ owner' = IF owner = p THEN None ELSE owner
        /\ lost' = lost \ {p}
    BY <1>7 DEF UnlockFile
  <2>2. /\ pc' \in [Threads -> Steps] /\ held' \in [Processes -> BOOLEAN]
        /\ pc'[t] \in InTable /\ \A u \in Threads \ {t} : pc'[u] = pc[u]
        /\ ~ held'[p] /\ \A q \in Processes \ {p} : held'[q] = held[q]
    BY <1>1, <2>1 DEF At, TypeOK, Steps, InTable
  <2>3. locked_files_[p] /\ \A u \in Threads : ProcessOf[u] = p => pc[u] \notin InTable
    BY <1>1, <2>1 DEF TableExact
  <2>4. TableExact'
    BY <1>1, <2>1, <2>2, <2>3, ProcessAssumption DEF TableExact
  <2>5. TypeOK' /\ Backed'
    BY <1>1, <2>1, <2>2, ProcessAssumption DEF TypeOK, Backed
  <2> QED
    BY <2>4, <2>5 DEF LockInv
<1> QED
  BY <1>2, <1>3, <1>4, <1>5, <1>6, <1>7

LEMMA CrashKeeps ==
    ASSUME LockInv, NEW p \in Processes, Crash(p)
    PROVE  LockInv'
<1>1. TypeOK /\ TableExact /\ Backed
  BY DEF LockInv
<1>2. TypeOK' /\ Backed'
  BY <1>1, ProcessAssumption DEF TypeOK, Backed, Crash, Steps
<1>3. /\ \A t \in Threads : pc'[t] = IF ProcessOf[t] = p THEN "idle" ELSE pc[t]
      /\ ~ locked_files_'[p] /\ ~ held'[p]
      /\ \A q \in Processes \ {p} : locked_files_'[q] = locked_files_[q] /\ held'[q] = held[q]
  BY <1>1 DEF Crash, TypeOK
<1>4. "idle" \notin InTable
  BY DEF InTable
<1>5. TableExact'
  BY <1>1, <1>3, <1>4, ProcessAssumption DEF TableExact
<1> QED
  BY <1>2, <1>5 DEF LockInv

LEMMA LockInvariant == Spec => []LockInv
<1>1. Init => LockInv
  <2> SUFFICES ASSUME Init PROVE LockInv
    OBVIOUS
  <2>1. TypeOK /\ Backed
    BY DEF Init, TypeOK, Backed, Steps
  <2>2. TableExact
    BY ProcessAssumption DEF Init, TableExact, InTable
  <2> QED
    BY <2>1, <2>2 DEF LockInv
<1>2. LockInv /\ [Next]_vars => LockInv'
  <2> SUFFICES ASSUME LockInv, [Next]_vars PROVE LockInv'
    OBVIOUS
  <2>1. CASE UNCHANGED vars
    BY <2>1 DEF vars, LockInv, TypeOK, TableExact, Backed
  <2>2. CASE Next
    BY <2>2, StepKeeps, CrashKeeps DEF Next
  <2> QED
    BY <2>1, <2>2
<1> QED
  BY <1>1, <1>2, PTL DEF Spec

\* However many threads call LockFile and UnlockFile, fail or crash: a process has at
\* most one FileLock for a file, and PosixLockTable keeps no entry without cause.
THEOREM TableIsExact == Spec => []TableExact
<1>1. LockInv => TableExact
  BY DEF LockInv
<1> QED
  BY <1>1, LockInvariant, PTL

\* For any number of processes: only a close() of the file by a process that holds its
\* lock lets a second process lock it.
THEOREM OnlyCloseBreaksExclusion == Spec => []ExclusiveUnlessClosed
<1>1. LockInv => ExclusiveUnlessClosed
  BY DEF LockInv, Backed, ExclusiveUnlessClosed
<1> QED
  BY <1>1, LockInvariant, PTL

(***************************************************************************)
(* The background thread.  NoLostWakeup is not inductive alone: the first  *)
(* Schedule must find the thread absent, which is what ThreadStarted adds. *)
(***************************************************************************)
\* started_background_thread_ says whether the thread is there.
ThreadStarted == started_background_thread_ <=> thread # "absent"

\* What the thread has in hand: the item it runs.
InHand == IF thread = "running" THEN <<item>> ELSE <<>>

WorkInv == WorkTypeOK /\ RunInOrder /\ NoLostWakeup /\ ThreadStarted

LEMMA InHandType == WorkTypeOK => InHand \in Seq(Items)
BY DEF WorkTypeOK, InHand

(***************************************************************************)
(* Sequences.                                                              *)
(***************************************************************************)
LEMMA AppendToLast ==
    ASSUME NEW a \in Seq(Items), NEW b \in Seq(Items), NEW c \in Seq(Items), NEW e \in Items
    PROVE  Append(a \o b \o c, e) = a \o b \o Append(c, e)
<1>1. <<e>> \in Seq(Items) /\ a \o b \in Seq(Items)
  BY ConcatProperties
<1>2. Append(a \o b \o c, e) = ((a \o b) \o c) \o <<e>> /\ Append(c, e) = c \o <<e>>
  BY <1>1, ConcatProperties, AppendIsConcat
<1>3. ((a \o b) \o c) \o <<e>> = (a \o b) \o (c \o <<e>>)
  BY <1>1, ConcatAssociative
<1> QED
  BY <1>2, <1>3

LEMMA HeadMoves ==
    ASSUME NEW S, NEW a \in Seq(S), NEW c \in Seq(S), c # <<>>
    PROVE  a \o <<>> \o c = a \o <<Head(c)>> \o Tail(c)
<1>1. Head(c) \in S /\ Tail(c) \in Seq(S) /\ <<Head(c)>> \in Seq(S)
  BY HeadTailProperties
<1>2. c = <<Head(c)>> \o Tail(c)
  <2>1. <<Head(c)>> \o Tail(c) \in Seq(S) /\ Len(<<Head(c)>> \o Tail(c)) = 1 + Len(Tail(c))
    BY <1>1, ConcatProperties
  <2>2. Len(c) \in Nat \ {0} /\ Len(Tail(c)) = Len(c) - 1
    BY EmptySeq, HeadTailProperties
  <2>3. ASSUME NEW i \in 1 .. Len(c) PROVE c[i] = (<<Head(c)>> \o Tail(c))[i]
    <3>1. CASE i = 1
      BY <3>1, <1>1, <2>2, ConcatProperties
    <3>2. CASE i # 1
      <4>1. (<<Head(c)>> \o Tail(c))[i] = Tail(c)[i - 1]
        BY <3>2, <1>1, <2>2, ConcatProperties
      <4>2. Tail(c)[i - 1] = c[(i - 1) + 1]
        BY <3>2, <2>2, HeadTailProperties
      <4> QED
        BY <4>1, <4>2
    <3> QED
      BY <3>1, <3>2
  <2> QED
    BY <2>1, <2>2, <2>3, SeqEqual
<1>3. a \o <<>> = a
  BY ConcatEmptySeq
<1> QED
  BY <1>1, <1>2, <1>3, ConcatAssociative

(***************************************************************************)
(* The actions.                                                            *)
(***************************************************************************)
LEMMA ScheduleKeeps ==
    ASSUME WorkInv, NEW w \in Items, Schedule(w)
    PROVE  WorkInv'
<1> USE DEF ThreadStates
<1>1. /\ thread \in ThreadStates /\ item \in Items
      /\ background_work_queue_ \in Seq(Items) /\ scheduled \in Seq(Items) /\ ran \in Seq(Items)
  BY DEF WorkInv, WorkTypeOK
<1>2. thread' = IF started_background_thread_ THEN Signal ELSE "loop"
  BY DEF Schedule
<1>3. thread' \in ThreadStates
  BY <1>1, <1>2 DEF Signal
<1>4. WorkTypeOK'
  <2>1. background_work_queue_' \in Seq(Items) /\ scheduled' \in Seq(Items)
    BY <1>1, AppendProperties DEF Schedule
  <2>2. started_background_thread_' \in BOOLEAN
    BY Zenon DEF Schedule
  <2>3. item' \in Items /\ ran' \in Seq(Items)
    BY <1>1 DEF Schedule
  <2> QED
    BY <1>3, <2>1, <2>2, <2>3 DEF WorkTypeOK
<1>5. thread' # "absent" /\ thread' # "waiting"
  <2>1. CASE started_background_thread_
    <3>1. thread # "absent"
      BY <2>1 DEF WorkInv, ThreadStarted
    <3>2. thread' = Signal
      BY <1>2, <2>1
    <3>3. thread = "waiting" => background_work_queue_ = <<>>
      BY DEF WorkInv, NoLostWakeup
    <3> QED
      BY <3>1, <3>2, <3>3 DEF Signal
  <2>2. CASE ~ started_background_thread_
    BY <1>2, <2>2
  <2> QED
    BY <2>1, <2>2
<1>6. thread' = "running" <=> thread = "running"
  BY <1>2, <1>5 DEF Signal, WorkInv, ThreadStarted
<1>7. InHand' = InHand
  BY <1>6 DEF InHand, Schedule
<1>8. RunInOrder'
  <2>1. InHand \in Seq(Items)
    BY InHandType DEF WorkInv
  <2>2. scheduled = ran \o InHand \o background_work_queue_
    BY DEF WorkInv, RunInOrder, InHand
  <2>3. scheduled' = ran \o InHand \o Append(background_work_queue_, w)
    <3>1. scheduled' = Append(ran \o InHand \o background_work_queue_, w)
      BY <2>2 DEF Schedule
    <3>2. Append(ran \o InHand \o background_work_queue_, w)
            = ran \o InHand \o Append(background_work_queue_, w)
      BY <1>1, <2>1, AppendToLast, ZenonT(40)
    <3> QED
      BY <3>1, <3>2
  <2>4. scheduled' = ran' \o InHand' \o background_work_queue_'
    BY <1>7, <2>3 DEF Schedule
  <2> QED
    BY <2>4 DEF RunInOrder, InHand
<1>9. NoLostWakeup' /\ ThreadStarted'
  BY <1>5, Zenon DEF NoLostWakeup, ThreadStarted, Schedule
<1> QED
  BY <1>4, <1>8, <1>9 DEF WorkInv

\* A step of the thread that leaves the queue, the item and the histories as they are.
LEMMA ThreadStepKeeps ==
    ASSUME WorkInv, Wait \/ SpuriousWakeup
    PROVE  WorkInv'
<1>1. UNCHANGED <<background_work_queue_, started_background_thread_, item, scheduled, ran>>
  BY DEF Wait, SpuriousWakeup
<1>2. /\ thread' \in {"waiting", "woken"}
      /\ thread \notin {"absent", "running"}
      /\ thread' = "waiting" => background_work_queue_ = <<>>
  BY DEF Wait, SpuriousWakeup
<1>3. WorkTypeOK'
  BY <1>1, <1>2 DEF WorkInv, WorkTypeOK, ThreadStates
<1>4. RunInOrder'
  BY <1>1, <1>2 DEF WorkInv, RunInOrder
<1>5. NoLostWakeup'
  BY <1>1, <1>2 DEF NoLostWakeup
<1>6. ThreadStarted'
  BY <1>1, <1>2 DEF WorkInv, ThreadStarted
<1> QED
  BY <1>3, <1>4, <1>5, <1>6 DEF WorkInv

LEMMA TakeWorkKeeps ==
    ASSUME WorkInv, TakeWork
    PROVE  WorkInv'
<1>1. /\ background_work_queue_ \in Seq(Items) /\ background_work_queue_ # <<>>
      /\ item' = Head(background_work_queue_) /\ background_work_queue_' = Tail(background_work_queue_)
      /\ thread \in {"loop", "woken"} /\ thread' = "running"
      /\ UNCHANGED <<started_background_thread_, scheduled, ran>>
      /\ scheduled \in Seq(Items) /\ ran \in Seq(Items)
  BY DEF WorkInv, WorkTypeOK, TakeWork
<1>2. WorkTypeOK'
  <2>1. item' \in Items /\ background_work_queue_' \in Seq(Items)
    BY <1>1, HeadTailProperties
  <2> QED
    BY <1>1, <2>1 DEF WorkInv, WorkTypeOK, ThreadStates
<1>3. RunInOrder'
  <2>1. scheduled = ran \o <<>> \o background_work_queue_
    BY <1>1 DEF WorkInv, RunInOrder
  <2>2. scheduled = ran \o <<item'>> \o background_work_queue_'
    BY <1>1, <2>1, HeadMoves
  <2> QED
    BY <1>1, <2>2 DEF RunInOrder
<1>4. NoLostWakeup'
  BY <1>1 DEF NoLostWakeup
<1>5. ThreadStarted'
  BY <1>1 DEF WorkInv, ThreadStarted
<1> QED
  BY <1>2, <1>3, <1>4, <1>5 DEF WorkInv

LEMMA FunctionReturnsKeeps ==
    ASSUME WorkInv, FunctionReturns
    PROVE  WorkInv'
<1>1. /\ thread = "running" /\ thread' = "loop" /\ ran' = Append(ran, item)
      /\ UNCHANGED <<background_work_queue_, started_background_thread_, item, scheduled>>
      /\ item \in Items /\ ran \in Seq(Items) /\ background_work_queue_ \in Seq(Items)
  BY DEF WorkInv, WorkTypeOK, FunctionReturns
<1>2. WorkTypeOK'
  BY <1>1, AppendProperties DEF WorkInv, WorkTypeOK, ThreadStates
<1>3. RunInOrder'
  <2>1. scheduled = ran \o <<item>> \o background_work_queue_
    BY <1>1 DEF WorkInv, RunInOrder
  <2>2. ran' \in Seq(Items) /\ ran' = ran \o <<item>> /\ ran' \o <<>> = ran'
    BY <1>1, AppendProperties, AppendIsConcat, ConcatEmptySeq
  <2>3. scheduled' = ran' \o <<>> \o background_work_queue_'
    BY <1>1, <2>1, <2>2
  <2> QED
    BY <1>1, <2>3 DEF RunInOrder
<1>4. NoLostWakeup'
  BY <1>1 DEF NoLostWakeup
<1>5. ThreadStarted'
  BY <1>1 DEF WorkInv, ThreadStarted
<1> QED
  BY <1>2, <1>3, <1>4, <1>5 DEF WorkInv

LEMMA InitWork == WorkInit => WorkInv
<1> SUFFICES ASSUME WorkInit PROVE WorkInv
  OBVIOUS
<1>1. WorkTypeOK
  <2>1. started_background_thread_ \in BOOLEAN
    BY Zenon DEF WorkInit
  <2> QED
    BY <2>1 DEF WorkInit, WorkTypeOK, ThreadStates
<1>2. RunInOrder
  <2>1. <<>> = <<>> \o <<>> \o <<>>
    BY EmptySeq, ConcatEmptySeq
  <2> QED
    BY <2>1 DEF WorkInit, RunInOrder
<1>3. NoLostWakeup
  BY DEF WorkInit, NoLostWakeup
<1>4. ThreadStarted
  BY Zenon DEF WorkInit, ThreadStarted
<1> QED
  BY <1>1, <1>2, <1>3, <1>4 DEF WorkInv

LEMMA WorkInvariant == WorkSpec => []WorkInv
<1>1. WorkInv /\ [WorkNext]_workVars => WorkInv'
  <2> SUFFICES ASSUME WorkInv, [WorkNext]_workVars PROVE WorkInv'
    OBVIOUS
  <2>1. CASE \E w \in Items \ UNION {Children[v] : v \in Items} : ScheduleFromOutside(w)
    BY <2>1, ScheduleKeeps DEF ScheduleFromOutside
  <2>2. CASE \E w \in Items : ScheduleFromFunction(w)
    BY <2>2, ScheduleKeeps DEF ScheduleFromFunction
  <2>3. CASE TakeWork
    BY <2>3, TakeWorkKeeps
  <2>4. CASE Wait \/ SpuriousWakeup
    BY <2>4, ThreadStepKeeps
  <2>5. CASE FunctionReturns
    BY <2>5, FunctionReturnsKeeps
  <2>6. CASE UNCHANGED workVars
    BY <2>6 DEF workVars, WorkInv, WorkTypeOK, RunInOrder, NoLostWakeup, ThreadStarted
  <2> QED
    BY <2>1, <2>2, <2>3, <2>4, <2>5, <2>6 DEF WorkNext
<1> QED
  BY <1>1, InitWork, PTL DEF WorkSpec

(***************************************************************************)
(* Theorems.                                                               *)
(***************************************************************************)
\* BackgroundThreadMain runs the functions in the order of the Schedule calls, each once
\* and none left out, whoever schedules them and whenever the thread sleeps and wakes.
THEOREM WorkRunsInOrder == WorkSpec => []RunInOrder
<1>1. WorkInv => RunInOrder
  BY DEF WorkInv
<1> QED
  BY <1>1, WorkInvariant, PTL

\* The thread is not in background_work_cv_.Wait(), nor missing, while the queue has work:
\* Schedule's Signal before its emplace loses no wakeup.
THEOREM WakeupsAreNotLost == WorkSpec => []NoLostWakeup
<1>1. WorkInv => NoLostWakeup
  BY DEF WorkInv
<1> QED
  BY <1>1, WorkInvariant, PTL
=============================================================================
