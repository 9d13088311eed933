----------------------------- MODULE FileLock -----------------------------
(***************************************************************************)
(* PosixEnv::LockFile and UnlockFile (util/env_posix.cc) on one file, by   *)
(* the threads of several processes.  locks_ (PosixLockTable) is each      *)
(* process's own; the kernel's fcntl(F_SETLK) lock belongs to a process,   *)
(* not to a descriptor: it falls when the process closes any descriptor of *)
(* the file, and when the process ends.  One system call or one critical   *)
(* section of PosixLockTable is one step.                                  *)
(*                                                                         *)
(* An open() or F_UNLCK call that fails changes nothing and is left out.   *)
(***************************************************************************)
CONSTANTS Processes, Threads, ProcessOf, None

ASSUME ProcessAssumption == ProcessOf \in [Threads -> Processes] /\ None \notin Processes

VARIABLES
    pc,             \* per thread: the step of LockFile or UnlockFile it is at
    locked_files_,  \* per process: the file is in locks_
    held,           \* per process: a FileLock has been returned and not yet given back
    owner,          \* the process the kernel's lock belongs to, or None
    lost            \* the processes whose close() dropped a lock that was held

vars == <<pc, locked_files_, held, owner, lost>>

\* The steps of a thread that has put the file into locks_ and is still to take it out
\* or to hand over a FileLock.
InTable == {"locking", "failed", "closed", "unlocked"}

Steps == {"idle", "opened", "refused", "removed"} \cup InTable

At(t, from, to) == pc[t] = from /\ pc' = [pc EXCEPT ![t] = to]

\* LockFile: open()
LockFile(t) ==
    /\ At(t, "idle", "opened")
    /\ UNCHANGED <<locked_files_, held, owner, lost>>

\* PosixLockTable::Insert fails on a file that is there already.
Insert(t) ==
    /\ At(t, "opened", IF locked_files_[ProcessOf[t]] THEN "refused" ELSE "locking")
    /\ locked_files_' = [locked_files_ EXCEPT ![ProcessOf[t]] = TRUE]
    /\ UNCHANGED <<held, owner, lost>>

\* Mutant: the result of fcntl is ignored.
LockOrUnlockIgnored(t) ==
    /\ At(t, "locking", "idle")
    /\ owner' = IF owner = None THEN ProcessOf[t] ELSE owner
    /\ held' = [held EXCEPT ![ProcessOf[t]] = TRUE]
    /\ UNCHANGED <<locked_files_, lost>>

\* fcntl(fd, F_SETLK, F_WRLCK) fails if another process has the lock, or for want of
\* kernel resources; if it succeeds LockFile returns.
LockOrUnlock(t) ==
    \/ /\ At(t, "locking", "idle")
       /\ owner \in {None, ProcessOf[t]}
       /\ owner' = ProcessOf[t]
       /\ held' = [held EXCEPT ![ProcessOf[t]] = TRUE]
       /\ UNCHANGED <<locked_files_, lost>>
    \/ /\ At(t, "locking", "failed")
       /\ UNCHANGED <<locked_files_, held, owner, lost>>

\* close() of a descriptor of the file by process p.
Close(p) ==
    /\ owner' = IF owner = p THEN None ELSE owner
    /\ lost' = IF owner = p /\ held[p] THEN lost \cup {p} ELSE lost
    /\ UNCHANGED held

Remove(p) == locked_files_' = [locked_files_ EXCEPT ![p] = FALSE]

\* LockFile returns "already held by process".
CloseRefused(t) ==
    /\ At(t, "refused", "idle")
    /\ Close(ProcessOf[t])
    /\ UNCHANGED locked_files_

CloseFailed(t) ==
    /\ At(t, "failed", "closed")
    /\ Close(ProcessOf[t])
    /\ UNCHANGED locked_files_

\* Mutant: a failed LockFile leaves the file in locks_.
RemoveFailedNot(t) ==
    /\ At(t, "closed", "idle")
    /\ UNCHANGED <<locked_files_, held, owner, lost>>

\* LockFile returns fcntl's error.
RemoveFailed(t) ==
    /\ At(t, "closed", "idle")
    /\ Remove(ProcessOf[t])
    /\ UNCHANGED <<held, owner, lost>>

\* UnlockFile: the caller gives its FileLock back, fcntl(fd, F_SETLK, F_UNLCK)
UnlockFile(t) ==
    LET p == ProcessOf[t]
    IN  /\ At(t, "idle", "unlocked")
        /\ held[p] /\ held' = [held EXCEPT ![p] = FALSE]
        /\ owner' = IF owner = p THEN None ELSE owner
        /\ lost' = lost \ {p}
        /\ UNCHANGED locked_files_

RemoveUnlocked(t) ==
    /\ At(t, "unlocked", "removed")
    /\ Remove(ProcessOf[t])
    /\ UNCHANGED <<held, owner, lost>>

\* UnlockFile returns.
CloseUnlocked(t) ==
    /\ At(t, "removed", "idle")
    /\ Close(ProcessOf[t])
    /\ UNCHANGED locked_files_

\* The process ends, in whatever state, and is started again.
Crash(p) ==
    /\ pc' = [t \in Threads |-> IF ProcessOf[t] = p THEN "idle" ELSE pc[t]]
    /\ locked_files_' = [locked_files_ EXCEPT ![p] = FALSE]
    /\ held' = [held EXCEPT ![p] = FALSE]
    /\ owner' = IF owner = p THEN None ELSE owner
    /\ lost' = lost \ {p}

Init ==
    /\ pc = [t \in Threads |-> "idle"]
    /\ locked_files_ = [p \in Processes |-> FALSE]
    /\ held = [p \in Processes |-> FALSE]
    /\ owner = None
    /\ lost = {}

Next ==
    \/ \E t \in Threads :
        \/ LockFile(t)
        \/ Insert(t)
        \/ LockOrUnlock(t)
        \/ CloseRefused(t)
        \/ CloseFailed(t)
        \/ RemoveFailed(t)
        \/ UnlockFile(t)
        \/ RemoveUnlocked(t)
        \/ CloseUnlocked(t)
    \/ \E p \in Processes : Crash(p)

Spec == Init /\ [][Next]_vars

(***************************************************************************)
(* Properties.                                                             *)
(***************************************************************************)
\* Type invariant.
TypeOK ==
    /\ pc \in [Threads -> Steps]
    /\ locked_files_ \in [Processes -> BOOLEAN]
    /\ held \in [Processes -> BOOLEAN]
    /\ owner \in Processes \cup {None}
    /\ lost \in SUBSET Processes

\* locks_ holds the file exactly while one thread of the process is between Insert and
\* Remove or one FileLock is out: no second FileLock of the process, and no entry left
\* over by a call that failed, which would refuse the file for ever.
TableExact ==
    /\ \A t \in Threads : pc[t] \in InTable => locked_files_[ProcessOf[t]] /\ ~ held[ProcessOf[t]]
    /\ \A t, u \in Threads :
        pc[t] \in InTable /\ pc[u] \in InTable /\ ProcessOf[t] = ProcessOf[u] => t = u
    /\ \A p \in Processes :
        locked_files_[p] <=> held[p] \/ \E t \in Threads : ProcessOf[t] = p /\ pc[t] \in InTable

\* Two processes hold the lock only after a close() by one of them dropped its own: of
\* all that can happen in LockFile and UnlockFile, failures and crashes included,
\* nothing else breaks the exclusion.
ExclusiveUnlessClosed ==
    \A p, q \in Processes : held[p] /\ held[q] /\ p # q => p \in lost \/ q \in lost

\* env.h: LockFile is there to keep several processes from using one database.
MutualExclusion == \A p, q \in Processes : held[p] /\ held[q] => p = q
===========================================================================
