--------------------------- MODULE WritableFile ---------------------------
(***************************************************************************)
(* util/env_posix.cc: PosixWritableFile, through the sessions in which a   *)
(* file is opened, written, closed, or cut off by a crash.  A system call  *)
(* is one step, so that a crash may fall between any two; write() may take *)
(* any part of what it is given and may fail.  A call interrupted by a     *)
(* signal (EINTR) is repeated, which changes nothing and is no step.       *)
(*                                                                         *)
(* Bytes are numbered in the order in which they are handed to Append.     *)
(* Other threads create files in the directory meanwhile; a MANIFEST names *)
(* files that exist when the name is appended.  The object itself is used  *)
(* by one thread at a time, as include/env.h asks.                         *)
(***************************************************************************)
EXTENDS Integers, Sequences

CONSTANTS
    kWritableFileBufferSize,
    Sizes,              \* the sizes of what is appended
    MaxBytes,           \* bound: bytes appended
    MaxFiles,           \* bound: other files created
    MaxErrors,          \* bound: system calls that fail
    MaxSessions         \* bound: times the file is opened

ASSUME FileAssumption ==
    /\ kWritableFileBufferSize \in Nat \ {0}
    /\ Sizes \subseteq Nat
    /\ {MaxBytes, MaxFiles, MaxErrors, MaxSessions} \subseteq Nat

VARIABLES
    file, durable,      \* the file as the kernel has it; how much of it is on the medium
    names, durable_names,   \* how many other files the directory names; those on the medium
    is_manifest_,
    buf_,               \* buf_[0, pos_ - 1]
    is_open,            \* fd_ >= 0
    op,                 \* the method that runs, "none" between calls
    pc,                 \* its next system call, or "idle", "destroyed", "crashed"
    writing,            \* what WriteUnbuffered has left to write
    rest,               \* what Append has left once the buffer is flushed
    appended,           \* how many bytes have been handed to Append
    opened,             \* the file and appended when the file was opened
    error,              \* a system call of this session has failed
    flushed, synced,    \* the bytes a successful Flush, and Sync, answers for
    named, synced_names,    \* the other files the MANIFEST has named in this session, and
                        \* those of any session that a successful Sync answers for
    errors, sessions

kernel == <<file, durable, names, durable_names>>
call == <<op, pc, writing, rest>>
history == <<appended, opened, named>>
promises == <<flushed, synced, synced_names>>
limits == <<errors, sessions>>
vars == <<kernel, is_manifest_, buf_, is_open, call, history, error, promises, limits>>

Bytes(from, to) == [j \in 1 .. to - from |-> from + j]

Elements(s) == {s[j] : j \in 1 .. Len(s)}

Smaller(m, n) == IF m < n THEN m ELSE n

\* All that should be in the file once everything is written.
Expected == opened.file \o Bytes(opened.appended, appended)

Idle == pc = "idle" /\ is_open

Go(next) == pc' = next /\ UNCHANGED op

Start(method, next) == Idle /\ op' = method /\ pc' = next

Return == op' = "none" /\ pc' = IF op = "Destroy" THEN "destroyed" ELSE "idle"

\* The method under way returns the error of a failed system call.
Fail ==
    /\ errors < MaxErrors
    /\ errors' = errors + 1
    /\ error' = TRUE

(***************************************************************************)
(* FlushBuffer, WriteUnbuffered.                                           *)
(***************************************************************************)
\* Mutant: what write() has taken is written again with the rest.
WriteUnbufferedAgain ==
    /\ pc \in {"flush", "direct"} /\ writing # <<>>
    /\ \E n \in 1 .. Len(writing) :
        /\ file' = file \o SubSeq(writing, 1, n)
        /\ writing' = IF n = Len(writing) THEN <<>> ELSE writing
    /\ Len(file) < 2 * MaxBytes
    /\ UNCHANGED <<durable, names, durable_names, is_manifest_, buf_, is_open, op, pc, rest,
                   history, error, promises, limits>>

\* One write(): it takes some of the bytes.
WriteUnbuffered ==
    /\ pc \in {"flush", "direct"} /\ writing # <<>>
    /\ \E n \in 1 .. Len(writing) :
        /\ file' = file \o SubSeq(writing, 1, n)
        /\ writing' = SubSeq(writing, n + 1, Len(writing))
    /\ UNCHANGED <<durable, names, durable_names, is_manifest_, buf_, is_open, op, pc, rest,
                   history, error, promises, limits>>

\* write() fails: the buffer is emptied all the same, and only Close goes on.
WriteFails ==
    /\ pc \in {"flush", "direct"} /\ writing # <<>>
    /\ Fail
    /\ writing' = <<>> /\ rest' = <<>> /\ buf_' = <<>>
    /\ IF op \in {"Close", "Destroy"} THEN Go("close") ELSE Return
    /\ UNCHANGED <<kernel, is_manifest_, is_open, history, promises, sessions>>

\* FlushBuffer begins with all of the buffer to write.
FlushBuffer == writing' = buf_

FlushedIn(method) == pc = "flush" /\ writing = <<>> /\ op = method

(***************************************************************************)
(* The methods.                                                            *)
(***************************************************************************)
\* As much as possible goes into the buffer; if that is not all, the buffer is flushed.
Append_(n) ==
    /\ appended + n <= MaxBytes
    /\ appended' = appended + n
    /\ named' = IF is_manifest_ THEN names ELSE named
    /\ LET data == Bytes(appended, appended + n)
           copy_size == Smaller(n, kWritableFileBufferSize - Len(buf_))
       IN  /\ buf_' = buf_ \o SubSeq(data, 1, copy_size)
           /\ IF copy_size = n THEN Idle /\ UNCHANGED call
              ELSE /\ Start("Append", "flush")
                   /\ writing' = buf_'
                   /\ rest' = SubSeq(data, copy_size + 1, n)
    /\ UNCHANGED <<kernel, is_manifest_, is_open, opened, error, promises, limits>>

\* Mutant: what is left always goes to the buffer, as far as it fits.
AppendRestUnflushed ==
    /\ FlushedIn("Append")
    /\ buf_' = SubSeq(rest, 1, Smaller(Len(rest), kWritableFileBufferSize))
    /\ rest' = <<>>
    /\ Return
    /\ UNCHANGED <<kernel, is_manifest_, is_open, writing, history, error, promises, limits>>

\* After the flush, a small rest goes to the buffer and a large one to the file.
AppendRest ==
    /\ FlushedIn("Append")
    /\ rest' = <<>>
    /\ IF Len(rest) < kWritableFileBufferSize
       THEN buf_' = rest /\ Return /\ UNCHANGED writing
       ELSE buf_' = <<>> /\ writing' = rest /\ Go("direct")
    /\ UNCHANGED <<kernel, is_manifest_, is_open, history, error, promises, limits>>

AppendReturns ==
    /\ pc = "direct" /\ writing = <<>>
    /\ Return
    /\ UNCHANGED <<kernel, is_manifest_, buf_, is_open, writing, rest, history, error, promises, limits>>

Flush ==
    /\ Start("Flush", "flush")
    /\ FlushBuffer
    /\ UNCHANGED <<kernel, is_manifest_, buf_, is_open, rest, history, error, promises, limits>>

FlushReturns ==
    /\ FlushedIn("Flush")
    /\ buf_' = <<>>
    /\ Return
    /\ flushed' = IF error THEN flushed ELSE Elements(Expected)
    /\ UNCHANGED <<kernel, is_manifest_, is_open, writing, rest, history, error, synced,
                   synced_names, limits>>

\* Sync of a MANIFEST begins with its directory.
Sync ==
    /\ IF is_manifest_ THEN Start("Sync", "sync directory") /\ UNCHANGED writing
       ELSE Start("Sync", "flush") /\ FlushBuffer
    /\ UNCHANGED <<kernel, is_manifest_, buf_, is_open, rest, history, error, promises, limits>>

\* Mutant: an error of the directory's sync is not seen.
SyncDirIfManifestUnchecked ==
    /\ pc = "sync directory"
    /\ durable_names' \in {durable_names, names}
    /\ Go("flush") /\ FlushBuffer
    /\ UNCHANGED <<file, durable, names, is_manifest_, buf_, is_open, rest, history, error, promises, limits>>

SyncDirIfManifest ==
    /\ pc = "sync directory"
    /\ durable_names' = names
    /\ Go("flush") /\ FlushBuffer
    /\ UNCHANGED <<file, durable, names, is_manifest_, buf_, is_open, rest, history, error, promises, limits>>

SyncFlushed ==
    /\ FlushedIn("Sync")
    /\ buf_' = <<>>
    /\ Go("sync file")
    /\ UNCHANGED <<kernel, is_manifest_, is_open, writing, rest, history, error, promises, limits>>

\* Mutant: SyncFd does nothing.
SyncFdNot ==
    /\ pc = "sync file"
    /\ Return
    /\ flushed' = IF error THEN flushed ELSE Elements(Expected)
    /\ synced' = IF error THEN synced ELSE Elements(Expected)
    /\ synced_names' = IF named > synced_names THEN named ELSE synced_names
    /\ UNCHANGED <<kernel, is_manifest_, buf_, is_open, writing, rest, history, error, limits>>

SyncFd ==
    /\ pc = "sync file"
    /\ durable' = Len(file)
    /\ Return
    /\ flushed' = IF error THEN flushed ELSE Elements(Expected)
    /\ synced' = IF error THEN synced ELSE Elements(Expected)
    /\ synced_names' = IF named > synced_names THEN named ELSE synced_names
    /\ UNCHANGED <<file, names, durable_names, is_manifest_, buf_, is_open, writing, rest, history,
                   error, limits>>

\* open() or fsync() of the directory, or fsync() of the file fails.
SyncFails ==
    /\ pc \in {"sync directory", "sync file"}
    /\ Fail
    /\ Return
    /\ UNCHANGED <<kernel, is_manifest_, buf_, is_open, writing, rest, history, promises, sessions>>

\* Close flushes and closes; so does the destructor, if nobody has, and ignores errors.
Close(method) ==
    /\ Start(method, "flush")
    /\ FlushBuffer
    /\ UNCHANGED <<kernel, is_manifest_, buf_, is_open, rest, history, error, promises, limits>>

CloseFlushed ==
    /\ FlushedIn("Close") \/ FlushedIn("Destroy")
    /\ buf_' = <<>>
    /\ Go("close")
    /\ UNCHANGED <<kernel, is_manifest_, is_open, writing, rest, history, error, promises, limits>>

CloseFd ==
    /\ pc = "close"
    /\ is_open' = FALSE
    /\ Return
    /\ Fail \/ UNCHANGED <<error, errors>>
    /\ UNCHANGED <<kernel, is_manifest_, buf_, writing, rest, history, promises, sessions>>

DestroyClosed ==
    /\ pc = "idle" /\ ~ is_open
    /\ pc' = "destroyed"
    /\ UNCHANGED <<kernel, is_manifest_, buf_, is_open, op, writing, rest, history, error, promises, limits>>

(***************************************************************************)
(* The surroundings.                                                       *)
(***************************************************************************)
CreateFile ==
    /\ names < MaxFiles
    /\ names' = names + 1
    /\ UNCHANGED <<file, durable, durable_names, is_manifest_, buf_, is_open, call, history, error,
                   promises, limits>>

\* The process dies, or the machine does and loses a tail of what is not on the medium.
Crash ==
    /\ pc # "crashed"
    /\ op' = "none" /\ pc' = "crashed" /\ is_open' = FALSE
    /\ writing' = <<>> /\ rest' = <<>> /\ buf_' = <<>>
    /\ \/ UNCHANGED <<kernel, flushed>>
       \/ \E n \in durable .. Len(file), m \in durable_names .. names :
            /\ file' = SubSeq(file, 1, n) /\ durable' = n
            /\ names' = m /\ durable_names' = m
            /\ flushed' = synced
    /\ UNCHANGED <<is_manifest_, history, error, synced, synced_names, limits>>

\* The file is opened again and continued.
NewAppendableFile ==
    /\ pc \in {"destroyed", "crashed"} /\ sessions < MaxSessions
    /\ sessions' = sessions + 1
    /\ pc' = "idle" /\ is_open' = TRUE /\ error' = FALSE
    /\ opened' = [file |-> file, appended |-> appended] /\ named' = 0
    /\ UNCHANGED <<kernel, is_manifest_, buf_, op, writing, rest, appended, promises, errors>>

End ==
    /\ pc \in {"destroyed", "crashed"} /\ sessions = MaxSessions
    /\ UNCHANGED vars

\* NewWritableFile has made the file.
Init ==
    /\ file = <<>> /\ durable = 0 /\ names = 0 /\ durable_names = 0
    /\ is_manifest_ \in BOOLEAN
    /\ buf_ = <<>> /\ is_open = TRUE
    /\ op = "none" /\ pc = "idle" /\ writing = <<>> /\ rest = <<>>
    /\ appended = 0 /\ opened = [file |-> <<>>, appended |-> 0] /\ error = FALSE
    /\ flushed = {} /\ synced = {} /\ named = 0 /\ synced_names = 0
    /\ errors = 0 /\ sessions = 1

Next ==
    \/ \E n \in Sizes : Append_(n)
    \/ AppendRest
    \/ AppendReturns
    \/ Flush
    \/ FlushReturns
    \/ Sync
    \/ SyncDirIfManifest
    \/ SyncFlushed
    \/ SyncFd
    \/ SyncFails
    \/ Close("Close")
    \/ Close("Destroy")
    \/ CloseFlushed
    \/ CloseFd
    \/ DestroyClosed
    \/ WriteUnbuffered
    \/ WriteFails
    \/ CreateFile
    \/ Crash
    \/ NewAppendableFile
    \/ End

Spec == Init /\ [][Next]_vars

(***************************************************************************)
(* Properties.                                                             *)
(***************************************************************************)
\* The bytes handed to Append that are not in the file yet.
Pending == (IF pc \in {"flush", "direct"} THEN writing ELSE buf_) \o rest

\* Bytes reach the file in the order of the Appends and none twice, whatever part of them
\* write() takes at a time; after failed writes and crashes too, only gaps are possible.
InOrder ==
    LET s == file \o Pending
    IN  \A j \in 1 .. Len(s) - 1 : s[j] < s[j + 1]

\* As long as no system call of the session has failed and no crash has come, what the
\* file, the buffer and the write under way hold is all that was appended; once the file is
\* closed or destroyed, the file holds all of it.
NothingLost ==
    ~ error /\ pc # "crashed" =>
        /\ file \o Pending = Expected
        /\ ~ is_open => file = Expected

\* What was appended before a Flush that succeeded without any earlier error of its session
\* survives the process, and before such a Sync the machine, in later sessions too.
PromisesKept == flushed \cup synced \subseteq Elements(file)

\* The files that a MANIFEST named when its Sync succeeded are still there after a crash:
\* the directory is synced in the same call.
NamedFilesExist == synced_names <= names
===========================================================================
