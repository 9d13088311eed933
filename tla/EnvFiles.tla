----------------------------- MODULE EnvFiles -----------------------------
(***************************************************************************)
(* util/env.cc: WriteStringToFile, WriteStringToFileSync and               *)
(* ReadFileToString, on the files of util/env_posix.cc.  The file of       *)
(* module WritableFile is in the hands of others, who call its methods as  *)
(* they please, or of one DoWriteStringToFile, while a ReadFileToString    *)
(* reads it.                                                               *)
(***************************************************************************)
EXTENDS WritableFile

CONSTANTS kBufferSize       \* what ReadFileToString asks Read for: 8192 in the code

ASSUME ReadAssumption == kBufferSize \in Nat \ {0}

VARIABLES
    caller,         \* "others", or the next step of DoWriteStringToFile, its status once it
                    \* has returned, or "crashed"
    should_sync,
    exists,         \* the name of the file is there
    reader          \* ReadFileToString: its state, its data, and (ghost) the length of the
                    \* file when it was opened

helpers == <<caller, should_sync, exists, reader>>

\* DoWriteStringToFile between two of its calls.
At(position) == caller = position /\ pc = "idle"

Proceed(position) == caller' = position /\ UNCHANGED <<should_sync, exists, reader>>

DoAppend == At("append") /\ (\E n \in Sizes : Append_(n)) /\ Proceed("sync")

\* Mutant: Sync is not called.
DoSyncNot == At("sync") /\ ~ error /\ should_sync /\ UNCHANGED vars /\ Proceed("close")

DoSync == At("sync") /\ ~ error /\ should_sync /\ Sync /\ Proceed("close")

DoClose ==
    /\ At("close") \/ (At("sync") /\ ~ should_sync)
    /\ ~ error
    /\ Close("Close")
    /\ Proceed("delete")

\* The destructor closes the file if an error has left it open.
DoDelete ==
    /\ At("delete") \/ ((At("sync") \/ At("close")) /\ error)
    /\ Close("Destroy") \/ DestroyClosed
    /\ Proceed("return")

DoReturn == caller = "return" /\ pc = "destroyed" /\ ~ error /\ UNCHANGED vars /\ Proceed("ok")

\* After an error the file is removed; whether that succeeds is not looked at.
DoRemoveFile ==
    /\ caller = "return" /\ pc = "destroyed" /\ error
    /\ caller' = "error"
    /\ exists' \in BOOLEAN
    /\ UNCHANGED <<vars, should_sync, reader>>

\* The system calls of the method that runs.
Running ==
    /\ caller # "others"
    /\ \/ AppendRest \/ AppendReturns \/ WriteUnbuffered \/ WriteFails
       \/ SyncDirIfManifest \/ SyncFlushed \/ SyncFd \/ SyncFails
       \/ CloseFlushed \/ CloseFd
    /\ UNCHANGED helpers

NotReading == [state |-> "none", data |-> <<>>, length |-> 0]

HelperCrash ==
    /\ caller # "others" /\ Crash
    /\ caller' = IF caller \in {"ok", "error"} THEN caller ELSE "crashed"
    /\ reader' = NotReading
    /\ UNCHANGED <<should_sync, exists>>

(***************************************************************************)
(* ReadFileToString.                                                       *)
(***************************************************************************)
Reading(state) == caller # "others" /\ pc # "crashed" /\ reader.state = state

Reads(r) == reader' = r /\ UNCHANGED <<vars, caller, should_sync, exists>>

NewSequentialFile ==
    Reading("none") /\ exists /\ Reads([state |-> "reading", data |-> <<>>, length |-> Len(file)])

\* Mutant: a fragment shorter than was asked for is taken for the last one.
ReadUntilShort ==
    /\ Reading("reading")
    /\ \E n \in 0 .. Smaller(kBufferSize, Len(file) - Len(reader.data)) :
        /\ n = 0 => Len(reader.data) = Len(file)
        /\ Reads([reader EXCEPT !.data = SubSeq(file, 1, Len(@) + n),
                                !.state = IF n < kBufferSize THEN "ok" ELSE @])

\* One read(): it gives some of what is there, and nothing only at the end of the file,
\* which ends the loop.
Read ==
    /\ Reading("reading")
    /\ \E n \in 0 .. Smaller(kBufferSize, Len(file) - Len(reader.data)) :
        /\ n = 0 => Len(reader.data) = Len(file)
        /\ Reads([reader EXCEPT !.data = SubSeq(file, 1, Len(@) + n), !.state = IF n = 0 THEN "ok" ELSE @])

ReadFails == Reading("reading") /\ Reads([reader EXCEPT !.state = "failed"])

HelpersDone ==
    /\ caller \in {"ok", "error", "crashed"} /\ pc = "crashed"
    /\ UNCHANGED <<vars, helpers>>

HelpersInit ==
    /\ Init
    /\ caller \in {"others", "append"}
    /\ should_sync \in IF caller = "others" THEN {FALSE} ELSE BOOLEAN
    /\ exists = TRUE
    /\ reader = NotReading

HelpersNext ==
    \/ caller = "others" /\ Next /\ UNCHANGED helpers
    \/ DoAppend
    \/ DoSync
    \/ DoClose
    \/ DoDelete
    \/ DoReturn
    \/ DoRemoveFile
    \/ Running
    \/ HelperCrash
    \/ NewSequentialFile
    \/ Read
    \/ ReadFails
    \/ HelpersDone

HelpersSpec == HelpersInit /\ [][HelpersNext]_<<vars, helpers>>

(***************************************************************************)
(* Properties.                                                             *)
(***************************************************************************)
\* When WriteStringToFile returns OK the file holds the whole string, whatever parts of it
\* the writes took; after WriteStringToFileSync it still does after a crash of the machine.
StringWritten == caller = "ok" /\ (pc # "crashed" \/ should_sync) => file = Expected

\* A ReadFileToString that returns OK has read, without a gap, at least what the file held
\* when it was opened, also when it is written or removed meanwhile and reads come short.
StringRead ==
    reader.state = "ok" => Len(reader.data) >= reader.length /\ reader.data = SubSeq(file, 1, Len(reader.data))
===========================================================================
