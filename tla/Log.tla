-------------------------------- MODULE Log --------------------------------
(***************************************************************************)
(* The operation log: log::Writer (db/log_writer.cc) appends records to a  *)
(* file, sessions of writing end in a crash or in peace, and log::Reader   *)
(* (db/log_reader.cc) reads the file from initial_offset_.                 *)
(*                                                                         *)
(* The file is a sequence of cells.  A physical record is a header of one  *)
(* cell per field (checksum, length, type) and one cell per byte of data.  *)
(* A checksum cell stands for the type and data it was computed from: only *)
(* they match it.  A cell read as a field it was not written as, which     *)
(* happens when the reader has lost its place, gives any value.            *)
(***************************************************************************)
EXTENDS Integers, Sequences

CONSTANTS
    kBlockSize,         \* the cells of a block
    Sizes,              \* the sizes of the records added
    InitialOffsets,     \* the initial_offset_ of the Reader
    MaxRecords,         \* bound: records added
    MaxFaults           \* bound: sessions resumed, Appends that fail, cells corrupted

kHeaderSize == 3

ASSUME LogAssumption ==
    /\ kBlockSize \in Nat /\ kBlockSize > kHeaderSize
    /\ Sizes \subseteq Nat /\ InitialOffsets \subseteq Nat
    /\ {MaxRecords, MaxFaults} \subseteq Nat

RecordTypes == {"Full", "First", "Middle", "Last"}

VARIABLES
    file,               \* the cells of the file
    block_offset_,      \* Writer
    added,              \* the records so far: size, where they are in the file, the outcome
    done,               \* the bytes of the last record already emitted
    phase,              \* who works: "idle", "adding", "closed", "reading", "end"
    faults,             \* how many there have been
    append_failed,      \* an Append has failed
    damaged,            \* the blocks in which a cell was corrupted or a session was resumed
                        \* inside a physical record
    initial_offset_, from, end_of_buffer_offset_, eof_, resyncing_, last_record_offset_,
                        \* Reader; buffer_ is the file between from and end_of_buffer_offset_
    fragment,           \* what ReadPhysicalRecord returned, None before
    in_fragmented_record, scratch, prospective_record_offset,
    returned,           \* what ReadRecord has returned so far
    read_failed,        \* a Skip or a Read has failed
    reports             \* what has been reported to the Reporter

writer == <<file, block_offset_, added, done, faults, append_failed, damaged>>
physical == <<from, end_of_buffer_offset_, eof_>>
logical == <<resyncing_, last_record_offset_, in_fragmented_record, scratch,
             prospective_record_offset, returned>>
reader == <<initial_offset_, physical, fragment, logical, read_failed, reports>>
vars == <<writer, phase, reader>>

None == [type |-> "None", data |-> <<>>]

Crc(t, data) == [is |-> "crc", of |-> <<t, data>>]

Length(n) == [is |-> "length", of |-> n]

Type(t) == [is |-> "type", of |-> t]

Byte(r, k) == [is |-> "byte", of |-> <<r, k>>]

Zero == [is |-> "zero", of |-> 0]

Zeros(n) == [j \in 1 .. n |-> Zero]

Header(t, data) == <<Crc(t, data), Length(Len(data)), Type(t)>>

(***************************************************************************)
(* Writer.                                                                 *)
(***************************************************************************)
Current == Len(added)

Smaller(m, n) == IF m < n THEN m ELSE n

\* One iteration of AddRecord's loop: the trailer of a block that has no room for a
\* header, and the physical record that takes as much of the record as fits.
Iteration ==
    LET leftover == kBlockSize - block_offset_
        full == leftover < kHeaderSize
        offset == IF full THEN 0 ELSE block_offset_
        left == added[Current].size - done
        length == Smaller(left, kBlockSize - offset - kHeaderSize)
        begin == added[Current].start = -1
        end == left = length
        type == IF begin THEN (IF end THEN "Full" ELSE "First") ELSE (IF end THEN "Last" ELSE "Middle")
        data == [k \in 1 .. length |-> Byte(Current, done + k)]
    IN  [trailer |-> IF full THEN Zeros(leftover) ELSE <<>>,
         record |-> Header(type, data) \o data,
         length |-> length, end |-> end, next |-> offset + kHeaderSize + length]

AddRecord(n) ==
    /\ phase = "idle" /\ Len(added) < MaxRecords
    /\ added' = Append(added, [size |-> n, start |-> -1, end |-> -1, ok |-> FALSE])
    /\ done' = 0
    /\ phase' = "adding"
    /\ UNCHANGED <<file, block_offset_, faults, append_failed, damaged, reader>>

\* What an iteration leaves behind when the first cells of the trailer and of the record
\* reach the file: EmitPhysicalRecord advances block_offset_ in any case.
Emit(trailer, record, ok) ==
    LET it == Iteration
        at == Len(file) + Len(trailer)
        whole == record = it.record
    IN  /\ file' = file \o trailer \o record
        /\ block_offset_' = it.next
        /\ done' = done + it.length
        /\ added' = [added EXCEPT ![Current].start = IF @ = -1 THEN at ELSE @,
                                  ![Current].end = IF it.end /\ whole THEN at + Len(record) ELSE @,
                                  ![Current].ok = ok /\ it.end]
        /\ phase' = IF ok /\ ~ it.end THEN "adding" ELSE "idle"
        /\ UNCHANGED <<damaged, reader>>

EmitPhysicalRecord ==
    /\ phase = "adding"
    /\ Emit(Iteration.trailer, Iteration.record, TRUE)
    /\ UNCHANGED <<faults, append_failed>>

\* An Append of header, data or trailer, or the Flush, fails.  AddRecord learns of it and
\* stops, except if it is the trailer's.
AppendFails ==
    /\ phase = "adding" /\ faults < MaxFaults
    /\ faults' = faults + 1 /\ append_failed' = TRUE
    /\ \/ \E n \in 0 .. Len(Iteration.record) :
            Emit(Iteration.trailer, SubSeq(Iteration.record, 1, n), FALSE)
       \/ \E n \in 0 .. Len(Iteration.trailer) - 1 :
            Emit(SubSeq(Iteration.trailer, 1, n), Iteration.record, TRUE)

\* The session ends: in peace, or with the process or the machine, and then what was
\* appended last may not be in the file.
EndSession ==
    /\ phase \in {"idle", "adding"}
    /\ \E n \in 0 .. Len(file) :
        /\ file' = SubSeq(file, 1, n)
        /\ added' = [r \in 1 .. Len(added) |->
              IF added[r].end <= n THEN added[r] ELSE [added[r] EXCEPT !.end = -1]]
    /\ phase' = "closed"
    /\ block_offset_' = 0 /\ done' = 0
    /\ UNCHANGED <<faults, append_failed, damaged, reader>>

BlockOf(cell) == (cell - 1) \div kBlockSize

\* The medium changes a cell, which is then read as anything.
Corrupt ==
    /\ phase = "closed" /\ faults < MaxFaults
    /\ faults' = faults + 1
    /\ \E j \in 1 .. Len(file) :
        /\ file' = [file EXCEPT ![j] = [is |-> "garbage", of |-> 0]]
        /\ damaged' = damaged \cup {BlockOf(j)}
    /\ UNCHANGED <<block_offset_, added, done, append_failed, phase, reader>>

\* Whether the file ends inside a physical record.
EndsTorn ==
    \E j \in 1 .. Len(file) :
        /\ file[j].is = "crc"
        /\ Len(file) < j + kHeaderSize - 1 + Len(file[j].of[2])

\* Mutant: the length the file has is not taken into account.
ReopenAtZero ==
    /\ phase = "closed" /\ faults < MaxFaults
    /\ faults' = faults + 1
    /\ block_offset_' = 0
    /\ damaged' = IF EndsTorn THEN damaged \cup {BlockOf(Len(file))} ELSE damaged
    /\ phase' = "idle"
    /\ UNCHANGED <<file, added, done, append_failed, reader>>

\* Writer(dest, dest_length): a new session goes on where the file ends.
Reopen ==
    /\ phase = "closed" /\ faults < MaxFaults
    /\ faults' = faults + 1
    /\ block_offset_' = Len(file) % kBlockSize
    /\ damaged' = IF EndsTorn THEN damaged \cup {BlockOf(Len(file))} ELSE damaged
    /\ phase' = "idle"
    /\ UNCHANGED <<file, added, done, append_failed, reader>>

(***************************************************************************)
(* Reader.                                                                 *)
(***************************************************************************)
BufferSize == end_of_buffer_offset_ - from

\* ReportDrop, once buffer_ starts at f: in uint64_t a difference below 0 is a large one.
ReportDrop(f, bytes, reason) ==
    reports' = IF f - bytes < 0 \/ f - bytes >= initial_offset_ THEN reports \cup {reason} ELSE reports

\* The first block to read; no record starts among the last cells of a block.
InitialBlock ==
    LET offset_in_block == initial_offset_ % kBlockSize
        start == initial_offset_ - offset_in_block
    IN  IF offset_in_block > kBlockSize - (kHeaderSize - 1) THEN start + kBlockSize ELSE start

\* The caller makes a Reader and calls ReadRecord until it returns false.
SkipToInitialBlock ==
    /\ phase = "closed"
    /\ phase' = "reading"
    /\ IF last_record_offset_ < initial_offset_
       THEN end_of_buffer_offset_' = InitialBlock /\ from' = InitialBlock
       ELSE UNCHANGED <<end_of_buffer_offset_, from>>
    /\ UNCHANGED <<writer, initial_offset_, eof_, fragment, logical, reports, read_failed>>

\* file_->Skip fails, and ReadRecord with it.
SkipFails ==
    /\ phase = "closed"
    /\ InitialBlock > 0
    /\ phase' = "end"
    /\ eof_' = TRUE /\ read_failed' = TRUE
    /\ end_of_buffer_offset_' = InitialBlock /\ from' = InitialBlock
    /\ ReportDrop(InitialBlock, InitialBlock, "skip failed")
    /\ UNCHANGED <<writer, initial_offset_, fragment, logical>>

Ready == phase = "reading" /\ fragment = None

\* What is left of the block is its trailer: the next block is read.
ReadBlock ==
    /\ Ready /\ BufferSize < kHeaderSize /\ ~ eof_
    /\ LET n == Smaller(kBlockSize, Len(file) - Smaller(Len(file), end_of_buffer_offset_))
       IN  /\ from' = end_of_buffer_offset_
           /\ end_of_buffer_offset_' = end_of_buffer_offset_ + n
           /\ eof_' = (n < kBlockSize)
    /\ UNCHANGED <<writer, phase, initial_offset_, fragment, logical, reports, read_failed>>

ReturnPhysical(type, data) == fragment' = [type |-> type, data |-> data]

\* file_->Read fails.
ReadFails ==
    /\ Ready /\ BufferSize < kHeaderSize /\ ~ eof_
    /\ from' = end_of_buffer_offset_
    /\ eof_' = TRUE /\ read_failed' = TRUE
    /\ ReportDrop(end_of_buffer_offset_, kBlockSize, "read failed")
    /\ ReturnPhysical("Eof", <<>>)
    /\ UNCHANGED <<writer, phase, initial_offset_, end_of_buffer_offset_, logical>>

\* Nothing left, or a header cut off by a crash.
ReadEof ==
    /\ Ready /\ BufferSize < kHeaderSize /\ eof_
    /\ from' = end_of_buffer_offset_
    /\ ReturnPhysical("Eof", <<>>)
    /\ UNCHANGED <<writer, phase, initial_offset_, end_of_buffer_offset_, eof_, logical, reports, read_failed>>

\* The values the cell may give as a length, and as a type.
LengthsOf(c) == IF c.is \in {"length", "zero"} THEN {c.of} ELSE 0 .. kBlockSize

TypesOf(c) == IF c.is = "type" THEN {c.of} ELSE IF c.is = "zero" THEN {"Zero"} ELSE RecordTypes \cup {"Zero"}

\* Mutant: a record cut off by the end of the file is reported.
BadLengthAlways ==
    /\ from' = end_of_buffer_offset_
    /\ ReportDrop(from, 0, "bad record length")
    /\ ReturnPhysical("Bad", <<>>)

\* The length leads out of the buffer: at the end of the file, a writer that died.
BadLength ==
    /\ from' = end_of_buffer_offset_
    /\ IF eof_ THEN ReturnPhysical("Eof", <<>>) /\ UNCHANGED reports
       ELSE ReportDrop(from, 0, "bad record length") /\ ReturnPhysical("Bad", <<>>)

\* The rest of ReadPhysicalRecord, on a header in the buffer.
ReadPhysicalRecord ==
    /\ Ready /\ BufferSize >= kHeaderSize
    /\ \E length \in LengthsOf(file[from + 2]), type \in TypesOf(file[from + 3]) :
        LET data == SubSeq(file, from + kHeaderSize + 1, from + kHeaderSize + length)
        IN  IF kHeaderSize + length > BufferSize THEN BadLength
            ELSE IF type = "Zero" /\ length = 0
            THEN /\ from' = end_of_buffer_offset_
                 /\ ReturnPhysical("Bad", <<>>)
                 /\ UNCHANGED reports
            ELSE IF file[from + 1] # Crc(type, data)
            THEN /\ from' = end_of_buffer_offset_
                 /\ ReportDrop(from, 0, "checksum mismatch")
                 /\ ReturnPhysical("Bad", <<>>)
            ELSE /\ from' = from + kHeaderSize + length
                 /\ IF from < initial_offset_ THEN ReturnPhysical("Bad", <<>>) ELSE ReturnPhysical(type, data)
                 /\ UNCHANGED reports
    /\ UNCHANGED <<writer, phase, initial_offset_, end_of_buffer_offset_, eof_, logical, read_failed>>

\* ReadRecord takes up the physical record of one of the given types; the record of a
\* reader that is still looking for the first whole one is passed over.
Takes(types) ==
    /\ phase = "reading" /\ fragment.type \in types
    /\ ~ (resyncing_ /\ fragment.type \in {"Middle", "Last"})
    /\ resyncing_' = FALSE
    /\ fragment' = None
    /\ UNCHANGED <<writer, initial_offset_, physical, read_failed>>

PassOver ==
    /\ phase = "reading" /\ resyncing_ /\ fragment.type \in {"Middle", "Last"}
    /\ resyncing_' = (fragment.type = "Middle")
    /\ fragment' = None
    /\ UNCHANGED <<writer, phase, initial_offset_, physical, last_record_offset_,
                   in_fragmented_record, scratch, prospective_record_offset, returned, read_failed,
                   reports>>

\* The offset of the physical record just read.
RecordOffset == from - kHeaderSize - Len(fragment.data)

\* A record under assembly is given up, and reported unless it is empty.
GiveUp(reason) ==
    IF in_fragmented_record /\ scratch # <<>> THEN ReportDrop(from, Len(scratch), reason)
    ELSE UNCHANGED reports

\* ReadRecord returns true, and is called again.
ReturnRecord(data, offset) ==
    /\ returned' = Append(returned, [data |-> data, offset |-> offset])
    /\ last_record_offset_' = offset
    /\ in_fragmented_record' = FALSE
    /\ scratch' = <<>>
    /\ prospective_record_offset' = 0
    /\ UNCHANGED phase

TakeFull ==
    /\ Takes({"Full"})
    /\ GiveUp("partial record without end(1)")
    /\ ReturnRecord(fragment.data, RecordOffset)

TakeFirst ==
    /\ Takes({"First"})
    /\ GiveUp("partial record without end(2)")
    /\ prospective_record_offset' = RecordOffset
    /\ scratch' = fragment.data
    /\ in_fragmented_record' = TRUE
    /\ UNCHANGED <<phase, last_record_offset_, returned>>

TakeMiddle ==
    /\ Takes({"Middle"})
    /\ IF in_fragmented_record
       THEN scratch' = scratch \o fragment.data /\ UNCHANGED reports
       ELSE /\ ReportDrop(from, Len(fragment.data), "missing start of fragmented record(1)")
            /\ UNCHANGED scratch
    /\ UNCHANGED <<phase, last_record_offset_, in_fragmented_record, prospective_record_offset, returned>>

TakeLast ==
    /\ Takes({"Last"})
    /\ IF in_fragmented_record
       THEN ReturnRecord(scratch \o fragment.data, prospective_record_offset) /\ UNCHANGED reports
       ELSE /\ ReportDrop(from, Len(fragment.data), "missing start of fragmented record(2)")
            /\ UNCHANGED <<phase, last_record_offset_, in_fragmented_record, scratch,
                           prospective_record_offset, returned>>

\* Mutant: after a damaged physical record the record under assembly is kept.
TakeBadKeeps ==
    /\ Takes({"Bad"})
    /\ UNCHANGED <<phase, last_record_offset_, in_fragmented_record, scratch,
                   prospective_record_offset, returned, reports>>

TakeBad ==
    /\ Takes({"Bad"})
    /\ IF in_fragmented_record THEN ReportDrop(from, Len(scratch), "error in middle of record")
       ELSE UNCHANGED reports
    /\ in_fragmented_record' = FALSE
    /\ scratch' = <<>>
    /\ UNCHANGED <<phase, last_record_offset_, prospective_record_offset, returned>>

\* ReadRecord returns false; the rest of a record under assembly was never written.
TakeEof ==
    /\ Takes({"Eof"})
    /\ phase' = "end"
    /\ scratch' = <<>>
    /\ UNCHANGED <<last_record_offset_, in_fragmented_record, prospective_record_offset, returned, reports>>

\* The log has been read.
End == phase = "end" /\ UNCHANGED vars

Init ==
    /\ file = <<>> /\ block_offset_ = 0 /\ added = <<>> /\ done = 0
    /\ phase = "idle" /\ faults = 0 /\ append_failed = FALSE /\ damaged = {}
    /\ initial_offset_ \in InitialOffsets
    /\ from = 0 /\ end_of_buffer_offset_ = 0 /\ eof_ = FALSE
    /\ resyncing_ = (initial_offset_ > 0) /\ last_record_offset_ = 0
    /\ fragment = None /\ in_fragmented_record = FALSE /\ scratch = <<>>
    /\ prospective_record_offset = 0 /\ returned = <<>>
    /\ read_failed = FALSE /\ reports = {}

Next ==
    \/ \E n \in Sizes : AddRecord(n)
    \/ EmitPhysicalRecord
    \/ AppendFails
    \/ EndSession
    \/ Corrupt
    \/ Reopen
    \/ SkipToInitialBlock
    \/ SkipFails
    \/ ReadBlock
    \/ ReadFails
    \/ ReadEof
    \/ ReadPhysicalRecord
    \/ PassOver
    \/ TakeFull
    \/ TakeFirst
    \/ TakeMiddle
    \/ TakeLast
    \/ TakeBad
    \/ TakeEof
    \/ End

Spec == Init /\ [][Next]_vars

(***************************************************************************)
(* Properties.                                                             *)
(***************************************************************************)
\* The bytes of record r.
Payload(r) == [k \in 1 .. added[r].size |-> Byte(r, k)]

\* ReadRecord returns records that were added, whole, in order and at the offset where
\* they are: after resumed sessions, failed appends and corrupted cells too, no record is
\* put together from fragments of two (test ErrorJoinsRecords).
NoInventedRecord ==
    /\ \A j \in 1 .. Len(returned) : \E r \in 1 .. Len(added) :
        returned[j].offset = added[r].start /\ returned[j].data = Payload(r)
    /\ \A j \in 1 .. Len(returned) - 1 : returned[j].offset < returned[j + 1].offset

\* As long as no Append or Read fails: every record whose AddRecord succeeded, that
\* survived the crashes and starts at initial_offset_ or after is returned, unless one of
\* its own blocks is damaged.  The damage does not spread to the next block.
DamageIsLocal ==
    phase = "end" /\ ~ append_failed /\ ~ read_failed
      => \A r \in 1 .. Len(added) :
            \/ ~ added[r].ok \/ added[r].end = -1 \/ added[r].start < initial_offset_
            \/ \E b \in damaged : b \in BlockOf(added[r].start + 1) .. BlockOf(added[r].end)
            \/ \E j \in 1 .. Len(returned) : returned[j].offset = added[r].start

\* A writer that died is not an error: reading from the start a log that one session
\* wrote, however it ended, reports nothing.
NoFalseAlarm == faults = 0 /\ ~ read_failed /\ initial_offset_ = 0 => reports = {}
=============================================================================
