--------------------------- MODULE EnvFilesProofs ---------------------------
(***************************************************************************)
(* Proofs about PosixWritableFile and the helpers of util/env.cc, for any  *)
(* buffer size, sizes of data, splitting of writes and reads, number of    *)
(* failed system calls, crashes and sessions.                              *)
(*                                                                         *)
(* Every step of the helpers is a step of the file or leaves it alone, so  *)
(* the invariant FileInv of the file is one of theirs; HelperInv adds what *)
(* DoWriteStringToFile and ReadFileToString know of the file at each step. *)
(***************************************************************************)
EXTENDS EnvFiles, SequenceTheorems, TLAPS

(***************************************************************************)
(* The invariant of the file.                                              *)
(***************************************************************************)
FileTypes ==
    /\ file \in Seq(Nat) /\ buf_ \in Seq(Nat) /\ writing \in Seq(Nat) /\ rest \in Seq(Nat)
    /\ durable \in Nat /\ durable <= Len(file)
    /\ names \in Nat /\ durable_names \in Nat /\ named \in Nat /\ synced_names \in Nat
    /\ appended \in Nat
    /\ opened \in [file : Seq(Nat), appended : Nat] /\ opened.appended <= appended

Resting == {"idle", "destroyed", "crashed"}

\* Which method each system call is made by, and whether the descriptor is open then.
Control ==
    /\ \/ pc \in Resting /\ op = "none"
       \/ pc = "flush" /\ op \in {"Append", "Flush", "Sync", "Close", "Destroy"}
       \/ pc = "direct" /\ op = "Append"
       \/ pc \in {"sync directory", "sync file"} /\ op = "Sync"
       \/ pc = "close" /\ op \in {"Close", "Destroy"}
    /\ pc \notin Resting => is_open
    /\ pc \in {"destroyed", "crashed"} => ~ is_open

\* Where bytes may be waiting.
Buffers ==
    /\ pc \notin {"flush", "direct"} => writing = <<>>
    /\ rest # <<>> => pc = "flush" /\ op = "Append"
    /\ pc \in {"direct", "sync file", "close"} \/ ~ is_open => buf_ = <<>>
    /\ Len(buf_) <= kWritableFileBufferSize

\* All the bytes the file has or is to have.
Whole == file \o Pending

\* Stronger than that neighbours are in order, as InOrder has it: from that it would
\* follow only by induction.
Increasing(s) == \A i, j \in 1 .. Len(s) : i < j => s[i] < s[j]

UpTo(s, n) == \A j \in 1 .. Len(s) : s[j] <= n

Ordered == Increasing(Whole) /\ UpTo(Whole, appended)

Complete == ~ error /\ pc # "crashed" => Whole = Expected

\* What Sync answers for is in the part of the file that no crash takes away.
Promises ==
    /\ PromisesKept
    /\ synced \subseteq Elements(SubSeq(file, 1, durable))

\* Between the directory's sync and the file's the names that the MANIFEST holds are durable.
Names ==
    /\ synced_names <= durable_names /\ durable_names <= names
    /\ ~ is_manifest_ => named = 0
    /\ pc # "crashed" => named <= names
    /\ op = "Sync" /\ pc \in {"flush", "sync file"} => named <= durable_names

FileInv == FileTypes /\ Control /\ Buffers /\ Ordered /\ Complete /\ Promises /\ Names

(***************************************************************************)
(* The invariant of the helpers.                                           *)
(***************************************************************************)
\* Where the file is at each step of DoWriteStringToFile.
CallerControl ==
    /\ caller \in {"others", "append", "sync", "close", "delete", "return", "ok", "error", "crashed"}
    /\ caller \notin {"others", "ok", "error", "crashed"} => pc # "crashed"
    /\ caller = "close" => pc = "idle" \/ op = "Sync"
    /\ caller = "ok" => pc = "crashed" \/ (pc = "destroyed" /\ ~ error)

\* After a Sync that succeeded (Settled) nothing is pending and all of the file is durable, up to the
\* return of DoWriteStringToFile.
Settled == caller \in {"delete", "return", "ok"} \/ (caller = "close" /\ pc = "idle")

SyncedWhole ==
    should_sync /\ ~ error /\ pc # "crashed" /\ Settled => durable = Len(file) /\ Pending = <<>>

\* What ReadFileToString has read is a prefix of the file, all of it once it is done.
ReaderInv ==
    /\ reader \in [state : {"none", "reading", "ok", "failed"}, data : Seq(Nat), length : Nat]
    /\ caller = "others" => reader = NotReading
    /\ Len(reader.data) <= Len(file) /\ reader.length <= Len(file)
    /\ reader.data = SubSeq(file, 1, Len(reader.data))
    /\ reader.state = "ok" => Len(reader.data) >= reader.length

HelperInv == CallerControl /\ SyncedWhole /\ StringWritten /\ ReaderInv

(***************************************************************************)
(* Sequences of bytes.                                                     *)
(***************************************************************************)
LEMMA EmptyBytes == <<>> \in Seq(Nat) /\ Len(<<>>) = 0
BY EmptySeq

LEMMA ByteSeq ==
    ASSUME NEW s \in Seq(Nat)
    PROVE  Len(s) \in Nat /\ \A j \in 1 .. Len(s) : s[j] \in Nat
BY LenProperties

LEMMA ConcatBytes ==
    ASSUME NEW s \in Seq(Nat), NEW t \in Seq(Nat)
    PROVE  /\ s \o t \in Seq(Nat)
           /\ Len(s \o t) = Len(s) + Len(t)
           /\ \A j \in 1 .. Len(s) : (s \o t)[j] = s[j]
           /\ \A j \in 1 .. Len(t) : (s \o t)[Len(s) + j] = t[j]
<1>1. Len(s) \in Nat /\ Len(t) \in Nat
  BY ByteSeq
<1>2. s \o t \in Seq(Nat) /\ Len(s \o t) = Len(s) + Len(t)
  BY ConcatProperties
<1>3. \A j \in 1 .. Len(s) : (s \o t)[j] = s[j]
  BY <1>1, ConcatProperties
<1>4. ASSUME NEW j \in 1 .. Len(t) PROVE (s \o t)[Len(s) + j] = t[j]
  <2>1. (s \o t)[Len(s) + j] = t[(Len(s) + j) - Len(s)]
    BY <1>1, ConcatProperties
  <2>2. (Len(s) + j) - Len(s) = j
    BY <1>1
  <2> QED
    BY <2>1, <2>2
<1> QED
  BY <1>2, <1>3, <1>4

LEMMA NoBytesFit == Len(<<>>) <= kWritableFileBufferSize
BY FileAssumption

LEMMA BytesType ==
    ASSUME NEW a \in Nat, NEW b \in Nat, a <= b
    PROVE  /\ Bytes(a, b) \in Seq(Nat) /\ Len(Bytes(a, b)) = b - a
           /\ \A j \in 1 .. b - a : Bytes(a, b)[j] = a + j
BY DEF Bytes

LEMMA BytesNone ==
    ASSUME NEW a \in Nat
    PROVE  Bytes(a, a) = <<>>
BY BytesType, EmptySeq

LEMMA BytesConcat ==
    ASSUME NEW a \in Nat, NEW b \in Nat, NEW c \in Nat, a <= b, b <= c
    PROVE  Bytes(a, b) \o Bytes(b, c) = Bytes(a, c)
<1> DEFINE s == Bytes(a, b)
           t == Bytes(b, c)
           u == Bytes(a, c)
<1>1. s \in Seq(Nat) /\ Len(s) = b - a /\ \A j \in 1 .. b - a : s[j] = a + j
  BY BytesType
<1>2. t \in Seq(Nat) /\ Len(t) = c - b /\ \A j \in 1 .. c - b : t[j] = b + j
  BY BytesType
<1>3. u \in Seq(Nat) /\ Len(u) = c - a /\ \A j \in 1 .. c - a : u[j] = a + j
  <2>1. a <= c
    OBVIOUS
  <2> QED
    BY <2>1, BytesType
<1> HIDE DEF s, t, u
<1>4. s \o t \in Seq(Nat) /\ Len(s \o t) = Len(u)
  BY <1>1, <1>2, <1>3, ConcatBytes
<1>5. ASSUME NEW i \in 1 .. Len(u) PROVE (s \o t)[i] = u[i]
  <2>1. CASE i <= b - a
    BY <2>1, <1>1, <1>2, <1>3, ConcatBytes
  <2>2. CASE i > b - a
    <3>1. PICK j \in 1 .. c - b : i = (b - a) + j
      <4>1. i - (b - a) \in 1 .. c - b /\ i = (b - a) + (i - (b - a))
        BY <2>2, <1>3
      <4> QED
        BY <4>1
    <3>2. (s \o t)[i] = t[j]
      BY <3>1, <1>1, <1>2, ConcatBytes
    <3> QED
      BY <3>1, <3>2, <1>2, <1>3
  <2>3. i <= b - a \/ i > b - a
    <3>1. Len(u) \in Int
      BY <1>3
    <3> QED
      BY <3>1
  <2> QED
    BY <2>1, <2>2, <2>3
<1>6. s \o t = u
  BY <1>3, <1>4, <1>5, SeqEqual
<1> QED
  BY <1>6 DEF s, t, u

LEMMA ElementsOfPrefix ==
    ASSUME NEW s \in Seq(Nat), NEW m \in Nat, NEW n \in Nat, m <= n, n <= Len(s)
    PROVE  Elements(SubSeq(s, 1, m)) \subseteq Elements(SubSeq(s, 1, n))
<1>1. Len(SubSeq(s, 1, m)) = m /\ Len(SubSeq(s, 1, n)) = n
  BY LenProperties, SubSeqProperties
<1>2. \A i \in 1 .. m : SubSeq(s, 1, m)[i] = s[i] /\ SubSeq(s, 1, n)[i] = s[i]
  BY LenProperties, SubSeqProperties
<1> QED
  BY <1>1, <1>2 DEF Elements

LEMMA ElementsOfConcat ==
    ASSUME NEW s \in Seq(Nat), NEW t \in Seq(Nat)
    PROVE  Elements(s) \subseteq Elements(s \o t)
BY ByteSeq, ConcatBytes DEF Elements

LEMMA PrefixOfConcat ==
    ASSUME NEW s \in Seq(Nat), NEW t \in Seq(Nat), NEW n \in Nat, n <= Len(s)
    PROVE  SubSeq(s \o t, 1, n) = SubSeq(s, 1, n)
<1>1. CASE n = 0
  BY <1>1, SubSeqEmpty
<1>2. CASE n # 0
  BY <1>2, LenProperties, SubSeqOfConcat1
<1> QED
  BY <1>1, <1>2

\* A prefix of what is in order is in order.
LEMMA OrderOfPrefix ==
    ASSUME NEW s \in Seq(Nat), NEW t \in Seq(Nat), NEW n \in Nat,
           Increasing(s \o t), UpTo(s \o t, n)
    PROVE  Increasing(s) /\ UpTo(s, n)
<1>1. Len(s) \in Nat /\ Len(t) \in Nat
  BY ByteSeq
<1>2. Len(s \o t) = Len(s) + Len(t) /\ \A i \in 1 .. Len(s) : (s \o t)[i] = s[i]
  BY ConcatBytes
<1>3. \A i \in 1 .. Len(s) : i \in 1 .. Len(s \o t)
  BY <1>1, <1>2
<1>4. Increasing(s)
  BY <1>2, <1>3 DEF Increasing
<1>5. UpTo(s, n)
  BY <1>2, <1>3 DEF UpTo
<1> QED
  BY <1>4, <1>5

LEMMA OrderOfSubSeq ==
    ASSUME NEW s \in Seq(Nat), NEW m \in Nat, m <= Len(s), NEW n \in Nat,
           Increasing(s), UpTo(s, n)
    PROVE  Increasing(SubSeq(s, 1, m)) /\ UpTo(SubSeq(s, 1, m), n)
<1>1. /\ Len(s) \in Nat /\ Len(SubSeq(s, 1, m)) = m
      /\ \A i \in 1 .. m : SubSeq(s, 1, m)[i] = s[i]
  BY LenProperties, SubSeqProperties
<1> DEFINE t == SubSeq(s, 1, m)
<1>2. \A i \in 1 .. m : i \in 1 .. Len(s) /\ t[i] = s[i]
  BY <1>1
<1>3. Len(t) = m
  BY <1>1
<1> HIDE DEF t
<1>4. Increasing(t)
  BY <1>2, <1>3 DEF Increasing
<1>5. UpTo(t, n)
  BY <1>2, <1>3 DEF UpTo
<1> QED
  BY <1>4, <1>5 DEF t

\* New bytes come after all the others.
LEMMA OrderOfAppend ==
    ASSUME NEW s \in Seq(Nat), NEW a \in Nat, NEW b \in Nat, a <= b,
           Increasing(s), UpTo(s, a)
    PROVE  Increasing(s \o Bytes(a, b)) /\ UpTo(s \o Bytes(a, b), b)
<1> DEFINE t == Bytes(a, b)
           n == Len(s)
<1>1. t \in Seq(Nat) /\ Len(t) = b - a /\ \A j \in 1 .. b - a : t[j] = a + j
  BY BytesType
<1>2. n \in Nat /\ Len(s \o t) = n + (b - a) /\ \A j \in 1 .. n : s[j] \in Nat
  BY <1>1, ByteSeq, ConcatBytes
<1>3. \A i \in 1 .. n : (s \o t)[i] = s[i]
  BY <1>1, <1>2, ConcatBytes
<1>4. \A i \in 1 .. n + (b - a) : i > n => (s \o t)[i] = a + (i - n)
  <2> SUFFICES ASSUME NEW i \in 1 .. n + (b - a), i > n
               PROVE  (s \o t)[i] = a + (i - n)
    OBVIOUS
  <2>1. i - n \in 1 .. Len(t) /\ n + (i - n) = i
    BY <1>1, <1>2
  <2>2. (s \o t)[i] = t[i - n]
    BY <2>1, <1>1, ConcatBytes
  <2> QED
    BY <2>1, <2>2, <1>1
<1>5. \A i \in 1 .. n : s[i] <= a
  BY DEF UpTo
<1>6. \A i, j \in 1 .. n : i < j => s[i] < s[j]
  BY DEF Increasing
<1> HIDE DEF t, n
<1>7. UpTo(s \o t, b)
  BY <1>2, <1>3, <1>4, <1>5 DEF UpTo
<1>8. Increasing(s \o t)
  BY <1>2, <1>3, <1>4, <1>5, <1>6, SMTT(30) DEF Increasing
<1> QED
  BY <1>7, <1>8 DEF t

LEMMA TwoParts ==
    ASSUME NEW s \in Seq(Nat), NEW m \in Nat, m <= Len(s)
    PROVE  /\ SubSeq(s, 1, m) \in Seq(Nat) /\ Len(SubSeq(s, 1, m)) = m
           /\ SubSeq(s, m + 1, Len(s)) \in Seq(Nat)
           /\ SubSeq(s, 1, m) \o SubSeq(s, m + 1, Len(s)) = s
<1>1. Len(s) \in Nat /\ \A i \in 1 .. Len(s) : s[i] \in Nat
  BY LenProperties
<1>2. SubSeq(s, 1, m) \in Seq(Nat) /\ Len(SubSeq(s, 1, m)) = m
  BY <1>1, SubSeqProperties
<1>3. SubSeq(s, m + 1, Len(s)) \in Seq(Nat)
  BY <1>1, SubSeqProperties
<1>4. SubSeq(s, 1, m) \o SubSeq(s, m + 1, Len(s)) = SubSeq(s, 1, Len(s))
  <2>1. 1 \in 1 .. Len(s) + 1 /\ m \in (1 - 1) .. Len(s) /\ Len(s) \in m .. Len(s)
    BY <1>1
  <2> QED
    BY <2>1, ConcatAdjacentSubSeq
<1> QED
  BY <1>2, <1>3, <1>4, SubSeqFull

(***************************************************************************)
(* What steps do to the bytes, the promises and the names.                 *)
(***************************************************************************)
LEMMA WholeType == FileTypes => Pending \in Seq(Nat) /\ Whole \in Seq(Nat) /\ Expected \in Seq(Nat)
<1> SUFFICES ASSUME FileTypes PROVE Pending \in Seq(Nat) /\ Whole \in Seq(Nat) /\ Expected \in Seq(Nat)
  OBVIOUS
<1>1. (IF pc \in {"flush", "direct"} THEN writing ELSE buf_) \in Seq(Nat) /\ rest \in Seq(Nat)
  BY DEF FileTypes
<1>2. Pending \in Seq(Nat)
  BY <1>1, ConcatBytes DEF Pending
<1>3. Whole \in Seq(Nat)
  BY <1>2, ConcatBytes DEF Whole, FileTypes
<1>4. opened.file \in Seq(Nat) /\ opened.appended \in Nat /\ opened.appended <= appended /\ appended \in Nat
  BY DEF FileTypes
<1>5. Expected \in Seq(Nat)
  BY <1>4, BytesType, ConcatBytes DEF Expected
<1> QED
  BY <1>2, <1>3, <1>5

LEMMA NameTypes ==
    FileInv => /\ names \in Nat /\ durable_names \in Nat /\ named \in Nat /\ synced_names \in Nat
               /\ named = 0 => named <= durable_names
BY DEF FileInv, FileTypes

LEMMA NameOrder ==
    FileInv => /\ synced_names <= durable_names /\ durable_names <= names /\ synced_names <= names
               /\ pc # "crashed" => named <= names
<1> SUFFICES ASSUME FileInv
             PROVE  /\ synced_names <= durable_names /\ durable_names <= names /\ synced_names <= names
                    /\ pc # "crashed" => named <= names
  OBVIOUS
<1>1. synced_names <= durable_names /\ durable_names <= names /\ (pc # "crashed" => named <= names)
  BY Zenon DEF FileInv, Names
<1> QED
  BY <1>1, NameTypes

\* The bytes move from one place to another, if at all.
LEMMA ContentStays ==
    ASSUME FileInv, Whole' = Whole, UNCHANGED <<appended, opened>>, ~ error' => ~ error,
           pc # "crashed"
    PROVE  Ordered' /\ Complete'
<1>1. Ordered'
  BY DEF FileInv, Ordered
<1>2. Expected' = Expected
  BY DEF Expected
<1>3. Complete'
  BY <1>2 DEF FileInv, Complete
<1> QED
  BY <1>1, <1>3

\* The bytes pending are lost, and perhaps a tail of the file.
LEMMA ContentLost ==
    ASSUME FileInv, NEW n \in Nat, n <= Len(file), Whole' = SubSeq(file, 1, n), UNCHANGED appended,
           ~ error' => pc' = "crashed"
    PROVE  Ordered' /\ Complete'
<1>1. file \in Seq(Nat) /\ appended \in Nat /\ Pending \in Seq(Nat)
  BY WholeType DEF FileInv, FileTypes
<1>2. Increasing(file) /\ UpTo(file, appended)
  BY <1>1, OrderOfPrefix DEF FileInv, Ordered, Whole
<1>3. Increasing(SubSeq(file, 1, n)) /\ UpTo(SubSeq(file, 1, n), appended)
  BY <1>1, <1>2, OrderOfSubSeq
<1>4. Ordered'
  BY <1>3 DEF Ordered
<1>5. Complete'
  BY DEF Complete
<1> QED
  BY <1>4, <1>5

LEMMA PromisesStay ==
    ASSUME FileInv, UNCHANGED <<file, durable, flushed, synced>>
    PROVE  Promises'
BY DEF FileInv, Promises, PromisesKept, Elements

LEMMA NamesStay ==
    ASSUME FileInv, UNCHANGED <<names, durable_names, synced_names, is_manifest_, named>>,
           pc = "crashed" => pc' = "crashed",
           op' = "Sync" /\ pc' \in {"flush", "sync file"} => named <= durable_names
    PROVE  Names'
BY DEF FileInv, Names

\* A step that moves bytes from one buffer to another at most.
LEMMA QuietStep ==
    ASSUME FileInv, UNCHANGED <<kernel, is_manifest_, history, promises>>,
           buf_' \in Seq(Nat), writing' \in Seq(Nat), rest' \in Seq(Nat), Pending' = Pending,
           ~ error' => ~ error, pc # "crashed",
           op' = "Sync" /\ pc' \in {"flush", "sync file"} => named <= durable_names
    PROVE  FileTypes' /\ Ordered' /\ Complete' /\ Promises' /\ Names'
<1>1. /\ UNCHANGED <<file, durable, names, durable_names, appended, opened, named>>
      /\ UNCHANGED <<is_manifest_, flushed, synced, synced_names>>
  BY DEF kernel, history, promises
<1>2. FileTypes'
  BY <1>1 DEF FileInv, FileTypes
<1>3. Whole' = Whole
  BY <1>1 DEF Whole
<1>4. Ordered' /\ Complete'
  BY <1>1, <1>3, ContentStays
<1>5. Promises'
  BY <1>1, PromisesStay
<1>6. Names'
  BY <1>1, NamesStay
<1> QED
  BY <1>2, <1>4, <1>5, <1>6

LEMMA Empty == ASSUME NEW s \in Seq(Nat) PROVE s \o <<>> = s /\ <<>> \o s = s
BY ConcatEmptySeq

(***************************************************************************)
(* The actions.                                                            *)
(***************************************************************************)
\* A method begins: all of the buffer is to be written, or first the directory synced.
LEMMA StartKeeps ==
    ASSUME FileInv, NEW method \in {"Flush", "Sync", "Close", "Destroy"},
           \/ Start(method, "flush") /\ FlushBuffer /\ (method = "Sync" => ~ is_manifest_)
           \/ Start(method, "sync directory") /\ UNCHANGED writing /\ method = "Sync",
           UNCHANGED <<kernel, is_manifest_, buf_, is_open, rest, history, error, promises, limits>>
    PROVE  FileInv'
<1>1. /\ pc = "idle" /\ is_open /\ op' = method
      /\ \/ pc' = "flush" /\ writing' = buf_ /\ (method = "Sync" => ~ is_manifest_)
         \/ pc' = "sync directory" /\ writing' = writing /\ method = "Sync"
  BY DEF Start, Idle, FlushBuffer
<1>2. buf_' = buf_ /\ rest' = rest /\ is_open' /\ (~ error' => ~ error)
  BY <1>1, Zenon
<1>3. buf_ \in Seq(Nat) /\ writing \in Seq(Nat) /\ rest \in Seq(Nat)
  BY DEF FileInv, FileTypes
<1>4. Pending = buf_ \o rest /\ Pending' = buf_ \o rest
 BY <1>1, <1>2 DEF Pending, FileInv, Buffers
<1>5. op' = "Sync" /\ pc' \in {"flush", "sync file"} => named <= durable_names
  <2>1. ~ is_manifest_ => named = 0
    BY DEF FileInv, Names
  <2>2. named = 0 => named <= durable_names
    BY NameTypes
  <2>3. op' = "Sync" /\ pc' \in {"flush", "sync file"} => ~ is_manifest_
    BY <1>1
  <2> QED
    BY <2>1, <2>2, <2>3
<1>6. FileTypes' /\ Ordered' /\ Complete' /\ Promises' /\ Names'
  BY <1>1, <1>2, <1>3, <1>4, <1>5, QuietStep
<1>7. Control'
  BY <1>1, <1>2 DEF Control, Resting
<1>8. Buffers'
  BY <1>1, <1>2 DEF FileInv, Control, Buffers, Resting
<1> QED
  BY <1>6, <1>7, <1>8 DEF FileInv

LEMMA FlushKeeps == ASSUME FileInv, Flush PROVE FileInv'
BY StartKeeps DEF Flush

LEMMA SyncKeeps == ASSUME FileInv, Sync PROVE FileInv'
<1>1. CASE is_manifest_
  BY <1>1, StartKeeps DEF Sync
<1>2. CASE ~ is_manifest_
  BY <1>2, StartKeeps DEF Sync
<1> QED
  BY <1>1, <1>2

LEMMA CloseKeeps ==
    ASSUME FileInv, NEW method \in {"Close", "Destroy"}, Close(method) PROVE FileInv'
BY StartKeeps DEF Close

\* The buffer is flushed and the next system call is due.
LEMMA FlushedKeeps ==
    ASSUME FileInv, SyncFlushed \/ CloseFlushed
    PROVE  FileInv'
<1>1. /\ pc = "flush" /\ writing = <<>> /\ buf_' = <<>> /\ op' = op
      /\ \/ op = "Sync" /\ pc' = "sync file"
         \/ op \in {"Close", "Destroy"} /\ pc' = "close"
      /\ UNCHANGED <<kernel, is_manifest_, history, promises>>
      /\ UNCHANGED <<is_open, writing, rest, error>>
  BY DEF SyncFlushed, CloseFlushed, FlushedIn, Go
<1>2. writing \in Seq(Nat) /\ rest \in Seq(Nat) /\ buf_' \in Seq(Nat)
  BY <1>1 DEF FileInv, FileTypes
<1>3. Pending = writing \o rest /\ Pending' = buf_' \o rest'
  BY <1>1 DEF Pending
<1>4. Pending' = Pending
  BY <1>1, <1>3
<1>5. op' = "Sync" /\ pc' \in {"flush", "sync file"} => named <= durable_names
  BY <1>1 DEF FileInv, Names
<1>6. FileTypes' /\ Ordered' /\ Complete' /\ Promises' /\ Names'
  BY <1>1, <1>2, <1>4, <1>5, QuietStep
<1>7. is_open /\ is_open'
  <2>1. pc \notin Resting
    BY <1>1 DEF Resting
  <2> QED
    BY <1>1, <2>1, Zenon DEF FileInv, Control
<1>8. Control'
  BY <1>1, <1>7 DEF Control, Resting
<1>9. Buffers'
  <2>1. Len(buf_') <= kWritableFileBufferSize
    BY <1>1, NoBytesFit
  <2>2. rest # <<>> => op = "Append"
    BY DEF FileInv, Buffers
  <2> QED
    BY <1>1, <1>7, <2>1, <2>2 DEF Buffers
<1> QED
  BY <1>6, <1>8, <1>9 DEF FileInv

\* Whether the descriptor is open while a method runs.
LEMMA RunningIsOpen == ASSUME FileInv, pc \notin Resting PROVE is_open
BY Zenon DEF FileInv, Control

LEMMA AppendRestKeeps == ASSUME FileInv, AppendRest PROVE FileInv'
<1>1. /\ pc = "flush" /\ writing = <<>> /\ op = "Append" /\ rest' = <<>>
      /\ UNCHANGED <<kernel, is_manifest_, history, promises>>
      /\ UNCHANGED <<is_open, error>>
      /\ \/ /\ Len(rest) < kWritableFileBufferSize
            /\ buf_' = rest /\ writing' = writing /\ op' = "none" /\ pc' = "idle"
         \/ buf_' = <<>> /\ writing' = rest /\ op' = op /\ pc' = "direct"
  BY DEF AppendRest, FlushedIn, Return, Go
<1>2. is_open' /\ (~ error' => ~ error)
  BY <1>1, RunningIsOpen, Zenon DEF Resting
<1>3. rest \in Seq(Nat) /\ <<>> \in Seq(Nat)
  BY EmptyBytes DEF FileInv, FileTypes
<1>4. buf_' \in Seq(Nat) /\ writing' \in Seq(Nat) /\ rest' \in Seq(Nat)
  BY <1>1, <1>3
<1>5. Pending' = Pending
  <2>1. Pending = <<>> \o rest
    BY <1>1 DEF Pending
  <2>2. Pending' = rest \o <<>>
    BY <1>1 DEF Pending
  <2> QED
    BY <2>1, <2>2, <1>3, Empty
<1>6. FileTypes' /\ Ordered' /\ Complete' /\ Promises' /\ Names'
  BY <1>1, <1>2, <1>4, <1>5, QuietStep
<1>7. Control'
  BY <1>1, <1>2 DEF Control, Resting
<1>8. Buffers'
  <2>1. Len(buf_') <= kWritableFileBufferSize
    <3>1. Len(rest) \in Nat
      BY <1>3, ByteSeq
    <3> QED
      BY <1>1, <3>1, NoBytesFit, FileAssumption
  <2> QED
    BY <1>1, <1>2, <2>1 DEF Buffers
<1> QED
  BY <1>6, <1>7, <1>8 DEF FileInv

\* A method returns, or the destructor finds the file closed.
LEMMA ReturnKeeps ==
    ASSUME FileInv, AppendReturns \/ SyncFails \/ CloseFd \/ DestroyClosed
    PROVE  FileInv'
<1>1. /\ UNCHANGED <<kernel, is_manifest_, history, promises>>
      /\ UNCHANGED <<buf_, writing, rest>>
      /\ op' = "none" /\ pc' \in {"idle", "destroyed"}
      /\ pc \in {"direct", "sync directory", "sync file", "close", "idle"}
      /\ pc = "direct" => writing = <<>>
  BY DEF AppendReturns, SyncFails, CloseFd, DestroyClosed, Return, FileInv, Control, Resting
<1>2. ~ error' => ~ error
  BY Zenon DEF AppendReturns, SyncFails, CloseFd, DestroyClosed, Fail
<1>3. buf_ \in Seq(Nat) /\ writing \in Seq(Nat) /\ rest \in Seq(Nat)
  BY DEF FileInv, FileTypes
<1>4. (pc = "direct" => buf_ = <<>>) /\ rest = <<>> /\ writing = <<>>
  BY <1>1 DEF FileInv, Buffers
<1>5. Pending' = Pending
  BY <1>1, <1>4 DEF Pending
<1>6. FileTypes' /\ Ordered' /\ Complete' /\ Promises' /\ Names'
  BY <1>1, <1>2, <1>3, <1>5, QuietStep
<1>7. pc' = "destroyed" => ~ is_open'
  <2>1. CASE CloseFd
    BY <2>1, Zenon DEF CloseFd
  <2>2. CASE DestroyClosed
    BY <2>2, Zenon DEF DestroyClosed
  <2>3. CASE AppendReturns
    BY <2>3 DEF AppendReturns, Return, FileInv, Control, Resting
  <2>4. CASE SyncFails
    BY <2>4 DEF SyncFails, Return, FileInv, Control, Resting
  <2> QED
    BY <2>1, <2>2, <2>3, <2>4
<1>8. Control'
  BY <1>1, <1>7 DEF Control, Resting
<1>9. ~ is_open' => buf_ = <<>>
  <2>1. CASE CloseFd
    BY <2>1 DEF CloseFd, FileInv, Buffers
  <2>2. CASE ~ CloseFd
    <3>1. is_open' = is_open
      BY <2>2, Zenon DEF AppendReturns, SyncFails, DestroyClosed
    <3> QED
      BY <3>1, Zenon DEF FileInv, Buffers
  <2> QED
    BY <2>1, <2>2
<1>10. Len(buf_) <= kWritableFileBufferSize
  BY DEF FileInv, Buffers
<1>11. Buffers'
  BY <1>1, <1>4, <1>9, <1>10 DEF Buffers
<1> QED
  BY <1>6, <1>8, <1>11 DEF FileInv

\* Once nothing is pending and nothing has failed, the file is all there should be.
LEMMA FileIsExpected ==
    ASSUME FileInv, Pending = <<>>, ~ error, pc # "crashed"
    PROVE  file = Expected
<1>1. Whole = Expected
  BY DEF FileInv, Complete
<1>2. Whole = file
  BY Empty DEF Whole, FileInv, FileTypes
<1> QED
  BY <1>1, <1>2

LEMMA FlushReturnsKeeps == ASSUME FileInv, FlushReturns PROVE FileInv'
<1>1. /\ pc = "flush" /\ writing = <<>> /\ op = "Flush" /\ buf_' = <<>>
      /\ op' = "none" /\ pc' = "idle" /\ flushed' = IF error THEN flushed ELSE Elements(Expected)
      /\ UNCHANGED <<kernel, is_manifest_, history, synced, synced_names>>
      /\ UNCHANGED <<is_open, writing, rest, error>>
  BY DEF FlushReturns, FlushedIn, Return
<1>2. is_open' /\ (~ error' => ~ error)
  BY <1>1, RunningIsOpen, Zenon DEF Resting
<1>3. /\ UNCHANGED <<file, durable, names, durable_names, appended, opened, named>>
      /\ UNCHANGED <<is_manifest_, synced, synced_names>>
  BY <1>1 DEF kernel, history
<1>4. rest = <<>> /\ writing \in Seq(Nat) /\ <<>> \in Seq(Nat)
  BY <1>1, EmptyBytes DEF FileInv, FileTypes, Buffers
<1>5. FileTypes'
  BY <1>1, <1>3, <1>4 DEF FileInv, FileTypes
<1>6. Pending = <<>> /\ Pending' = <<>>
  BY <1>1, <1>4, Empty DEF Pending
<1>7. Whole' = Whole
  BY <1>3, <1>6 DEF Whole
<1>8. Ordered' /\ Complete'
  BY <1>1, <1>2, <1>3, <1>7, ContentStays
<1>9. Names'
  BY <1>1, <1>3, NamesStay
<1>10. Promises'
  <2>1. flushed' \subseteq Elements(file)
    <3>1. CASE error
      BY <1>1, <3>1 DEF FileInv, Promises, PromisesKept
    <3>2. CASE ~ error
      <4>1. file = Expected
        BY <3>2, <1>1, <1>6, FileIsExpected
      <4> QED
        BY <4>1, <3>2, <1>1
    <3> QED
      BY <3>1, <3>2
  <2>2. file' = file /\ synced' = synced /\ durable' = durable
    BY <1>3
  <2>3. synced \subseteq Elements(file) /\ synced \subseteq Elements(SubSeq(file, 1, durable))
    BY DEF FileInv, Promises, PromisesKept
  <2> QED
    BY <2>1, <2>2, <2>3 DEF Promises, PromisesKept, Elements
<1>11. Control'
  BY <1>1, <1>2 DEF Control, Resting
<1>12. Buffers'
  BY <1>1, <1>2, <1>4, NoBytesFit DEF Buffers
<1> QED
  BY <1>5, <1>8, <1>9, <1>10, <1>11, <1>12 DEF FileInv

LEMMA SyncDirKeeps == ASSUME FileInv, SyncDirIfManifest PROVE FileInv'
<1>1. /\ pc = "sync directory" /\ pc' = "flush" /\ op' = op /\ writing' = buf_
      /\ durable_names' = names
      /\ UNCHANGED <<file, durable, names, is_manifest_, history, promises>>
      /\ UNCHANGED <<buf_, is_open, rest, error>>
  BY DEF SyncDirIfManifest, FlushBuffer, Go
<1>2. is_open' /\ (~ error' => ~ error)
  BY <1>1, RunningIsOpen, Zenon DEF Resting
<1>3. UNCHANGED <<appended, opened, named, flushed, synced, synced_names>>
  BY <1>1 DEF history, promises
<1>4. FileTypes'
  BY <1>1, <1>3 DEF FileInv, FileTypes
<1>5. Pending' = Pending
  BY <1>1 DEF Pending
<1>6. Whole' = Whole
  BY <1>1, <1>5 DEF Whole
<1>7. Ordered' /\ Complete'
  BY <1>1, <1>2, <1>3, <1>6, ContentStays
<1>8. Promises'
  BY <1>1, <1>3, PromisesStay
<1>9. Names'
  <2>1. ~ is_manifest_' => named' = 0
    BY <1>1, <1>3, Zenon DEF FileInv, Names
  <2>2. /\ synced_names' = synced_names /\ named' = named
        /\ names' = names /\ durable_names' = names /\ pc # "crashed"
    BY <1>1, <1>3
  <2>3. synced_names <= names /\ names <= names /\ named <= names
    BY <2>2, NameTypes, NameOrder
  <2> QED
    BY <2>1, <2>2, <2>3 DEF Names
<1>10. Control'
  BY <1>1, <1>2 DEF FileInv, Control, Resting
<1>11. Buffers'
  BY <1>1, <1>2 DEF FileInv, Buffers
<1> QED
  BY <1>4, <1>7, <1>8, <1>9, <1>10, <1>11 DEF FileInv

LEMMA SyncFdKeeps == ASSUME FileInv, SyncFd PROVE FileInv'
<1>1. op = "Sync"
  BY DEF SyncFd, FileInv, Control, Resting
<1>2. /\ pc = "sync file" /\ durable' = Len(file) /\ op' = "none" /\ pc' = "idle"
      /\ flushed' = IF error THEN flushed ELSE Elements(Expected)
      /\ synced' = IF error THEN synced ELSE Elements(Expected)
      /\ synced_names' = IF named > synced_names THEN named ELSE synced_names
      /\ UNCHANGED <<file, names, durable_names, is_manifest_, history>>
      /\ UNCHANGED <<buf_, is_open, writing, rest, error>>
  BY <1>1 DEF SyncFd, Return
<1>3. is_open' /\ (~ error' => ~ error)
  BY <1>2, RunningIsOpen, Zenon DEF Resting
<1>4. UNCHANGED <<appended, opened, named>>
  BY <1>2 DEF history
<1>5. writing = <<>> /\ rest = <<>> /\ buf_ = <<>>
  BY <1>2 DEF FileInv, Buffers
<1>6. file \in Seq(Nat) /\ Len(file) \in Nat
  BY ByteSeq DEF FileInv, FileTypes
<1>7. FileTypes'
  <2>1. synced_names' \in Nat
    BY <1>2, NameTypes
  <2>2. durable' \in Nat /\ durable' <= Len(file')
    <3>1. durable' = Len(file) /\ Len(file') = Len(file)
      BY <1>2, Zenon
    <3> QED
      BY <1>6, <3>1
  <2>3. /\ UNCHANGED <<file, names, durable_names, buf_, writing, rest>>
        /\ UNCHANGED <<appended, opened, named>>
    BY <1>2, <1>4
  <2> QED
    BY <2>1, <2>2, <2>3 DEF FileInv, FileTypes
<1>8. Pending = <<>> /\ Pending' = <<>>
  BY <1>2, <1>5, EmptyBytes, Empty DEF Pending
<1>9. Whole' = Whole
  BY <1>2, <1>8 DEF Whole
<1>10. Ordered' /\ Complete'
  BY <1>2, <1>3, <1>4, <1>9, ContentStays
<1>11. Promises'
  <2>1. flushed \subseteq Elements(file) /\ synced \subseteq Elements(file)
    BY DEF FileInv, Promises, PromisesKept
  <2>2. flushed' \subseteq Elements(file) /\ synced' \subseteq Elements(file)
    <3>1. CASE error
      BY <1>2, <2>1, <3>1
    <3>2. CASE ~ error
      <4>1. file = Expected
        BY <3>2, <1>2, <1>8, FileIsExpected
      <4> QED
        BY <4>1, <3>2, <1>2
    <3> QED
      BY <3>1, <3>2
  <2>3. file' = file /\ SubSeq(file', 1, durable') = file
    BY <1>2, <1>6, SubSeqFull
  <2> QED
    BY <2>2, <2>3 DEF Promises, PromisesKept, Elements
<1>12. Names'
  <2>1. named <= durable_names
    BY <1>1, <1>2 DEF FileInv, Names
  <2>2. synced_names' <= durable_names
    BY <1>2, <2>1, NameTypes DEF FileInv, Names
  <2>3. op' # "Sync" /\ pc # "crashed"
    BY <1>2
  <2> QED
    BY <1>2, <1>4, <2>2, <2>3 DEF FileInv, Names
<1>13. Control'
  BY <1>2, <1>3 DEF Control, Resting
<1>14. Buffers'
  BY <1>2, <1>3, <1>5, NoBytesFit DEF Buffers
<1> QED
  BY <1>7, <1>10, <1>11, <1>12, <1>13, <1>14 DEF FileInv

LEMMA Associative ==
    ASSUME NEW a \in Seq(Nat), NEW b \in Seq(Nat), NEW c \in Seq(Nat)
    PROVE  (a \o b) \o c = a \o (b \o c)
BY ConcatAssociative

\* What the file has gained leaves the promises about it kept.
LEMMA PromisesGrow ==
    ASSUME FileInv, NEW s \in Seq(Nat), file' = file \o s, UNCHANGED <<durable, flushed, synced>>
    PROVE  Promises'
<1>1. file \in Seq(Nat) /\ durable \in Nat /\ durable <= Len(file)
  BY DEF FileInv, FileTypes
<1>2. Elements(file) \subseteq Elements(file')
  BY <1>1, ElementsOfConcat
<1>3. SubSeq(file', 1, durable) = SubSeq(file, 1, durable)
  BY <1>1, PrefixOfConcat
<1>4. /\ flushed \cup synced \subseteq Elements(file)
      /\ synced \subseteq Elements(SubSeq(file, 1, durable))
  BY DEF FileInv, Promises, PromisesKept
<1>5. flushed' \cup synced' \subseteq Elements(file')
  BY <1>2, <1>4
<1>6. synced' \subseteq Elements(SubSeq(file', 1, durable'))
  BY <1>3, <1>4
<1> QED
  BY <1>5, <1>6 DEF Promises, PromisesKept, Elements

LEMMA WriteKeeps == ASSUME FileInv, WriteUnbuffered PROVE FileInv'
<1>1. PICK n \in 1 .. Len(writing) :
        /\ file' = file \o SubSeq(writing, 1, n)
        /\ writing' = SubSeq(writing, n + 1, Len(writing))
  BY DEF WriteUnbuffered
<1>2. /\ pc \in {"flush", "direct"} /\ UNCHANGED <<durable, names, durable_names, buf_, op, pc, rest>>
      /\ UNCHANGED <<is_manifest_, is_open, history, error, promises>>
  BY DEF WriteUnbuffered
<1>3. UNCHANGED <<appended, opened, named, flushed, synced, synced_names>>
  BY <1>2 DEF history, promises
<1>4. is_open' /\ (~ error' => ~ error)
  BY <1>2, RunningIsOpen, Zenon DEF Resting
<1> DEFINE taken == SubSeq(writing, 1, n)
<1>5. /\ file \in Seq(Nat) /\ writing \in Seq(Nat) /\ rest \in Seq(Nat) /\ Len(file) \in Nat
      /\ durable \in Nat /\ durable <= Len(file)
  BY ByteSeq DEF FileInv, FileTypes
<1>6. taken \in Seq(Nat) /\ writing' \in Seq(Nat) /\ taken \o writing' = writing
  <2>1. n \in Nat /\ n <= Len(writing)
    BY <1>5, ByteSeq
  <2> QED
    BY <1>1, <1>5, <2>1, TwoParts
<1> HIDE DEF taken
<1>7. file' = file \o taken
  BY <1>1 DEF taken
<1>8. FileTypes'
  <2>1. file' \in Seq(Nat) /\ Len(file') = Len(file) + Len(taken) /\ Len(taken) \in Nat
    BY <1>5, <1>6, <1>7, ConcatBytes, ByteSeq
  <2>2. durable' \in Nat /\ durable' <= Len(file')
    BY <1>2, <1>5, <2>1
  <2> QED
    BY <1>2, <1>3, <1>6, <2>1, <2>2 DEF FileInv, FileTypes
<1>9. Whole' = Whole
  <2>1. Whole = file \o (writing \o rest) /\ Whole' = file' \o (writing' \o rest)
    BY <1>2 DEF Whole, Pending
  <2>2. (file \o taken) \o (writing' \o rest) = file \o ((taken \o writing') \o rest)
    <3>1. file \in Seq(Nat) /\ taken \in Seq(Nat) /\ writing' \in Seq(Nat) /\ rest \in Seq(Nat)
      BY <1>5, <1>6
    <3>2. writing' \o rest \in Seq(Nat)
      BY <3>1, ConcatBytes
    <3>3. (file \o taken) \o (writing' \o rest) = file \o (taken \o (writing' \o rest))
      BY <3>1, <3>2, Associative
    <3>4. taken \o (writing' \o rest) = (taken \o writing') \o rest
      BY <3>1, Associative
    <3> QED
      BY <3>3, <3>4
  <2> QED
    BY <1>6, <1>7, <2>1, <2>2
<1>10. Ordered' /\ Complete'
  BY <1>2, <1>3, <1>4, <1>9, ContentStays
<1>11. Promises'
  BY <1>2, <1>3, <1>6, <1>7, PromisesGrow
<1>12. Names'
  <2>1. op' = "Sync" /\ pc' \in {"flush", "sync file"} => named <= durable_names
    BY <1>2, Zenon DEF FileInv, Names
  <2> QED
    BY <1>2, <1>3, <2>1, NamesStay
<1>13. Control'
  BY <1>2, <1>4 DEF FileInv, Control, Resting
<1>14. Buffers'
  BY <1>2, <1>4 DEF FileInv, Buffers
<1> QED
  BY <1>8, <1>10, <1>11, <1>12, <1>13, <1>14 DEF FileInv

LEMMA WriteFailsKeeps == ASSUME FileInv, WriteFails PROVE FileInv'
<1>1. /\ pc \in {"flush", "direct"} /\ writing' = <<>> /\ rest' = <<>> /\ buf_' = <<>>
      /\ \/ op \in {"Close", "Destroy"} /\ pc' = "close" /\ op' = op
         \/ op \notin {"Close", "Destroy"} /\ pc' = "idle" /\ op' = "none"
      /\ UNCHANGED <<kernel, history, promises>>
      /\ UNCHANGED <<is_manifest_, is_open>>
  BY DEF WriteFails, Go, Return
<1>2. UNCHANGED <<file, durable, names, durable_names, appended, opened, named, flushed, synced, synced_names>>
  BY <1>1 DEF kernel, history, promises
<1>3. is_open' /\ error'
  <2>1. is_open
    BY <1>1, RunningIsOpen DEF Resting
  <2>2. error' = TRUE
    BY Zenon DEF WriteFails, Fail
  <2> QED
    BY <1>1, <2>1, <2>2, Zenon
<1>4. file \in Seq(Nat) /\ Len(file) \in Nat
  BY ByteSeq DEF FileInv, FileTypes
<1>5. FileTypes'
  BY <1>1, <1>2, EmptyBytes DEF FileInv, FileTypes
<1>6. Whole' = SubSeq(file, 1, Len(file))
  <2>1. Pending' = <<>>
    BY <1>1, EmptyBytes, Empty DEF Pending
  <2> QED
    BY <1>2, <1>4, <2>1, Empty, SubSeqFull DEF Whole
<1>7. Ordered' /\ Complete'
  BY <1>2, <1>3, <1>4, <1>6, ContentLost
<1>8. Promises'
  BY <1>2, PromisesStay
<1>9. Names'
  BY <1>1, <1>2, NamesStay
<1>10. Control'
  BY <1>1, <1>3 DEF Control, Resting
<1>11. Buffers'
  BY <1>1, <1>3, NoBytesFit DEF Buffers
<1> QED
  BY <1>5, <1>7, <1>8, <1>9, <1>10, <1>11 DEF FileInv

LEMMA CreateFileKeeps == ASSUME FileInv, CreateFile PROVE FileInv'
<1>1. /\ names' = names + 1
      /\ UNCHANGED <<file, durable, durable_names, buf_, call, history, promises>>
      /\ UNCHANGED <<is_manifest_, is_open, error>>
  BY DEF CreateFile
<1>2. /\ UNCHANGED <<op, pc, writing, rest, appended, opened, named, flushed, synced, synced_names>>
  BY <1>1 DEF call, history, promises
<1>3. names' \in Nat /\ names <= names'
  BY <1>1, NameTypes
<1>4. FileTypes'
  BY <1>1, <1>2, <1>3 DEF FileInv, FileTypes
<1>5. Whole' = Whole
  BY <1>1, <1>2 DEF Whole, Pending
<1>6. Expected' = Expected
  BY <1>1, <1>2 DEF Expected
<1>7. Ordered' /\ Complete'
  BY <1>1, <1>2, <1>5, <1>6, Zenon DEF FileInv, Ordered, Complete
<1>8. Promises'
  BY <1>1, <1>2, PromisesStay
<1>9. Names'
  <2>1. durable_names <= names' /\ (pc # "crashed" => named <= names')
    BY <1>3, NameTypes, NameOrder
  <2> QED
    BY <1>1, <1>2, <2>1, Zenon DEF FileInv, Names
<1>10. Control'
  BY <1>1, <1>2, Zenon DEF FileInv, Control
<1>11. Buffers'
  BY <1>1, <1>2, Zenon DEF FileInv, Buffers
<1> QED
  BY <1>4, <1>7, <1>8, <1>9, <1>10, <1>11 DEF FileInv

LEMMA CrashKeeps == ASSUME FileInv, Crash PROVE FileInv'
<1>1. /\ op' = "none" /\ pc' = "crashed" /\ writing' = <<>> /\ rest' = <<>> /\ buf_' = <<>>
      /\ UNCHANGED <<is_manifest_, history, synced, synced_names>>
  BY DEF Crash
<1>2. ~ is_open'
  BY Zenon DEF Crash
<1>3. UNCHANGED <<appended, opened, named>>
  BY <1>1 DEF history
<1>4. PICK n \in Nat, m \in Nat :
        /\ durable <= n /\ n <= Len(file) /\ file' = SubSeq(file, 1, n) /\ durable' \in {n, durable}
        /\ synced_names <= durable_names' /\ durable_names' <= m /\ durable_names' \in Nat /\ names' = m
        /\ \/ flushed' = flushed /\ file' = file
           \/ flushed' = synced
  <2>1. file \in Seq(Nat) /\ Len(file) \in Nat /\ durable \in Nat /\ durable <= Len(file)
    BY ByteSeq DEF FileInv, FileTypes
  <2>2. CASE UNCHANGED <<kernel, flushed>>
    <3>1. UNCHANGED <<file, durable, names, durable_names, flushed>>
      BY <2>2 DEF kernel
    <3>2. SubSeq(file, 1, Len(file)) = file
      BY <2>1, SubSeqFull
    <3>3. /\ file' = SubSeq(file, 1, Len(file)) /\ durable' = durable
          /\ Len(file) <= Len(file)
      BY <2>1, <3>1, <3>2
    <3>4. /\ synced_names <= durable_names' /\ durable_names' <= names
          /\ durable_names' \in Nat /\ names' = names /\ names \in Nat
      BY <3>1, NameTypes, NameOrder
    <3> QED
      BY <2>1, <3>1, <3>3, <3>4
  <2>3. CASE \E n \in durable .. Len(file), m \in durable_names .. names :
               /\ file' = SubSeq(file, 1, n) /\ durable' = n
               /\ names' = m /\ durable_names' = m
               /\ flushed' = synced
    BY <2>1, <2>3, NameTypes, NameOrder
  <2> QED
    BY <2>2, <2>3 DEF Crash
<1>5. file \in Seq(Nat) /\ Len(file) \in Nat /\ durable \in Nat /\ durable <= Len(file)
  BY ByteSeq DEF FileInv, FileTypes
<1>6. file' \in Seq(Nat) /\ Len(file') = n
  BY <1>4, <1>5, TwoParts
<1>7. FileTypes'
  <2>1. durable' \in Nat /\ durable' <= Len(file')
    BY <1>4, <1>5, <1>6
  <2> QED
    BY <1>1, <1>3, <1>4, <1>6, <2>1, EmptyBytes DEF FileInv, FileTypes
<1>8. Whole' = SubSeq(file, 1, n)
  <2>1. Pending' = <<>>
    BY <1>1, EmptyBytes, Empty DEF Pending
  <2> QED
    BY <1>4, <1>6, <2>1, Empty DEF Whole
<1>9. Ordered' /\ Complete'
  BY <1>1, <1>3, <1>4, <1>8, ContentLost
<1>10. Promises'
  <2>1. flushed \subseteq Elements(file) /\ synced \subseteq Elements(SubSeq(file, 1, durable))
    BY DEF FileInv, Promises, PromisesKept
  <2>2. Elements(SubSeq(file, 1, durable)) \subseteq Elements(file')
    BY <1>4, <1>5, ElementsOfPrefix
  <2>3. flushed' \subseteq Elements(file') /\ synced' \subseteq Elements(file')
    BY <1>1, <1>4, <2>1, <2>2
  <2>4. synced' \subseteq Elements(SubSeq(file', 1, durable'))
    <3>1. CASE durable' = n
      BY <1>6, <2>3, <3>1, SubSeqFull
    <3>2. CASE durable' = durable
      <4>1. file = SubSeq(file, 1, n) \o SubSeq(file, n + 1, Len(file))
            /\ SubSeq(file, n + 1, Len(file)) \in Seq(Nat)
        BY <1>4, <1>5, TwoParts
      <4>2. SubSeq(SubSeq(file, 1, n), 1, durable)
              = SubSeq(SubSeq(file, 1, n) \o SubSeq(file, n + 1, Len(file)), 1, durable)
        BY <1>4, <1>5, <1>6, <4>1, PrefixOfConcat
      <4>3. SubSeq(file', 1, durable') = SubSeq(file, 1, durable)
        BY <1>4, <3>2, <4>1, <4>2
      <4> QED
        BY <1>1, <2>1, <4>3
    <3> QED
      BY <1>4, <3>1, <3>2
  <2> QED
    BY <2>3, <2>4 DEF Promises, PromisesKept, Elements
<1>11. Names'
  <2>1. ~ is_manifest_' => named' = 0
    BY <1>1, <1>3, Zenon DEF FileInv, Names
  <2>2. synced_names' <= durable_names' /\ durable_names' <= names'
    BY <1>1, <1>4
  <2> QED
    BY <1>1, <2>1, <2>2 DEF Names
<1>12. Control'
  BY <1>1, <1>2 DEF Control, Resting
<1>13. Buffers'
  BY <1>1, NoBytesFit DEF Buffers
<1> QED
  BY <1>7, <1>9, <1>10, <1>11, <1>12, <1>13 DEF FileInv

LEMMA OpenKeeps == ASSUME FileInv, NewAppendableFile PROVE FileInv'
<1>1. /\ pc \in {"destroyed", "crashed"} /\ pc' = "idle" /\ op' = op
      /\ opened' = [file |-> file, appended |-> appended] /\ named' = 0
      /\ UNCHANGED <<kernel, promises>>
      /\ UNCHANGED <<is_manifest_, buf_, writing, rest, appended>>
  BY DEF NewAppendableFile
<1>2. is_open'
  BY Zenon DEF NewAppendableFile
<1>3. UNCHANGED <<file, durable, names, durable_names, flushed, synced, synced_names>>
  BY <1>1 DEF kernel, promises
<1>4. op = "none"
  BY <1>1 DEF FileInv, Control, Resting
<1>5. buf_ = <<>> /\ writing = <<>> /\ rest = <<>>
  <2>1. ~ is_open
    BY <1>1, Zenon DEF FileInv, Control
  <2> QED
    BY <1>1, <2>1 DEF FileInv, Buffers
<1>6. file \in Seq(Nat) /\ appended \in Nat
  BY DEF FileInv, FileTypes
<1>7. FileTypes'
  BY <1>1, <1>3, <1>6 DEF FileInv, FileTypes
<1>8. Pending = <<>> /\ Pending' = <<>>
  BY <1>1, <1>5, EmptyBytes, Empty DEF Pending
<1>9. Whole' = Whole /\ Whole' = file
  BY <1>3, <1>6, <1>8, Empty DEF Whole
<1>10. Ordered'
  BY <1>1, <1>9 DEF FileInv, Ordered
<1>11. Complete'
  <2>1. opened'.file = file /\ opened'.appended = appended /\ appended' = appended
    BY <1>1
  <2>2. Expected' = file \o Bytes(appended, appended)
    BY <2>1 DEF Expected
  <2>3. Expected' = file
    BY <1>6, <2>2, BytesNone, Empty
  <2> QED
    BY <1>9, <2>3 DEF Complete
<1>12. Promises'
  BY <1>3, PromisesStay
<1>13. Names'
  BY <1>1, <1>3, <1>4, NameTypes, NameOrder DEF Names
<1>14. Control'
  BY <1>1, <1>2, <1>4 DEF Control, Resting
<1>15. Buffers'
  BY <1>1, <1>2, <1>5, NoBytesFit DEF Buffers
<1> QED
  BY <1>7, <1>10, <1>11, <1>12, <1>13, <1>14, <1>15 DEF FileInv

LEMMA AppendKeeps == ASSUME FileInv, NEW k \in Sizes, Append_(k) PROVE FileInv'
<1> DEFINE data == Bytes(appended, appended + k)
           copied == Smaller(k, kWritableFileBufferSize - Len(buf_))
<1>1. /\ appended' = appended + k
      /\ buf_' = buf_ \o SubSeq(data, 1, copied)
      /\ UNCHANGED <<kernel, is_manifest_, opened, promises>>
      /\ UNCHANGED <<is_open, error>>
      /\ pc = "idle"
      /\ \/ copied = k /\ UNCHANGED call
         \/ copied # k /\ op' = "Append" /\ pc' = "flush" /\ writing' = buf_'
               /\ rest' = SubSeq(data, copied + 1, k)
  BY DEF Append_, Start, Idle
<1>2. is_open
  BY Zenon DEF Append_, Start, Idle
<1>3. is_open' /\ (~ error' => ~ error)
  BY <1>1, <1>2, Zenon
<1>4. UNCHANGED <<file, durable, names, durable_names, flushed, synced, synced_names>>
  BY <1>1 DEF kernel, promises
<1>5. writing = <<>> /\ rest = <<>> /\ op = "none" /\ Len(buf_) <= kWritableFileBufferSize
  BY <1>1 DEF FileInv, Control, Buffers, Resting
<1>6. /\ file \in Seq(Nat) /\ buf_ \in Seq(Nat) /\ Len(buf_) \in Nat /\ appended \in Nat
      /\ opened.file \in Seq(Nat) /\ opened.appended \in Nat /\ opened.appended <= appended
  BY ByteSeq DEF FileInv, FileTypes
<1>7. k \in Nat /\ kWritableFileBufferSize \in Nat
  BY FileAssumption
<1>8. copied \in Nat /\ copied <= k /\ Len(buf_) + copied <= kWritableFileBufferSize
  BY <1>5, <1>6, <1>7 DEF Smaller
<1>9. data \in Seq(Nat) /\ Len(data) = k
  <2>1. appended + k \in Nat /\ appended <= appended + k /\ (appended + k) - appended = k
    BY <1>6, <1>7
  <2> QED
    BY <1>6, <2>1, BytesType
<1> HIDE DEF data, copied
<1>10. /\ SubSeq(data, 1, copied) \in Seq(Nat) /\ Len(SubSeq(data, 1, copied)) = copied
       /\ SubSeq(data, copied + 1, k) \in Seq(Nat)
       /\ SubSeq(data, 1, copied) \o SubSeq(data, copied + 1, k) = data
  <2>1. copied <= Len(data)
    BY <1>8, <1>9
  <2>2. /\ SubSeq(data, 1, copied) \in Seq(Nat) /\ Len(SubSeq(data, 1, copied)) = copied
        /\ SubSeq(data, copied + 1, Len(data)) \in Seq(Nat)
        /\ SubSeq(data, 1, copied) \o SubSeq(data, copied + 1, Len(data)) = data
    BY <1>8, <1>9, <2>1, TwoParts
  <2> QED
    BY <1>9, <2>2
<1>11. buf_' \in Seq(Nat) /\ Len(buf_') = Len(buf_) + copied
  BY <1>1, <1>6, <1>10, ConcatBytes
<1>12. writing' \in Seq(Nat) /\ rest' \in Seq(Nat) /\ Pending' = buf_ \o data
  <2>1. CASE copied = k
    <3>1. UNCHANGED <<op, pc, writing, rest>>
      BY <1>1, <2>1 DEF call
    <3>2. SubSeq(data, 1, copied) = data
      BY <1>9, <2>1, SubSeqFull
    <3>3. buf_' = buf_ \o data
      BY <1>1, <3>2
    <3>4. Pending' = buf_' \o <<>>
      BY <1>1, <1>5, <3>1 DEF Pending
    <3> QED
      BY <1>5, <1>11, <3>1, <3>3, <3>4, EmptyBytes, Empty
  <2>2. CASE copied # k
    <3>1. pc' = "flush" /\ writing' = buf_' /\ rest' = SubSeq(data, copied + 1, k)
      BY <1>1, <2>2
    <3>2. Pending' = (buf_ \o SubSeq(data, 1, copied)) \o SubSeq(data, copied + 1, k)
      BY <1>1, <3>1 DEF Pending
    <3>3. (buf_ \o SubSeq(data, 1, copied)) \o SubSeq(data, copied + 1, k)
            = buf_ \o (SubSeq(data, 1, copied) \o SubSeq(data, copied + 1, k))
      BY <1>6, <1>10, Associative
    <3> QED
      BY <1>10, <1>11, <3>1, <3>2, <3>3
  <2> QED
    BY <2>1, <2>2
<1>13. FileTypes'
  <2>1. appended' \in Nat /\ opened'.appended <= appended' /\ opened' = opened
    BY <1>1, <1>6, <1>7
  <2>2. named' \in Nat
    <3>1. named' = names \/ named' = named
      BY DEF Append_
    <3> QED
      BY <3>1, NameTypes
  <2> QED
    BY <1>4, <1>11, <1>12, <2>1, <2>2 DEF FileInv, FileTypes
<1>14. Whole' = Whole \o data
  <2>1. Pending = buf_
    BY <1>1, <1>5, <1>6, Empty DEF Pending
  <2>2. Whole' = file \o (buf_ \o data)
    BY <1>4, <1>12 DEF Whole
  <2>3. (file \o buf_) \o data = file \o (buf_ \o data)
    BY <1>6, <1>9, Associative
  <2> QED
    BY <2>1, <2>2, <2>3 DEF Whole
<1>15. Ordered'
  <2>1. Whole \in Seq(Nat) /\ Increasing(Whole) /\ UpTo(Whole, appended)
    BY WholeType DEF FileInv, Ordered
  <2>2. appended + k \in Nat /\ appended <= appended + k
    BY <1>6, <1>7
  <2>3. Increasing(Whole \o data) /\ UpTo(Whole \o data, appended + k)
    BY <1>6, <2>1, <2>2, OrderOfAppend DEF data
  <2> QED
    BY <1>1, <1>14, <2>3 DEF Ordered
<1>16. Complete'
  <2>1. Expected' = Expected \o data
    <3> DEFINE first == Bytes(opened.appended, appended)
    <3>1. appended + k \in Nat /\ appended <= appended + k
      BY <1>6, <1>7
    <3>2. Bytes(opened.appended, appended + k) = first \o data
      BY <1>6, <3>1, BytesConcat DEF data
    <3>3. first \in Seq(Nat)
      BY <1>6, BytesType
    <3> HIDE DEF first
    <3>4. Expected' = opened.file \o (first \o data)
      BY <1>1, <3>2 DEF Expected
    <3>5. (opened.file \o first) \o data = opened.file \o (first \o data)
      BY <1>6, <1>9, <3>3, Associative
    <3>6. Expected = opened.file \o first
      BY DEF Expected, first
    <3> QED
      BY <3>4, <3>5, <3>6
  <2>2. ~ error /\ pc # "crashed" => Whole = Expected
    BY DEF FileInv, Complete
  <2> QED
    BY <1>1, <1>3, <1>14, <2>1, <2>2 DEF Complete
<1>17. Promises'
  BY <1>4, PromisesStay
<1>18. Names'
  <2>1. named <= names /\ names <= names
    BY <1>1, NameTypes, NameOrder
  <2>2. named' = IF is_manifest_ THEN names ELSE named
    BY DEF Append_
  <2>3. named' <= names
    BY <2>1, <2>2
  <2>4. ~ is_manifest_' => named' = 0
    <3>1. ~ is_manifest_ => named = 0
      BY Zenon DEF FileInv, Names
    <3>2. is_manifest_' = is_manifest_
      BY <1>1
    <3> QED
      BY <2>2, <3>1, <3>2, Zenon
  <2>5. op' # "Sync"
    BY <1>1, <1>5 DEF call
  <2> QED
    BY <1>4, <2>3, <2>4, <2>5, NameOrder DEF Names
<1>19. Control'
  BY <1>1, <1>3, <1>5 DEF Control, Resting, call
<1>20. Buffers'
  <2>1. Len(buf_') <= kWritableFileBufferSize
    BY <1>8, <1>11
  <2> QED
    BY <1>1, <1>3, <1>5, <2>1 DEF Buffers, call
<1> QED
  BY <1>13, <1>15, <1>16, <1>17, <1>18, <1>19, <1>20 DEF FileInv

LEMMA FileStutters == ASSUME FileInv, UNCHANGED vars PROVE FileInv'
<1>1. /\ UNCHANGED <<file, durable, names, durable_names, buf_, op, pc, writing, rest>>
      /\ UNCHANGED <<appended, opened, named, flushed, synced, synced_names>>
      /\ UNCHANGED <<is_manifest_, is_open, error>>
  BY DEF vars, kernel, call, history, promises
<1>2. FileTypes'
  BY <1>1, Zenon DEF FileInv, FileTypes
<1>3. Control' /\ Buffers'
  BY <1>1, Zenon DEF FileInv, Control, Buffers
<1>4. Whole' = Whole /\ Expected' = Expected
  BY <1>1, Zenon DEF Whole, Pending, Expected
<1>5. Ordered' /\ Complete'
  BY <1>1, <1>4, Zenon DEF FileInv, Ordered, Complete
<1>6. Promises'
  BY <1>1, PromisesStay
<1>7. Names'
  BY <1>1, Zenon DEF FileInv, Names
<1> QED
  BY <1>2, <1>3, <1>5, <1>6, <1>7 DEF FileInv

LEMMA FileStep == FileInv /\ [Next]_vars => FileInv'
<1> SUFFICES ASSUME FileInv, [Next]_vars PROVE FileInv'
  OBVIOUS
<1>1. CASE \E n \in Sizes : Append_(n)
  BY <1>1, AppendKeeps
<1>2. CASE AppendRest
  BY <1>2, AppendRestKeeps
<1>3. CASE Flush
  BY <1>3, FlushKeeps
<1>4. CASE FlushReturns
  BY <1>4, FlushReturnsKeeps
<1>5. CASE Sync
  BY <1>5, SyncKeeps
<1>6. CASE SyncDirIfManifest
  BY <1>6, SyncDirKeeps
<1>7. CASE SyncFlushed \/ CloseFlushed
  BY <1>7, FlushedKeeps
<1>8. CASE SyncFd
  BY <1>8, SyncFdKeeps
<1>9. CASE AppendReturns \/ SyncFails \/ CloseFd \/ DestroyClosed
  BY <1>9, ReturnKeeps
<1>10. CASE Close("Close") \/ Close("Destroy")
  BY <1>10, CloseKeeps
<1>11. CASE WriteUnbuffered
  BY <1>11, WriteKeeps
<1>12. CASE WriteFails
  BY <1>12, WriteFailsKeeps
<1>13. CASE CreateFile
  BY <1>13, CreateFileKeeps
<1>14. CASE Crash
  BY <1>14, CrashKeeps
<1>15. CASE NewAppendableFile
  BY <1>15, OpenKeeps
<1>16. CASE End \/ UNCHANGED vars
  BY <1>16, FileStutters DEF End
<1> QED
  BY <1>1, <1>2, <1>3, <1>4, <1>5, <1>6, <1>7, <1>8, <1>9, <1>10, <1>11, <1>12, <1>13, <1>14, <1>15, <1>16
     DEF Next

LEMMA FileInit == Init => FileInv
<1> SUFFICES ASSUME Init PROVE FileInv
  OBVIOUS
<1>1. /\ file = <<>> /\ durable = 0 /\ names = 0 /\ durable_names = 0 /\ buf_ = <<>>
      /\ op = "none" /\ pc = "idle" /\ writing = <<>> /\ rest = <<>>
      /\ appended = 0 /\ opened = [file |-> <<>>, appended |-> 0]
      /\ flushed = {} /\ synced = {} /\ named = 0 /\ synced_names = 0
  BY DEF Init
<1>2. is_open
  BY Zenon DEF Init
<1>3. FileTypes
  BY <1>1, EmptyBytes DEF FileTypes
<1>4. Control /\ Buffers
  BY <1>1, <1>2, NoBytesFit DEF Control, Buffers, Resting
<1>5. Whole = <<>>
  BY <1>1, EmptyBytes, Empty DEF Whole, Pending
<1>6. Ordered
  BY <1>5, EmptyBytes DEF Ordered, Increasing, UpTo
<1>7. Complete
  BY <1>1, <1>5, EmptyBytes, Empty, BytesNone DEF Complete, Expected
<1>8. Promises
  BY <1>1 DEF Promises, PromisesKept
<1>9. Names
  BY <1>1 DEF Names
<1> QED
  BY <1>3, <1>4, <1>6, <1>7, <1>8, <1>9 DEF FileInv

LEMMA FileInvariant == Spec => []FileInv
BY FileInit, FileStep, PTL DEF Spec

(***************************************************************************)
(* What the invariant says.                                                *)
(***************************************************************************)
LEMMA FileInvInOrder == FileInv => InOrder
<1> SUFFICES ASSUME FileInv PROVE InOrder
  OBVIOUS
<1>1. Whole \in Seq(Nat) /\ Len(Whole) \in Nat
  BY WholeType, ByteSeq DEF FileInv
<1>2. Increasing(Whole)
  BY DEF FileInv, Ordered
<1>3. \A j \in 1 .. Len(Whole) - 1 : Whole[j] < Whole[j + 1]
  BY <1>1, <1>2 DEF Increasing
<1> QED
  BY <1>3 DEF InOrder, Whole

LEMMA FileInvNothingLost == FileInv => NothingLost
<1> SUFFICES ASSUME FileInv, ~ error, pc # "crashed"
             PROVE  file \o Pending = Expected /\ (~ is_open => file = Expected)
  BY DEF NothingLost
<1>1. file \o Pending = Expected
  BY DEF FileInv, Complete, Whole
<1>2. ASSUME ~ is_open PROVE file = Expected
  <2>1. pc \in Resting /\ buf_ = <<>>
    BY <1>2, Zenon DEF FileInv, Control, Buffers
  <2>2. rest = <<>>
    BY <2>1 DEF FileInv, Buffers, Resting
  <2>3. Pending = <<>>
    BY <2>1, <2>2, EmptyBytes, Empty DEF Pending, Resting
  <2> QED
    BY <2>3, FileIsExpected
<1> QED
  BY <1>1, <1>2

LEMMA FileInvPromises == FileInv => PromisesKept /\ NamedFilesExist
<1>1. FileInv => PromisesKept
  BY DEF FileInv, Promises
<1>2. FileInv => NamedFilesExist
  BY NameOrder DEF NamedFilesExist
<1> QED
  BY <1>1, <1>2

(***************************************************************************)
(* The helpers take the steps of the file.                                 *)
(***************************************************************************)
\* The steps of the methods, as Running has them.
MethodStep ==
    \/ AppendRest \/ AppendReturns \/ WriteUnbuffered \/ WriteFails
    \/ SyncDirIfManifest \/ SyncFlushed \/ SyncFd \/ SyncFails
    \/ CloseFlushed \/ CloseFd

LEMMA HelpersStepFile == [HelpersNext]_<<vars, helpers>> => [Next]_vars
<1> SUFFICES ASSUME [HelpersNext]_<<vars, helpers>> PROVE [Next]_vars
  OBVIOUS
<1>1. CASE caller = "others" /\ Next /\ UNCHANGED helpers
  BY <1>1
<1>2. CASE DoAppend \/ DoSync \/ DoClose \/ DoDelete
  BY <1>2 DEF DoAppend, DoSync, DoClose, DoDelete, Next
<1>3. CASE DoReturn \/ DoRemoveFile \/ HelpersDone \/ UNCHANGED <<vars, helpers>>
  BY <1>3 DEF DoReturn, DoRemoveFile, HelpersDone
<1>4. CASE Running
  BY <1>4 DEF Running, Next
<1>5. CASE HelperCrash
  BY <1>5 DEF HelperCrash, Next
<1>6. CASE NewSequentialFile \/ Read \/ ReadFails
  BY <1>6 DEF NewSequentialFile, Read, ReadFails, Reads
<1> QED
  BY <1>1, <1>2, <1>3, <1>4, <1>5, <1>6 DEF HelpersNext

\* DoWriteStringToFile and ReadFileToString use the file as any caller of its methods may:
\* what holds of PosixWritableFile holds of the files they write.
THEOREM HelpersImplementFile == HelpersSpec => Spec
<1>1. HelpersInit => Init
  BY DEF HelpersInit
<1> QED
  BY <1>1, HelpersStepFile, PTL DEF HelpersSpec, Spec

(***************************************************************************)
(* Steps of a method.                                                      *)
(***************************************************************************)
LEMMA NothingPending ==
    ASSUME FileTypes, Pending = <<>>
    PROVE  /\ rest = <<>>
           /\ pc \in {"flush", "direct"} => writing = <<>>
           /\ pc \notin {"flush", "direct"} => buf_ = <<>>
<1> DEFINE first == IF pc \in {"flush", "direct"} THEN writing ELSE buf_
<1>1. first \in Seq(Nat) /\ rest \in Seq(Nat) /\ first \o rest = <<>>
  BY DEF FileTypes, Pending
<1>2. first = <<>> /\ rest = <<>>
  <2> HIDE DEF first
  <2> QED
    BY <1>1, ConcatEqualIffEmpty
<1> QED
  BY <1>2

\* A step of a method leaves what was whole and durable so, unless it fails.
LEMMA MethodKeepsSettled ==
    ASSUME FileInv, MethodStep, Pending = <<>>, durable = Len(file), ~ error'
    PROVE  durable' = Len(file') /\ Pending' = <<>>
<1>1. /\ rest = <<>> /\ (pc \in {"flush", "direct"} => writing = <<>>)
      /\ (pc \notin {"flush", "direct"} => buf_ = <<>>)
  BY NothingPending DEF FileInv
<1>2. ~ WriteUnbuffered
  BY <1>1 DEF WriteUnbuffered
<1>3. ~ WriteFails /\ ~ SyncFails
  BY Zenon DEF WriteFails, SyncFails, Fail
<1>4. pc \in {"direct", "sync file", "close"} => buf_ = <<>>
  BY Zenon DEF FileInv, Buffers
<1>5. file' = file /\ (durable' = durable \/ durable' = Len(file))
  BY <1>2, <1>3 DEF MethodStep, AppendRest, AppendReturns, SyncDirIfManifest, SyncFlushed, SyncFd,
                    CloseFlushed, CloseFd, kernel
<1>6. rest' = <<>> /\ (IF pc' \in {"flush", "direct"} THEN writing' ELSE buf_') = <<>>
  <2>1. CASE AppendRest
    BY <1>1, <2>1 DEF AppendRest, FlushedIn, Return, Go
  <2>2. CASE AppendReturns
    BY <1>1, <1>4, <2>2 DEF AppendReturns, Return
  <2>3. CASE SyncDirIfManifest
    BY <1>1, <2>3 DEF SyncDirIfManifest, Go, FlushBuffer
  <2>4. CASE SyncFlushed \/ CloseFlushed
    BY <1>1, <2>4 DEF SyncFlushed, CloseFlushed, Go
  <2>5. CASE SyncFd \/ CloseFd
    BY <1>1, <1>4, <2>5 DEF SyncFd, CloseFd, Return
  <2> QED
    BY <1>2, <1>3, <2>1, <2>2, <2>3, <2>4, <2>5 DEF MethodStep
<1>7. Pending' = <<>>
  BY <1>6, EmptyBytes, Empty DEF Pending
<1> QED
  BY <1>5, <1>7

LEMMA MethodControl ==
    ASSUME FileInv, MethodStep
    PROVE  /\ pc \notin Resting /\ pc' # "crashed"
           /\ ~ error' => ~ error
           /\ op = "Sync" => op' = op \/ pc' = "idle"
           /\ \E s \in Seq(Nat) : file' = file \o s
<1>1. pc \notin Resting /\ pc' # "crashed" /\ (op = "Sync" => op' = op \/ pc' = "idle")
  BY DEF MethodStep, AppendRest, AppendReturns, WriteUnbuffered, WriteFails, SyncDirIfManifest,
         SyncFlushed, SyncFd, SyncFails, CloseFlushed, CloseFd, FlushedIn, Go, Return, Resting
<1>2. ~ error' => ~ error
  BY Zenon DEF MethodStep, AppendRest, AppendReturns, WriteUnbuffered, WriteFails, SyncDirIfManifest,
         SyncFlushed, SyncFd, SyncFails, CloseFlushed, CloseFd, Fail
<1>3. \E s \in Seq(Nat) : file' = file \o s
  <2>1. file \in Seq(Nat) /\ writing \in Seq(Nat) /\ Len(writing) \in Nat
    BY ByteSeq DEF FileInv, FileTypes
  <2>2. CASE WriteUnbuffered
    <3>1. PICK n \in 1 .. Len(writing) : file' = file \o SubSeq(writing, 1, n)
      BY <2>2 DEF WriteUnbuffered
    <3>2. n \in Nat /\ n <= Len(writing)
      BY <2>1
    <3>3. SubSeq(writing, 1, n) \in Seq(Nat)
      BY <2>1, <3>2, TwoParts
    <3> QED
      BY <3>1, <3>3
  <2>3. CASE ~ WriteUnbuffered
    <3>1. file' = file
      BY <2>3 DEF MethodStep, AppendRest, AppendReturns, WriteFails, SyncDirIfManifest, SyncFlushed,
                  SyncFd, SyncFails, CloseFlushed, CloseFd, kernel
    <3>2. file = file \o <<>> /\ <<>> \in Seq(Nat)
      BY <2>1, Empty, EmptyBytes
    <3> QED
      BY <3>1, <3>2
  <2> QED
    BY <2>2, <2>3
<1> QED
  BY <1>1, <1>2, <1>3

\* A Sync that comes to its end without an error has made everything durable.
LEMMA SyncSettles ==
    ASSUME FileInv, MethodStep, op = "Sync", pc' = "idle", ~ error'
    PROVE  durable' = Len(file') /\ Pending' = <<>>
<1>1. pc \in {"flush", "sync directory", "sync file"}
  BY DEF FileInv, Control, Resting, MethodStep, AppendRest, AppendReturns, WriteUnbuffered, WriteFails,
         SyncDirIfManifest, SyncFlushed, SyncFd, SyncFails, CloseFlushed, CloseFd, FlushedIn
<1>2. ~ WriteFails /\ ~ SyncFails
  BY Zenon DEF WriteFails, SyncFails, Fail
<1>3. SyncFd
  BY <1>1, <1>2 DEF MethodStep, AppendRest, AppendReturns, WriteUnbuffered, SyncDirIfManifest,
         SyncFlushed, CloseFlushed, CloseFd, FlushedIn, Go
<1>4. buf_ = <<>> /\ rest = <<>>
  BY <1>3 DEF SyncFd, FileInv, Buffers
<1>5. durable' = Len(file') /\ buf_' = <<>> /\ rest' = <<>>
  BY <1>3, <1>4 DEF SyncFd
<1> QED
  BY <1>5, EmptyBytes, Empty DEF Pending

(***************************************************************************)
(* ReadFileToString.                                                       *)
(***************************************************************************)
LEMMA PrefixNone == ASSUME NEW s PROVE SubSeq(s, 1, 0) = <<>>
BY SubSeqEmpty

LEMMA NotReadingKeeps ==
    ASSUME FileTypes', reader' = NotReading
    PROVE  ReaderInv'
<1>1. /\ reader'.state = "none" /\ reader'.data = <<>> /\ reader'.length = 0
      /\ reader' \in [state : {"none", "reading", "ok", "failed"}, data : Seq(Nat), length : Nat]
  BY EmptyBytes DEF NotReading
<1>2. Len(file') \in Nat
  BY ByteSeq DEF FileTypes
<1>3. Len(reader'.data) = 0
  BY <1>1, EmptyBytes
<1>4. reader'.data = SubSeq(file', 1, Len(reader'.data))
  BY <1>1, <1>3, PrefixNone
<1> QED
  BY <1>1, <1>2, <1>3, <1>4 DEF ReaderInv

\* The file is as it was or longer.
LEMMA ReaderStays ==
    ASSUME FileInv, ReaderInv, reader' = reader, caller' = "others" => caller = "others",
           NEW s \in Seq(Nat), file' = file \o s
    PROVE  ReaderInv'
<1>1. file \in Seq(Nat) /\ Len(file) \in Nat
  BY ByteSeq DEF FileInv, FileTypes
<1>2. Len(file') = Len(file) + Len(s) /\ Len(s) \in Nat
  BY <1>1, ConcatBytes, ByteSeq
<1>3. /\ Len(reader.data) \in Nat /\ reader.length \in Nat /\ Len(reader.data) <= Len(file)
      /\ reader.length <= Len(file) /\ reader.data = SubSeq(file, 1, Len(reader.data))
  BY ByteSeq DEF ReaderInv
<1>4. SubSeq(file', 1, Len(reader.data)) = SubSeq(file, 1, Len(reader.data))
  BY <1>1, <1>3, PrefixOfConcat
<1>5. Len(reader.data) <= Len(file') /\ reader.length <= Len(file')
  BY <1>1, <1>2, <1>3
<1> QED
  BY <1>3, <1>4, <1>5 DEF ReaderInv

\* The file is as it was.
LEMMA ReaderStutters ==
    ASSUME FileInv, ReaderInv, reader' = reader, caller' = "others" => caller = "others", file' = file
    PROVE  ReaderInv'
BY Zenon DEF ReaderInv

LEMMA OpenReaderKeeps ==
    ASSUME FileInv, ReaderInv, NewSequentialFile
    PROVE  ReaderInv'
<1>1. /\ caller # "others" /\ caller' = caller /\ UNCHANGED vars
      /\ reader' = [state |-> "reading", data |-> <<>>, length |-> Len(file)]
  BY DEF NewSequentialFile, Reading, Reads
<1>2. file' = file /\ file \in Seq(Nat) /\ Len(file) \in Nat
  BY <1>1, ByteSeq DEF vars, kernel, FileInv, FileTypes
<1>3. /\ reader'.state = "reading" /\ reader'.data = <<>> /\ reader'.length = Len(file)
      /\ reader' \in [state : {"none", "reading", "ok", "failed"}, data : Seq(Nat), length : Nat]
  BY <1>1, <1>2, EmptyBytes
<1>4. Len(reader'.data) = 0 /\ reader'.data = SubSeq(file', 1, Len(reader'.data))
  BY <1>3, EmptyBytes, PrefixNone
<1> QED
  BY <1>1, <1>2, <1>3, <1>4 DEF ReaderInv

LEMMA ReadKeeps ==
    ASSUME FileInv, ReaderInv, Read
    PROVE  ReaderInv'
<1>1. caller # "others" /\ caller' = caller /\ UNCHANGED vars /\ reader.state = "reading"
  BY DEF Read, Reading, Reads
<1>2. file' = file /\ file \in Seq(Nat) /\ Len(file) \in Nat
  BY <1>1, ByteSeq DEF vars, kernel, FileInv, FileTypes
<1>3. /\ reader \in [state : {"none", "reading", "ok", "failed"}, data : Seq(Nat), length : Nat]
      /\ Len(reader.data) \in Nat /\ Len(reader.data) <= Len(file)
      /\ reader.length \in Nat /\ reader.length <= Len(file)
  BY ByteSeq DEF ReaderInv
<1>4. PICK n \in 0 .. Smaller(kBufferSize, Len(file) - Len(reader.data)) :
        /\ n = 0 => Len(reader.data) = Len(file)
        /\ reader' = [reader EXCEPT !.data = SubSeq(file, 1, Len(@) + n),
                                    !.state = IF n = 0 THEN "ok" ELSE @]
  BY DEF Read, Reads
<1> DEFINE m == Len(reader.data) + n
<1>5. n \in Nat /\ m \in Nat /\ m <= Len(file)
  BY <1>2, <1>3, ReadAssumption DEF Smaller
<1>6. SubSeq(file, 1, m) \in Seq(Nat) /\ Len(SubSeq(file, 1, m)) = m
  BY <1>2, <1>5, TwoParts
<1>7. /\ reader'.data = SubSeq(file, 1, m) /\ reader'.length = reader.length
      /\ reader'.state = IF n = 0 THEN "ok" ELSE reader.state
  BY <1>3, <1>4
<1>8. reader' \in [state : {"none", "reading", "ok", "failed"}, data : Seq(Nat), length : Nat]
  BY <1>3, <1>4, <1>6
<1>9. Len(reader'.data) = m /\ m <= Len(file') /\ reader'.length <= Len(file')
  BY <1>2, <1>3, <1>5, <1>6, <1>7
<1>10. reader'.data = SubSeq(file', 1, Len(reader'.data))
  BY <1>2, <1>7, <1>9
<1>11. reader'.state = "ok" => m >= reader'.length
  BY <1>1, <1>2, <1>3, <1>4, <1>7
<1> HIDE DEF m
<1> QED
  BY <1>1, <1>8, <1>9, <1>10, <1>11 DEF ReaderInv

LEMMA ReadFailsKeeps ==
    ASSUME FileInv, ReaderInv, ReadFails
    PROVE  ReaderInv'
<1>1. /\ caller # "others" /\ caller' = caller /\ UNCHANGED vars
      /\ reader' = [reader EXCEPT !.state = "failed"]
  BY DEF ReadFails, Reading, Reads
<1>2. file' = file
  BY <1>1 DEF vars, kernel
<1>3. /\ reader'.state = "failed" /\ reader'.data = reader.data /\ reader'.length = reader.length
      /\ reader' \in [state : {"none", "reading", "ok", "failed"}, data : Seq(Nat), length : Nat]
  BY <1>1 DEF ReaderInv
<1> QED
  BY <1>1, <1>2, <1>3 DEF ReaderInv

(***************************************************************************)
(* DoWriteStringToFile.                                                    *)
(***************************************************************************)
\* A step that changes neither the file nor where DoWriteStringToFile is.
LEMMA WriterStutters ==
    ASSUME HelperInv, UNCHANGED vars, UNCHANGED <<caller, should_sync>>
    PROVE  CallerControl' /\ SyncedWhole' /\ StringWritten'
<1>1. /\ UNCHANGED <<file, durable, buf_, op, pc, writing, rest, appended, opened>>
      /\ UNCHANGED <<is_open, error>>
  BY DEF vars, kernel, call, history
<1>2. CallerControl'
  BY <1>1, Zenon DEF HelperInv, CallerControl
<1>3. SyncedWhole'
  BY <1>1, Zenon DEF HelperInv, SyncedWhole, Settled, Pending
<1>4. Expected' = Expected
  BY <1>1, Zenon DEF Expected
<1>5. StringWritten'
  BY <1>1, <1>4, Zenon DEF HelperInv, StringWritten
<1> QED
  BY <1>2, <1>3, <1>5

LEMMA OthersKeep ==
    ASSUME FileInv, FileInv', HelperInv, caller = "others", Next, UNCHANGED helpers
    PROVE  HelperInv'
<1>1. caller' = "others" /\ reader' = reader
  BY DEF helpers
<1>2. CallerControl' /\ SyncedWhole' /\ StringWritten'
  BY <1>1 DEF CallerControl, SyncedWhole, Settled, StringWritten
<1>3. reader' = NotReading
  BY <1>1 DEF HelperInv, ReaderInv
<1>4. ReaderInv'
  BY <1>3, NotReadingKeeps DEF FileInv
<1> QED
  BY <1>2, <1>4 DEF HelperInv

\* Append and Sync begin; what they are to settle is not settled yet.
LEMMA DoFirstKeeps ==
    ASSUME FileInv, HelperInv, DoAppend \/ DoSync
    PROVE  HelperInv'
<1>1. /\ caller' \in {"sync", "close"} /\ reader' = reader
      /\ pc = "idle"
  BY DEF DoAppend, DoSync, At, Proceed
<1>2. file' = file
  BY DEF DoAppend, DoSync, Append_, Sync, kernel
<1>3. pc' # "crashed" /\ (caller' = "close" => op' = "Sync" /\ pc' # "idle")
  <2>1. CASE DoAppend
    BY <1>1, <2>1 DEF DoAppend, Append_, Start, Proceed, call
  <2>2. CASE DoSync
    BY <2>2 DEF DoSync, Sync, Start
  <2> QED
    BY <2>1, <2>2
<1>4. CallerControl' /\ SyncedWhole' /\ StringWritten'
  BY <1>1, <1>3 DEF CallerControl, SyncedWhole, Settled, StringWritten
<1>5. ReaderInv'
  BY <1>1, <1>2, ReaderStutters DEF HelperInv
<1> QED
  BY <1>4, <1>5 DEF HelperInv

LEMMA DoClosingKeeps ==
    ASSUME FileInv, HelperInv, DoClose \/ DoDelete
    PROVE  HelperInv'
<1>1. /\ caller' \in {"delete", "return"} /\ reader' = reader /\ pc = "idle"
      /\ pc' \in {"flush", "destroyed"}
      /\ pc' = "flush" => writing' = buf_
      /\ UNCHANGED <<buf_, rest, kernel>>
  BY DEF DoClose, DoDelete, At, Proceed, Close, DestroyClosed, Start, FlushBuffer
<1>2. error' = error /\ should_sync' = should_sync
  BY DEF DoClose, DoDelete, Proceed, Close, DestroyClosed
<1>3. file' = file /\ durable' = durable
  BY <1>1 DEF kernel
<1>4. Pending' = Pending
  BY <1>1 DEF Pending
<1>5. CallerControl'
  BY <1>1 DEF CallerControl
<1>6. SyncedWhole'
  <2>1. SUFFICES ASSUME should_sync, ~ error
                 PROVE  durable' = Len(file') /\ Pending' = <<>>
    BY <1>2, Zenon DEF SyncedWhole
  <2>2. caller \in {"close", "delete"}
    <3>1. CASE DoClose
      BY <2>1, <3>1, Zenon DEF DoClose, At
    <3>2. CASE DoDelete
      BY <2>1, <3>2, Zenon DEF DoDelete, At
    <3> QED
      BY <3>1, <3>2
  <2>3. durable = Len(file) /\ Pending = <<>>
    BY <1>1, <2>1, <2>2 DEF HelperInv, SyncedWhole, Settled
  <2> QED
    BY <1>3, <1>4, <2>3
<1>7. StringWritten'
  BY <1>1 DEF StringWritten
<1>8. ReaderInv'
  BY <1>1, <1>3, ReaderStutters DEF HelperInv
<1> QED
  BY <1>5, <1>6, <1>7, <1>8 DEF HelperInv

LEMMA DoReturnKeeps ==
    ASSUME FileInv, HelperInv, DoReturn
    PROVE  HelperInv'
<1>1. /\ caller = "return" /\ caller' = "ok" /\ pc = "destroyed" /\ reader' = reader
      /\ UNCHANGED vars
  BY DEF DoReturn, Proceed
<1>2. ~ error /\ should_sync' = should_sync
  BY Zenon DEF DoReturn, Proceed
<1>3. /\ UNCHANGED <<file, durable, buf_, op, pc, writing, rest, appended, opened>>
      /\ error' = error
  BY <1>1 DEF vars, kernel, call, history
<1>4. CallerControl'
  <2>1. ~ error' /\ pc' = "destroyed"
    BY <1>1, <1>2, <1>3, Zenon
  <2> QED
    BY <1>1, <2>1 DEF CallerControl
<1>5. SyncedWhole'
  <2>1. SUFFICES ASSUME should_sync PROVE durable' = Len(file') /\ Pending' = <<>>
    BY <1>2, Zenon DEF SyncedWhole
  <2>2. durable = Len(file) /\ Pending = <<>>
    BY <1>1, <1>2, <2>1 DEF HelperInv, SyncedWhole, Settled
  <2>3. Pending' = Pending
    BY <1>3, Zenon DEF Pending
  <2> QED
    BY <1>3, <2>2, <2>3
<1>6. StringWritten'
  <2>1. ~ is_open
    BY <1>1, Zenon DEF FileInv, Control
  <2>2. file = Expected
    BY <1>1, <1>2, <2>1, FileInvNothingLost DEF NothingLost
  <2>3. Expected' = Expected
    BY <1>3, Zenon DEF Expected
  <2> QED
    BY <1>3, <2>2, <2>3, Zenon DEF StringWritten
<1>7. ReaderInv'
  BY <1>1, <1>3, ReaderStutters DEF HelperInv
<1> QED
  BY <1>4, <1>5, <1>6, <1>7 DEF HelperInv

LEMMA DoRemoveKeeps ==
    ASSUME FileInv, HelperInv, DoRemoveFile
    PROVE  HelperInv'
<1>1. caller' = "error" /\ reader' = reader /\ UNCHANGED vars
  BY DEF DoRemoveFile
<1>2. file' = file
  BY <1>1 DEF vars, kernel
<1>3. CallerControl' /\ SyncedWhole' /\ StringWritten'
  BY <1>1 DEF CallerControl, SyncedWhole, Settled, StringWritten
<1>4. ReaderInv'
  BY <1>1, <1>2, ReaderStutters DEF HelperInv
<1> QED
  BY <1>3, <1>4 DEF HelperInv

LEMMA RunningKeeps ==
    ASSUME FileInv, HelperInv, Running
    PROVE  HelperInv'
<1>1. MethodStep /\ caller' = caller /\ should_sync' = should_sync /\ reader' = reader
  BY DEF Running, MethodStep, helpers
<1>2. /\ pc \notin Resting /\ pc' # "crashed" /\ (~ error' => ~ error)
      /\ op = "Sync" => op' = op \/ pc' = "idle"
  BY <1>1, MethodControl
<1>3. PICK s \in Seq(Nat) : file' = file \o s
  BY <1>1, MethodControl
<1>4. caller # "ok" /\ (caller = "close" => op = "Sync")
  BY <1>2 DEF HelperInv, CallerControl, Resting
<1>5. CallerControl'
  BY <1>1, <1>2, <1>4 DEF HelperInv, CallerControl
<1>6. SyncedWhole'
  <2>1. SUFFICES ASSUME should_sync, ~ error', Settled'
                 PROVE  durable' = Len(file') /\ Pending' = <<>>
    BY <1>1, Zenon DEF SyncedWhole
  <2>2. CASE caller = "close"
    <3>1. pc' = "idle"
      BY <1>1, <2>1, <2>2 DEF Settled
    <3> QED
      BY <1>1, <1>4, <2>1, <2>2, <3>1, SyncSettles
  <2>3. CASE caller # "close"
    <3>1. Settled
      BY <1>1, <2>1, <2>3 DEF Settled
    <3>2. durable = Len(file) /\ Pending = <<>>
      BY <1>2, <2>1, <3>1 DEF HelperInv, SyncedWhole, Resting
    <3> QED
      BY <1>1, <2>1, <3>2, MethodKeepsSettled
  <2> QED
    BY <2>2, <2>3
<1>7. StringWritten'
  BY <1>1, <1>4 DEF StringWritten
<1>8. ReaderInv'
  BY <1>1, <1>3, ReaderStays DEF HelperInv
<1> QED
  BY <1>5, <1>6, <1>7, <1>8 DEF HelperInv

LEMMA HelperCrashKeeps ==
    ASSUME FileInv, FileInv', HelperInv, HelperCrash
    PROVE  HelperInv'
<1>1. /\ Crash /\ pc # "crashed" /\ pc' = "crashed" /\ reader' = NotReading
      /\ caller' = IF caller \in {"ok", "error"} THEN caller ELSE "crashed"
      /\ UNCHANGED <<appended, opened, should_sync>>
  BY DEF HelperCrash, Crash, history
<1>2. CallerControl'
  BY <1>1 DEF CallerControl
<1>3. SyncedWhole'
  BY <1>1 DEF SyncedWhole
<1>4. StringWritten'
  <2>1. SUFFICES ASSUME caller = "ok", should_sync PROVE file' = Expected'
    BY <1>1 DEF StringWritten
  <2>2. ~ error
    BY <1>1, <2>1 DEF HelperInv, CallerControl
  <2>3. durable = Len(file)
    BY <1>1, <2>1, <2>2 DEF HelperInv, SyncedWhole, Settled
  <2>4. file = Expected
    BY <1>1, <2>1 DEF HelperInv, StringWritten
  <2>5. file' = file
    <3>1. file \in Seq(Nat) /\ Len(file) \in Nat
      BY ByteSeq DEF FileInv, FileTypes
    <3>2. CASE UNCHANGED kernel
      BY <3>2 DEF kernel
    <3>3. CASE \E n \in durable .. Len(file) : file' = SubSeq(file, 1, n)
      BY <2>3, <3>1, <3>3, SubSeqFull
    <3> QED
      BY <1>1, <3>2, <3>3 DEF Crash
  <2>6. Expected' = Expected
    BY <1>1 DEF Expected
  <2> QED
    BY <2>4, <2>5, <2>6
<1>5. ReaderInv'
  BY <1>1, NotReadingKeeps DEF FileInv
<1> QED
  BY <1>2, <1>3, <1>4, <1>5 DEF HelperInv

LEMMA ReaderStepKeeps ==
    ASSUME FileInv, HelperInv, NewSequentialFile \/ Read \/ ReadFails
    PROVE  HelperInv'
<1>1. UNCHANGED vars /\ UNCHANGED <<caller, should_sync>>
  BY DEF NewSequentialFile, Read, ReadFails, Reads
<1>2. CallerControl' /\ SyncedWhole' /\ StringWritten'
  BY <1>1, WriterStutters
<1>3. ReaderInv'
  BY OpenReaderKeeps, ReadKeeps, ReadFailsKeeps DEF HelperInv
<1> QED
  BY <1>2, <1>3 DEF HelperInv

LEMMA HelperStutters ==
    ASSUME FileInv, HelperInv, UNCHANGED <<vars, helpers>>
    PROVE  HelperInv'
<1>1. UNCHANGED vars /\ UNCHANGED <<caller, should_sync>> /\ reader' = reader
  BY DEF helpers
<1>2. file' = file
  BY <1>1 DEF vars, kernel
<1>3. CallerControl' /\ SyncedWhole' /\ StringWritten'
  BY <1>1, WriterStutters
<1>4. ReaderInv'
  BY <1>1, <1>2, ReaderStutters DEF HelperInv
<1> QED
  BY <1>3, <1>4 DEF HelperInv

LEMMA HelperInit == HelpersInit => HelperInv
<1> SUFFICES ASSUME HelpersInit PROVE HelperInv
  OBVIOUS
<1>1. caller \in {"others", "append"} /\ reader = NotReading /\ pc = "idle" /\ file = <<>>
  BY DEF HelpersInit, Init
<1>2. CallerControl /\ SyncedWhole /\ StringWritten
  BY <1>1 DEF CallerControl, SyncedWhole, Settled, StringWritten
<1>3. /\ reader.state = "none" /\ reader.data = <<>> /\ reader.length = 0
      /\ reader \in [state : {"none", "reading", "ok", "failed"}, data : Seq(Nat), length : Nat]
  BY <1>1, EmptyBytes DEF NotReading
<1>4. Len(file) = 0 /\ Len(reader.data) = 0
  BY <1>1, <1>3, EmptyBytes
<1>5. reader.data = SubSeq(file, 1, Len(reader.data))
  BY <1>3, <1>4, PrefixNone
<1>6. ReaderInv
  BY <1>1, <1>3, <1>4, <1>5 DEF ReaderInv
<1> QED
  BY <1>2, <1>6 DEF HelperInv

LEMMA HelperStep == FileInv /\ HelperInv /\ [HelpersNext]_<<vars, helpers>> => FileInv' /\ HelperInv'
<1> SUFFICES ASSUME FileInv, HelperInv, [HelpersNext]_<<vars, helpers>>
             PROVE  FileInv' /\ HelperInv'
  OBVIOUS
<1>1. FileInv'
  BY HelpersStepFile, FileStep
<1>2. CASE caller = "others" /\ Next /\ UNCHANGED helpers
  BY <1>1, <1>2, OthersKeep
<1>3. CASE DoAppend \/ DoSync
  BY <1>1, <1>3, DoFirstKeeps
<1>4. CASE DoClose \/ DoDelete
  BY <1>1, <1>4, DoClosingKeeps
<1>5. CASE DoReturn
  BY <1>1, <1>5, DoReturnKeeps
<1>6. CASE DoRemoveFile
  BY <1>1, <1>6, DoRemoveKeeps
<1>7. CASE Running
  BY <1>1, <1>7, RunningKeeps
<1>8. CASE HelperCrash
  BY <1>1, <1>8, HelperCrashKeeps
<1>9. CASE NewSequentialFile \/ Read \/ ReadFails
  BY <1>1, <1>9, ReaderStepKeeps
<1>10. CASE HelpersDone \/ UNCHANGED <<vars, helpers>>
  BY <1>1, <1>10, HelperStutters DEF HelpersDone
<1> QED
  BY <1>2, <1>3, <1>4, <1>5, <1>6, <1>7, <1>8, <1>9, <1>10 DEF HelpersNext

LEMMA HelperInvariant == HelpersSpec => [](FileInv /\ HelperInv)
<1>1. HelpersInit => FileInv /\ HelperInv
  BY FileInit, HelperInit DEF HelpersInit
<1> QED
  BY <1>1, HelperStep, PTL DEF HelpersSpec

(***************************************************************************)
(* Theorems.  Those about the file hold of the helpers' specification too, *)
(* by HelpersImplementFile.                                                *)
(***************************************************************************)
\* PosixWritableFile hands bytes to write() in the order of the Appends and none twice,
\* through short writes, failed system calls, crashes and reopening.
THEOREM BytesStayInOrder == Spec => []InOrder
BY FileInvariant, FileInvInOrder, PTL

\* Append, WriteUnbuffered and FlushBuffer lose no byte between the buffer, the write under
\* way and the file, as long as no system call has failed.
THEOREM NoByteIsLost == Spec => []NothingLost
BY FileInvariant, FileInvNothingLost, PTL

\* What a Flush, or a Sync, answered for is in the file after any crash of the process, or
\* of the machine, and in every later session.
THEOREM FilePromisesAreKept == Spec => []PromisesKept
BY FileInvariant, FileInvPromises, PTL

\* SyncDirIfManifest comes before the MANIFEST's own sync, so no crash leaves a MANIFEST
\* that was synced with names of files that are gone.
THEOREM ManifestNamesExist == Spec => []NamedFilesExist
BY FileInvariant, FileInvPromises, PTL

\* WriteStringToFile that returns OK has written all of its string, and
\* WriteStringToFileSync has also made it proof against a crash.
THEOREM StringIsWritten == HelpersSpec => []StringWritten
<1>1. HelperInv => StringWritten
  BY DEF HelperInv
<1> QED
  BY <1>1, HelperInvariant, PTL

\* ReadFileToString that returns OK has a prefix of the file, with no gap, that holds all
\* the file had when it was opened, whatever fragments Read gave and however the file grew.
THEOREM StringIsRead == HelpersSpec => []StringRead
<1>1. HelperInv => StringRead
  BY DEF HelperInv, ReaderInv, StringRead
<1> QED
  BY <1>1, HelperInvariant, PTL
=============================================================================
