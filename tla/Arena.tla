------------------------------- MODULE Arena -------------------------------
(***************************************************************************)
(* util/arena.cc and .h, as operators on the state of an arena.  An address*)
(* is a block and an offset in it; operator new aligns every block.  An    *)
(* allocation gives the arena after it and the address of the memory.      *)
(***************************************************************************)
EXTENDS Integers, Sequences

CONSTANTS
    kBlockSize,         \* 4096 in the code
    align,              \* what AllocateAligned aligns to: 8 in the code
    PointerSize         \* sizeof(char*)

ASSUME ArenaAssumption ==
    kBlockSize \in Nat \ {0} /\ align \in Nat \ {0} /\ PointerSize \in Nat \ {0}

EmptyArena ==
    [blocks_ |-> <<>>,                                  \* the size of each block
     alloc_ptr_ |-> [block |-> 0, offset |-> 0],        \* block 0: nullptr
     alloc_bytes_remaining_ |-> 0, memory_usage_ |-> 0]

AllocateNewBlock(a, block_bytes) ==
    [a EXCEPT !.blocks_ = Append(@, block_bytes), !.memory_usage_ = @ + block_bytes + PointerSize]

\* Mutant: the bytes left out are not taken off what remains.
TakeFromBlockSkipUncounted(a, skip, bytes) ==
    [arena |-> [a EXCEPT !.alloc_ptr_.offset = @ + skip + bytes, !.alloc_bytes_remaining_ = @ - bytes],
     at |-> [a.alloc_ptr_ EXCEPT !.offset = @ + skip]]

\* From the current block, after leaving out so many bytes.
TakeFromBlock(a, skip, bytes) ==
    [arena |-> [a EXCEPT !.alloc_ptr_.offset = @ + skip + bytes, !.alloc_bytes_remaining_ = @ - skip - bytes],
     at |-> [a.alloc_ptr_ EXCEPT !.offset = @ + skip]]

\* A large allocation gets a block of its own, and the current one goes on.
AllocateFallback(a, bytes) ==
    LET start == [block |-> Len(a.blocks_) + 1, offset |-> 0]
    IN  IF bytes > kBlockSize \div 4
        THEN [arena |-> AllocateNewBlock(a, bytes), at |-> start]
        ELSE TakeFromBlock([AllocateNewBlock(a, kBlockSize) EXCEPT !.alloc_ptr_ = start,
                                                                   !.alloc_bytes_remaining_ = kBlockSize], 0, bytes)

Allocate(a, bytes) ==
    IF bytes <= a.alloc_bytes_remaining_ THEN TakeFromBlock(a, 0, bytes) ELSE AllocateFallback(a, bytes)

AllocateAligned(a, bytes) ==
    LET current_mod == a.alloc_ptr_.offset % align
        slop == IF current_mod = 0 THEN 0 ELSE align - current_mod
    IN  IF bytes + slop <= a.alloc_bytes_remaining_ THEN TakeFromBlock(a, slop, bytes) ELSE AllocateFallback(a, bytes)
=============================================================================
