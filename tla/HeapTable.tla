----------------------------- MODULE HeapTable -----------------------------
(***************************************************************************)
(* The block table of the kernel heap (mm/heap/heap.h, mm/heap/heap.c): its *)
(* entries, the conversion of a size to blocks and what taking and freeing a *)
(* chain of blocks does to the table.  Writes past entries[Total - 1] leave  *)
(* the table and are not followed.                                           *)
(***************************************************************************)
EXTENDS HeapWindow

CONSTANTS
    BlockSize,          \* HEAP_BLOCK_SIZE
    Word                \* 2^32: size_t and uint32_t wrap here

ASSUME WordAssumption == BlockSize \in Nat \ {0} /\ Word \in Nat \ {0}

Entry == [taken : BOOLEAN, first : BOOLEAN, next : BOOLEAN]
FreeEntry == [taken |-> FALSE, first |-> FALSE, next |-> FALSE]

\* heap_align_value_to_upper, in 32 bits
AlignUp(val) ==
    IF val % BlockSize = 0 THEN val
    ELSE (val - (val % BlockSize) + BlockSize) % Word

\* heap_malloc: the blocks a request of this many bytes asks for
BlocksFor(bytes) == AlignUp(bytes) \div BlockSize

\* heap_get_entry_type(entry) == HEAP_BLOCK_TABLE_ENTRY_FREE
FreeBlocks(table) == {b \in Blocks : ~table[b].taken}

\* the entry heap_mark_blocks_taken gives block b of a chain of n from s
ChainEntry(b, s, n) == [taken |-> TRUE, first |-> b = s, next |-> b # s + n - 1]

\* Mutant: only the first block of the chain is marked.
MarkFirstTaken(table, s, n) ==
    [b \in Blocks |-> IF b = s THEN ChainEntry(b, s, n) ELSE table[b]]

\* heap_mark_blocks_taken: the chain of n blocks from s
MarkTaken(table, s, n) ==
    [b \in Blocks |-> IF b \in s..(s + n - 1) THEN ChainEntry(b, s, n) ELSE table[b]]

\* Mutant: only the first block of the chain is freed.
MarkFirstFree(table, s) == [b \in Blocks |-> IF b = s THEN FreeEntry ELSE table[b]]

\* heap_mark_blocks_free: from s on, up to and including the first entry that
\* has no successor
MarkFree(table, s) ==
    [b \in Blocks |-> IF b >= s /\ \A c \in s..(b - 1) : table[c].next
                        THEN FreeEntry ELSE table[b]]
=============================================================================
