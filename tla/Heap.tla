-------------------------------- MODULE Heap --------------------------------
(***************************************************************************)
(* The kernel heap (mm/heap/heap.c, mm/heap/kernel_heap.c): a table of one  *)
(* entry per block, a first-fit search, and chains of entries that end at   *)
(* the first entry without HEAP_BLOCK_HAS_NEXT.  A pointer is known by its  *)
(* block (heap_block_to_address and heap_address_to_block invert each other *)
(* on the addresses the heap hands out).  Writes past entries[Total - 1]    *)
(* leave the table and are not followed.                                    *)
(***************************************************************************)
EXTENDS HeapTable

CONSTANTS
    Sizes,              \* the sizes the kernel asks for
    Holders             \* the pointers the kernel keeps, one per allocation

ASSUME SizesAssumption == Sizes \subseteq 0..(Word - 1)

VARIABLES
    entries,            \* heap_table_t.entries
    ptr,                \* the block each holder points to, or NoBlock for NULL
    len,                \* how many blocks the holder asked for
    stray               \* history: a block was freed through the pointer of an
                        \* empty request while it was somebody else's

vars == <<entries, ptr, len, stray>>

Init ==
    /\ entries = [b \in Blocks |-> FreeEntry]
    /\ ptr = [h \in Holders |-> NoBlock]
    /\ len = [h \in Holders |-> 0]
    /\ stray = FALSE

\* Mutant: the end of the window is returned, not its start.
MallocWindowEnd(h, bytes) ==
    /\ ptr[h] = NoBlock
    /\ \E s \in Blocks :
        /\ IsStartBlock(FreeBlocks(entries), BlocksFor(bytes), s)
        /\ entries' = MarkTaken(entries, s, BlocksFor(bytes))
        /\ ptr' = [ptr EXCEPT ![h] = s + BlocksFor(bytes)]
    /\ len' = [len EXCEPT ![h] = BlocksFor(bytes)]
    /\ UNCHANGED stray

\* kernel_malloc; a failed request changes nothing.  A request that rounds to
\* zero blocks gets the first block of the free run at the table's end and does
\* not mark it.
Malloc(h, bytes) ==
    /\ ptr[h] = NoBlock
    /\ \E s \in Blocks :
        /\ IsStartBlock(FreeBlocks(entries), BlocksFor(bytes), s)
        /\ entries' = MarkTaken(entries, s, BlocksFor(bytes))
        /\ ptr' = [ptr EXCEPT ![h] = s]
    /\ len' = [len EXCEPT ![h] = BlocksFor(bytes)]
    /\ UNCHANGED stray

\* kernel_free of a pointer the kernel was given
Free(h) ==
    /\ ptr[h] # NoBlock
    /\ entries' = MarkFree(entries, ptr[h])
    /\ ptr' = [ptr EXCEPT ![h] = NoBlock]
    /\ len' = [len EXCEPT ![h] = 0]
    /\ stray' = (stray \/ (len[h] = 0 /\ entries[ptr[h]].taken))

Next == \E h \in Holders : Free(h) \/ \E bytes \in Sizes : Malloc(h, bytes)

Spec == Init /\ [][Next]_vars
-----------------------------------------------------------------------------
\* The blocks of h that lie in the table.
Owned(h) == {b \in Blocks : ptr[h] # NoBlock /\ ptr[h] <= b /\ b < ptr[h] + len[h]}

TypeOK ==
    /\ entries \in [Blocks -> Entry]
    /\ ptr \in [Holders -> Blocks \cup {NoBlock}]
    /\ len \in [Holders -> Nat]
    /\ stray \in BOOLEAN

\* A block belongs to one live allocation at most, whatever was freed in
\* between and however the free blocks are scattered (heap.c:138-169).  Empty
\* requests, which share a block with whoever gets it next, do no harm until
\* one of them is freed after its block was given away.
Disjoint ==
    ~stray => \A g, h \in Holders : g # h => Owned(g) \cap Owned(h) = {}

\* The table says exactly what is allocated: each live allocation is one chain
\* from its IS_FIRST entry to its last block, and every other entry is free, so
\* that nothing leaks and a free walks its own chain (heap.c:117-169).
TableMatches ==
    ~stray =>
        \A b \in Blocks :
            \/ entries[b] = FreeEntry /\ \A h \in Holders : b \notin Owned(h)
            \/ \E h \in Holders :
                  b \in Owned(h) /\ entries[b] = ChainEntry(b, ptr[h], len[h])

\* Although a request may be given too short a run at the end of the table
\* (heap.c:104), at most one live allocation reaches past the heap's end.
OneOverrun ==
    ~stray =>
        \A g, h \in Holders :
            /\ ptr[g] # NoBlock /\ ptr[g] + len[g] > Total
            /\ ptr[h] # NoBlock /\ ptr[h] + len[h] > Total
            => g = h
=============================================================================
