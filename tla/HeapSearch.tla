----------------------------- MODULE HeapSearch -----------------------------
(***************************************************************************)
(* The loop of heap_get_start_block (mm/heap/heap.c:72-110), one iteration *)
(* per step, over every heap table and every request.                      *)
(***************************************************************************)
EXTENDS HeapWindow

CONSTANT MaxRequest     \* bound on total_blocks, the argument of the search

ASSUME MaxRequestAssumption == MaxRequest \in Nat

VARIABLES
    free,               \* blocks whose entry type is HEAP_BLOCK_TABLE_ENTRY_FREE
    total_blocks,       \* the request
    i, window_start, window_size,
    pc                  \* "loop" until the search returns

searchVars == <<free, total_blocks, i, window_start, window_size, pc>>

SearchInit ==
    /\ free \in SUBSET Blocks
    /\ total_blocks \in 0..MaxRequest
    /\ i = 0
    /\ window_start = NoBlock
    /\ window_size = 0
    /\ pc = "loop"

\* Mutant of the next action: the size of the window survives a used block.
SkipTakenKeepsSize ==
    /\ pc = "loop" /\ i < Total /\ i \notin free
    /\ window_start' = NoBlock
    /\ i' = i + 1
    /\ UNCHANGED <<free, total_blocks, window_size, pc>>

\* heap.c:80-85, a used block resets the window
SkipTaken ==
    /\ pc = "loop" /\ i < Total /\ i \notin free
    /\ window_start' = NoBlock
    /\ window_size' = 0
    /\ i' = i + 1
    /\ UNCHANGED <<free, total_blocks, pc>>

\* Mutant: the sizes are compared before the block is counted.
ExpandWindowOffByOne ==
    /\ pc = "loop" /\ i < Total /\ i \in free
    /\ window_start' = IF window_start = NoBlock THEN i ELSE window_start
    /\ window_size' = window_size + 1
    /\ IF window_size = total_blocks
         THEN pc' = "done" /\ i' = i
         ELSE pc' = pc /\ i' = i + 1
    /\ UNCHANGED <<free, total_blocks>>

\* heap.c:86-100, a free block extends the window; the loop stops when the
\* window has grown to the request
ExpandWindow ==
    /\ pc = "loop" /\ i < Total /\ i \in free
    /\ window_start' = IF window_start = NoBlock THEN i ELSE window_start
    /\ window_size' = window_size + 1
    /\ IF window_size + 1 = total_blocks
         THEN pc' = "done" /\ i' = i
         ELSE pc' = pc /\ i' = i + 1
    /\ UNCHANGED <<free, total_blocks>>

\* heap.c:78, the table is exhausted
Exhausted ==
    /\ pc = "loop" /\ i = Total
    /\ pc' = "done"
    /\ UNCHANGED <<free, total_blocks, i, window_start, window_size>>

SearchNext == SkipTaken \/ ExpandWindow \/ Exhausted

SearchSpec == SearchInit /\ [][SearchNext]_searchVars
-----------------------------------------------------------------------------
SearchTypeOK ==
    /\ free \subseteq Blocks
    /\ total_blocks \in 0..MaxRequest
    /\ i \in 0..Total
    /\ window_start \in Blocks \cup {NoBlock}
    /\ window_size \in 0..Total
    /\ pc \in {"loop", "done"}

\* The window is the maximal run of free blocks ending before block i.
Window ==
    IF window_start = NoBlock
      THEN /\ window_size = 0
           /\ i > 0 => (i - 1) \notin free
      ELSE /\ window_start + window_size = i
           /\ window_size > 0
           /\ window_start..(i - 1) \subseteq free
           /\ window_start > 0 => (window_start - 1) \notin free

\* While the loop runs, no window of the requested size ends before block i,
\* and the current window is the run of free blocks just before i.
LoopInv ==
    pc = "loop" =>
        /\ Window
        /\ \A s \in 0..(i - 1) :
              s + total_blocks <= i /\ total_blocks > 0
                => ~Fits(free, s, total_blocks)

\* The search returns what IsStartBlock says: the first window that fits, else
\* the start of the free run at the end of the table, else an error.  This is
\* the answer the allocator modules use in place of the loop.
SearchCorrect == pc = "done" => IsStartBlock(free, total_blocks, window_start)

\* heap.c:103 "Return an error if no suitable window was found": a request for
\* blocks that no run of free blocks can hold gets an error.
ErrorWithoutWindow ==
    pc = "done" /\ total_blocks > 0 /\ ~HasWindow(free, total_blocks)
        => window_start = NoBlock
=============================================================================
