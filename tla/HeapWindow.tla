----------------------------- MODULE HeapWindow -----------------------------
(***************************************************************************)
(* What heap_get_start_block (mm/heap/heap.c) answers, stated without its  *)
(* loop.  A heap table is known here by the set "free" of its free blocks. *)
(* HeapSearch runs the loop itself and is proved to give this answer.      *)
(***************************************************************************)
EXTENDS Integers

CONSTANT Total          \* heap_table_t.total, the number of table entries

ASSUME TotalAssumption == Total \in Nat \ {0}

Blocks  == 0..(Total - 1)
NoBlock == -1           \* the value of window_start that becomes -ENOMEM

\* The n blocks from s on lie inside the table and are all free.
Fits(free, s, n) ==
    /\ s + n <= Total
    /\ \A b \in s..(s + n - 1) : b \in free

\* The request for n blocks can be served.  No search ever ends on a window
\* of zero blocks: the loop compares the size after counting a free block.
HasWindow(free, n) == n > 0 /\ \E s \in Blocks : Fits(free, s, n)

FirstFit(free, n, s) ==
    /\ n > 0
    /\ s \in Blocks
    /\ Fits(free, s, n)
    /\ \A t \in 0..(s - 1) : ~Fits(free, t, n)

\* Mutant: the last block is returned, free or not.
LastBlock(free, s) == s = Total - 1

\* s begins the maximal run of free blocks that ends with the table.
TrailingRun(free, s) ==
    /\ s \in Blocks
    /\ s..(Total - 1) \subseteq free
    /\ s > 0 => (s - 1) \notin free

\* The block heap_get_start_block returns.  Without a window of the requested
\* size it is the start of the free run at the table's end, if there is one.
IsStartBlock(free, n, s) ==
    \/ FirstFit(free, n, s)
    \/ ~HasWindow(free, n) /\ TrailingRun(free, s)
    \/ ~HasWindow(free, n) /\ (Total - 1) \notin free /\ s = NoBlock
=============================================================================
