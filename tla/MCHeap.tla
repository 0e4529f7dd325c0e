------------------------------- MODULE MCHeap -------------------------------
(* Six blocks of four bytes in a word of 32: requests of one, two and three  *)
(* blocks, whole and rounded up, an empty one, and one whose size wraps to   *)
(* no block.                                                                 *)
EXTENDS Heap, TLC
MCSizes == {0, 1, 4, 7, 12, 30}
=============================================================================
