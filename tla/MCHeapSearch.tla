---------------------------- MODULE MCHeapSearch ----------------------------
(* Every table of Total blocks and every request up to one block more.       *)
EXTENDS HeapSearch
=============================================================================
