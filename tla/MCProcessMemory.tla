--------------------------- MODULE MCProcessMemory ---------------------------
(***************************************************************************)
(* A heap of ten blocks that two processes of five fill to the last one; a  *)
(* flat binary takes six.  Files are empty or have one page, and may        *)
(* declare the page behind their contents.  Programs ask for nothing, for   *)
(* two blocks and for so much that the size wraps to no block.              *)
(***************************************************************************)
EXTENDS ProcessMemory, TLC
MCPartBlocks == [x \in Parts \ {"image"} |-> 1]
MCImageBlocks == {0, 1}
MCSegments == {{0}, {0, 1}}
MCSizes == {0, 5, 62}
Symmetry == Permutations(Procs)
=============================================================================
