----------------------------- MODULE MCTaskList -----------------------------
EXTENDS TaskList, TLC
Symmetry == Permutations(Tasks)
=============================================================================
