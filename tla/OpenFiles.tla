------------------------------ MODULE OpenFiles ------------------------------
(***************************************************************************)
(* What a table of open files promises: a number stands for one open file   *)
(* with a position of its own from the moment it is handed out, at position  *)
(* 0, until it is closed, and no operation touches another number's file.    *)
(***************************************************************************)
CONSTANTS Numbers, Items, Positions, Closed

VARIABLE open           \* what each number stands for, [item, pos] or Closed

Init == open = [n \in Numbers |-> Closed]

Open(n, f) ==
    /\ open[n] = Closed
    /\ open' = [open EXCEPT ![n] = [item |-> f, pos |-> 0]]

Close(n) == open' = [open EXCEPT ![n] = Closed]

Seek(n, p) ==
    /\ open[n] # Closed
    /\ open' = [open EXCEPT ![n].pos = p]

Next ==
    \E n \in Numbers :
        \/ \E f \in Items : Open(n, f)
        \/ Close(n)
        \/ \E p \in Positions : Seek(n, p)

Spec == Init /\ [][Next]_open
=============================================================================
