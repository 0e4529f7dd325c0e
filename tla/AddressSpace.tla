---------------------------- MODULE AddressSpace ----------------------------
(***************************************************************************)
(* What an address space promises: one entry per page, a frame and its      *)
(* flags; mapping a range of pages to a range of frames of the same length   *)
(* changes the entries of those pages and of no other; copying a string to   *)
(* or from it changes none, and nothing is mapped meanwhile.                  *)
(***************************************************************************)
EXTENDS Integers

CONSTANTS
    Pages,              \* how many pages there are, and how many frames
    Flags

VARIABLES space, copying

Numbers == 0..(Pages - 1)

Init ==
    /\ copying = FALSE
    /\ \E f \in Flags : space = [n \in Numbers |-> [frame |-> n, flags |-> f]]

\* the n pages from v on, wrapping at the end, get the n frames from p on
Map(v, p, n, f) ==
    /\ ~copying
    /\ space' = [m \in Numbers |->
                   LET k == (m - v) % Pages
                   IN  IF k < n THEN [frame |-> p + k, flags |-> f] ELSE space[m]]
    /\ UNCHANGED copying

Copy == copying' = ~copying /\ UNCHANGED space

Next ==
    \/ \E v, p, n \in Numbers : \E f \in Flags : p + n <= Pages /\ Map(v, p, n, f)
    \/ Copy

Spec == Init /\ [][Next]_<<space, copying>>
=============================================================================
