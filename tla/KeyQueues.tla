------------------------------ MODULE KeyQueues ------------------------------
(***************************************************************************)
(* What programs expect of the keyboard.  A program that starts gets the    *)
(* focus with an empty queue; when it ends the focus moves to a program that *)
(* lives.  A key goes to the program with the focus, which reads its keys    *)
(* once each and in order.  The promise to a program is withdrawn, for as    *)
(* long as it lives, when a key is typed and Capacity keys are not read.     *)
(***************************************************************************)
EXTENDS Naturals, Sequences

CONSTANTS Programs, Keys, Capacity, First

VARIABLES
    live, focus,        \* the programs, and the one that keys go to
    queue,              \* keys typed for each program and not yet read
    broken              \* programs the promise is withdrawn from

Init ==
    /\ live = {First} /\ focus = First
    /\ queue = [p \in Programs |-> <<>>]
    /\ broken = {}

OthersStay(p) ==
    \A q \in Programs \ {p} : queue'[q] = queue[q] /\ (q \in broken' <=> q \in broken)
Kept(p) == p \notin broken /\ p \notin broken'
Fresh(p) == queue'[p] = <<>> /\ p \notin broken'

\* A key is typed for p: its last one, or one too many.
Type(p) ==
    /\ p \in live /\ p = focus
    /\ \/ Kept(p) /\ \E k \in Keys : queue'[p] = Append(queue[p], k)
       \/ p \in broken' /\ (p \in broken \/ Len(queue[p]) = Capacity)
    /\ OthersStay(p)
    /\ UNCHANGED <<live, focus>>

\* p reads its oldest key.
Read(p) ==
    /\ p \in live
    /\ \/ Kept(p) /\ queue[p] # <<>> /\ queue'[p] = Tail(queue[p])
       \/ p \in broken /\ p \in broken'
    /\ OthersStay(p)
    /\ UNCHANGED <<live, focus>>

Start(p) ==
    /\ p \notin live
    /\ live' = live \cup {p} /\ focus' = p
    /\ Fresh(p) /\ OthersStay(p)

\* With the last program the kernel ends.
End(p) ==
    /\ p \in live
    /\ live' = live \ {p}
    /\ IF focus # p THEN UNCHANGED focus ELSE live' # {} => focus' \in live'
    /\ Fresh(p) /\ OthersStay(p)

Next == \E p \in Programs : Type(p) \/ Read(p) \/ Start(p) \/ End(p)

Spec == Init /\ [][Next]_<<live, focus, queue, broken>>
=============================================================================
