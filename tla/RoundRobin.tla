----------------------------- MODULE RoundRobin -----------------------------
(***************************************************************************)
(* What the scheduler promises: the live tasks take the processor in the    *)
(* order they were created, one per clock tick, and the one that exits      *)
(* leaves it to another live task.  The promise may be withdrawn for good.  *)
(***************************************************************************)
CONSTANTS Tasks, None

VARIABLES
    live,               \* the tasks that exist
    older,              \* for each live task, the live tasks created before it
    running,            \* the task that has the processor, None if there is none
    kept                \* FALSE once the promise is withdrawn

vars == <<live, older, running, kept>>

Init ==
    /\ live = {}
    /\ older = [t \in Tasks |-> {}]
    /\ running = None
    /\ kept = TRUE

\* u comes after t in the ring of live tasks
Succeeds(u, t) ==
    /\ u \in live
    /\ \/ older[u] = older[t] \cup {t}
       \/ (older[u] = {} /\ older[t] \cup {t} = live)

\* A new task is the youngest; it may take the processor at once.
Spawn(t) ==
    /\ t \notin live
    /\ live' = live \cup {t}
    /\ older' = [older EXCEPT ![t] = live]
    /\ running' = t \/ (live # {} /\ running' = running)

Tick ==
    /\ Succeeds(running', running)
    /\ UNCHANGED <<live, older>>

Exit ==
    /\ running \in live
    /\ live' = live \ {running}
    /\ older' = [t \in Tasks |-> IF t = running THEN {} ELSE older[t] \ {running}]
    /\ running' \in live' \/ (live' = {} /\ running' = None)

Withdraw == kept' = FALSE

Next ==
    \/ Withdraw
    \/ kept' = kept /\ (Tick \/ Exit \/ \E t \in Tasks : Spawn(t))

Spec == Init /\ [][Next]_vars
=============================================================================
