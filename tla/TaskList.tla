------------------------------ MODULE TaskList ------------------------------
(***************************************************************************)
(* The scheduler (task/task.c): a doubly linked list of task_t and a        *)
(* current task, as the clock interrupt, the loading of a program and the   *)
(* end of a process use it.  The kernel runs with interrupts off, so every  *)
(* entry into it is one step.                                               *)
(*                                                                          *)
(* A task is known by the address of its task_t.  A freed task_t keeps its  *)
(* contents until its block is handed out again, and any free address may   *)
(* be handed out.  The model stops where the code would run on from freed   *)
(* memory: status "wild".                                                   *)
(***************************************************************************)
CONSTANTS
    Tasks,              \* addresses of task_t; their number bounds MAX_PROCESSES
    Null

ASSUME NullAssumption == Null \notin Tasks

VARIABLES
    task_head, task_tail, current_task,
    next, prev,         \* the links of every task_t, live or freed
    live,               \* task_t structures that are allocated
    status,             \* "boot", "run", "panic" or "wild"
    older,              \* history: the live tasks created before each live task
    stale,              \* history: live tasks whose left neighbour was removed
    sound               \* history: no such task has been removed itself

pointers == <<task_head, task_tail, current_task, next, prev>>
history  == <<older, stale, sound>>
vars     == <<task_head, task_tail, current_task, next, prev, live, status,
              older, stale, sound>>

Link == Tasks \cup {Null}

\* memory after "address->field = value"
Poke(field, address, value) ==
    [t \in Tasks |-> IF t = address THEN value ELSE field[t]]

\* Mutant: the end of the list is not wrapped to its head.
NextInStops(links, head, t) == IF links[t] = Null THEN t ELSE links[t]

\* task_get_next, in the list given by links and head
NextIn(links, head, t) == IF links[t] = Null THEN head ELSE links[t]

Init ==
    /\ task_head = Null /\ task_tail = Null /\ current_task = Null
    /\ next = [t \in Tasks |-> Null]
    /\ prev = [t \in Tasks |-> Null]
    /\ live = {}
    /\ status = "boot"
    /\ older = [t \in Tasks |-> {}]
    /\ stale = {}
    /\ sound = TRUE

\* kernel_zalloc of a task_t and its kernel_free, and what the history records
Created(t) ==
    /\ live' = live \cup {t}
    /\ older' = [older EXCEPT ![t] = live]
    /\ stale' = stale \ {t}
    /\ sound' = sound

Removed(t) ==
    /\ live' = live \ {t}
    /\ older' = [u \in Tasks |-> IF u = t THEN {} ELSE older[u] \ {t}]
    /\ stale' = (stale \ {t}) \cup {u \in live : older[u] = older[t] \cup {t}}
    /\ sound' = (sound /\ t \notin stale)

\* Mutant: the old tail does not get the new task as its successor.
NewTaskUnlinked(t) ==
    /\ t \notin live
    /\ Created(t)
    /\ task_tail' = t
    /\ task_head' = IF task_head = Null THEN t ELSE task_head
    /\ next' = Poke(next, t, Null)
    /\ prev' = Poke(prev, t, task_tail)

\* new_task: the structure is zeroed, then linked behind task_tail
NewTask(t) ==
    /\ t \notin live
    /\ Created(t)
    /\ task_tail' = t
    /\ IF task_head = Null
         THEN /\ task_head' = t
              /\ next' = Poke(next, t, Null)
              /\ prev' = Poke(prev, t, Null)
         ELSE /\ task_head' = task_head
              /\ next' = Poke(Poke(next, t, Null), task_tail, t)
              /\ prev' = Poke(prev, t, task_tail)

\* start_kernel: the shell's task is created and runs
Boot(t) ==
    /\ status = "boot"
    /\ NewTask(t)
    /\ current_task' = task_head'
    /\ status' = "run"

\* isr80h_proc_cmd_process_load_start and isr80h_proc_cmd_invoke_system_command:
\* the running task starts a program, which runs at once
StartProgram(t) ==
    /\ status = "run"
    /\ NewTask(t)
    /\ current_task' = t
    /\ UNCHANGED status

\* isr80h_proc_cmd_invoke_system_command when the arguments cannot be injected
\* (isr80h/process.c:60-63): the program is loaded, its caller runs on
LoadProgram(t) ==
    /\ status = "run"
    /\ NewTask(t)
    /\ current_task' = IF task_head = Null THEN t ELSE current_task
    /\ UNCHANGED status

\* Mutant: the oldest task is freed in place of the new one.
FailedLoadFreesHead(t) ==
    /\ status = "run"
    /\ t \notin live
    /\ task_head # Null
    /\ live' = live \ {task_head}
    /\ UNCHANGED <<pointers, status, history>>

\* process_load_for_slot when process_map_memory fails, which no address it is
\* given today brings about: new_task, then task_free
FailedLoad(t) ==
    /\ status = "run"
    /\ t \notin live
    /\ task_head # Null
    /\ next' = Poke(Poke(next, t, Null), task_tail, Null)
    /\ prev' = Poke(prev, t, task_tail)
    /\ UNCHANGED <<task_head, task_tail, current_task, live, status, history>>

\* idt_clock: task_next
Clock ==
    /\ status = "run"
    /\ current_task' = NextIn(next, task_head, current_task)
    /\ status' = IF current_task' = Null THEN "panic"
                 ELSE IF current_task' \in live THEN "run" ELSE "wild"
    /\ UNCHANGED <<task_head, task_tail, next, prev, live, history>>

\* Mutants: the tail stays on the freed task; the left neighbour keeps its link.
RemoveTaskKeepsTail(t) ==
    /\ next' = Poke(next, prev[t], next[t])
    /\ task_head' = IF t = task_head THEN next[t] ELSE task_head
    /\ Removed(t)
    /\ UNCHANGED <<task_tail, prev>>

RemoveTaskKeepsLink(t) ==
    /\ task_head' = IF t = task_head THEN next[t] ELSE task_head
    /\ task_tail' = IF t = task_tail THEN prev[t] ELSE task_tail
    /\ Removed(t)
    /\ UNCHANGED <<next, prev>>

\* task_list_remove and kernel_free
RemoveTask(t) ==
    /\ next' = Poke(next, prev[t], next[t])
    /\ task_head' = IF t = task_head THEN next[t] ELSE task_head
    /\ task_tail' = IF t = task_tail THEN prev[t] ELSE task_tail
    /\ Removed(t)
    /\ UNCHANGED prev

\* The exit system call, or an exception of the running task: process_terminate
\* of its process, which frees it and panics in process_switch_to_any if no
\* process is left; then task_next, from the task task_list_remove has already
\* moved to.
Terminate ==
    LET t == current_task
        moved == NextIn(next', task_head', t)
    IN  /\ status = "run"
        /\ RemoveTask(t)
        /\ \/ /\ live' = {}
              /\ current_task' = moved
              /\ status' = "panic"
           \/ /\ live' # {} /\ moved \notin live'
              /\ current_task' = moved
              /\ status' = "wild"
           \/ /\ moved \in live'
              /\ current_task' = NextIn(next', task_head', moved)
              /\ status' = IF current_task' = Null THEN "panic"
                           ELSE IF current_task' \in live' THEN "run" ELSE "wild"

Next ==
    \/ Clock
    \/ Terminate
    \/ \E t \in Tasks : Boot(t) \/ StartProgram(t) \/ LoadProgram(t) \/ FailedLoad(t)

\* The timer interrupts user code again and again; nothing else is certain.
Spec == Init /\ [][Next]_vars /\ WF_vars(Clock)
-----------------------------------------------------------------------------
TypeOK ==
    /\ task_head \in Link /\ task_tail \in Link /\ current_task \in Link
    /\ next \in [Tasks -> Link] /\ prev \in [Tasks -> Link]
    /\ live \subseteq Tasks
    /\ status \in {"boot", "run", "panic", "wild"}
    /\ older \in [Tasks -> SUBSET live]
    /\ stale \subseteq live
    /\ sound \in BOOLEAN

\* u was created right after t, among the live tasks
Follows(u, t) == u \in live /\ older[u] = older[t] \cup {t}
Youngest(t) == t \in live /\ older[t] \cup {t} = live
Oldest(t) == t \in live /\ older[t] = {}

\* Until a task is removed whose left neighbour went before it, the list holds
\* exactly the live tasks in the order of their creation: head, tail and the
\* forward links are right whatever was removed, and so are the back links
\* of the tasks whose left neighbour still lives (task.c:26-95).
ListSound ==
    sound =>
        /\ IF live = {} THEN task_head = Null /\ task_tail = Null
                        ELSE Oldest(task_head) /\ Youngest(task_tail)
        /\ \A t \in live : IF next[t] = Null THEN Youngest(t) ELSE Follows(next[t], t)
        /\ \A t \in live \ stale :
              IF prev[t] = Null THEN Oldest(t) ELSE prev[t] \in live /\ Follows(t, prev[t])

\* And as long, the processor is never given to a freed task, and the kernel
\* panics only when no task is left.
RunsLiveTask ==
    sound =>
        /\ status # "wild"
        /\ status = "run" => current_task \in live
        /\ status = "panic" => live = {}

\* The list implements the round-robin scheduler, as long as it is sound.
Scheduler == INSTANCE RoundRobin
                WITH None <- Null, running <- current_task, kept <- sound
KeepsPromise == Scheduler!Spec

\* If the tasks stop exiting and the list is sound, every live task gets the
\* processor again and again: no task is lost from the ring.
EveryTaskRuns ==
    (<>[][~Terminate]_vars /\ []sound)
        => \A t \in Tasks : []<>(t \in live => current_task = t)

\* task.c:12 "The current task that is running": while the kernel runs, the
\* current task is one that exists.
CurrentTaskExists == status \in {"run", "wild"} => current_task \in live
=============================================================================
