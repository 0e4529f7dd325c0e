--------------------------- MODULE TaskListProofs ---------------------------
(* The task list is sound, and implements round robin, for any number of     *)
(* tasks, until a task is removed whose left neighbour went before it.       *)
EXTENDS TaskList, TLAPS

\* The history variable older is a strict total order of the live tasks.
Order ==
    /\ \A t \in live : t \notin older[t]
    /\ \A t, u \in live : t # u => (t \in older[u] \/ u \in older[t])
    /\ \A t, u \in live : ~(t \in older[u] /\ u \in older[t])
    /\ \A t, u \in live : t \in older[u] => older[t] \subseteq older[u]

\* Whatever has become of the list, the kernel runs only with a live task.
Running ==
    /\ status = "run" => current_task \in live
    /\ status = "boot" => live = {} /\ task_head = Null

IInv == TypeOK /\ Order /\ Running /\ ListSound /\ RunsLiveTask

LEMMA InitInv == Init => IInv
  BY DEF Init, IInv, TypeOK, Link, Order, Running, ListSound, RunsLiveTask

\* Two live tasks with the same elder tasks are one task: followers are unique.
LEMMA FollowsOnce ==
    ASSUME Order, NEW t \in live, NEW u \in live, NEW v \in live,
           \/ older[v] = older[t] \cup {t} /\ older[v] = older[u] \cup {u}
           \/ older[t] = older[v] \cup {v} /\ older[u] = older[v] \cup {v}
           \/ older[t] = {} /\ older[u] = {}
           \/ older[t] \cup {t} = live /\ older[u] \cup {u} = live
    PROVE  t = u
  BY DEF Order

\* What new_task does to the order of the live tasks.
LEMMA NewTaskOrder ==
    ASSUME TypeOK, Order, NEW t \in Tasks, NewTask(t)
    PROVE  Order'
  BY DEF TypeOK, Order, NewTask, Created

\* new_task keeps a sound list sound (task.c:42-52).
LEMMA NewTaskSound ==
    ASSUME TypeOK, Order, ListSound, NEW t \in Tasks, NewTask(t)
    PROVE  ListSound'
<1> USE NullAssumption
<1> SUFFICES ASSUME sound PROVE ListSound'
    BY DEF ListSound, NewTask, Created
<1>1. /\ t \notin live /\ live' = live \cup {t} /\ task_tail' = t
      /\ older'[t] = live /\ \A u \in live : older'[u] = older[u]
      /\ stale' = stale \ {t}
    BY DEF NewTask, Created, TypeOK
<1>2. Youngest(t)' /\ task_tail' = t
    BY <1>1 DEF Youngest
<1>3. CASE live = {}
  <2>1. task_head = Null
      BY <1>3 DEF ListSound
  <2>2. task_head' = t /\ next'[t] = Null /\ prev'[t] = Null
      BY <2>1 DEF NewTask, Created, Poke
  <2> QED BY <1>1, <1>2, <1>3, <2>2 DEF ListSound, Oldest, Youngest
<1>4. CASE live # {}
  <2>1. Oldest(task_head) /\ Youngest(task_tail) /\ task_head # Null
      BY <1>4 DEF ListSound, Oldest, TypeOK
  <2>2. /\ task_head' = task_head
        /\ next'[t] = Null /\ next'[task_tail] = t
        /\ \A u \in live \ {task_tail} : next'[u] = next[u]
        /\ prev'[t] = task_tail
        /\ \A u \in live : prev'[u] = prev[u]
      BY <1>1, <2>1 DEF NewTask, Created, Poke, Youngest, TypeOK
  <2>3. Oldest(task_head)'
      BY <1>1, <2>1, <2>2 DEF Oldest
  <2>4. ASSUME NEW u \in live'
        PROVE  (IF next[u] = Null THEN Youngest(u) ELSE Follows(next[u], u))'
    <3>1. CASE u = t
        BY <1>2, <2>2, <3>1
    <3>2. CASE u = task_tail
        BY <1>1, <2>1, <2>2, <3>2 DEF Youngest, Follows
    <3>3. CASE u \in live \ {task_tail}
      <4>1. next[u] # Null
        <5>1. Youngest(u) => u = task_tail
            BY <2>1, <3>3, FollowsOnce DEF Youngest
        <5> QED BY <5>1, <3>3 DEF ListSound
      <4>2. Follows(next[u], u)
          BY <3>3, <4>1 DEF ListSound
      <4> QED BY <1>1, <2>2, <3>3, <4>1, <4>2 DEF Follows
    <3> QED BY <1>1, <3>1, <3>2, <3>3
  <2>5. ASSUME NEW u \in live' \ stale'
        PROVE  (IF prev[u] = Null THEN Oldest(u)
                                   ELSE prev[u] \in live /\ Follows(u, prev[u]))'
    <3>1. CASE u = t
        BY <1>1, <2>1, <2>2, <3>1 DEF Youngest, Follows, TypeOK
    <3>2. CASE u \in live \ stale
        BY <1>1, <2>2, <3>2 DEF ListSound, Follows, Oldest
    <3> QED BY <1>1, <3>1, <3>2
  <2> QED BY <1>1, <1>2, <2>2, <2>3, <2>4, <2>5 DEF ListSound
<1> QED BY <1>3, <1>4

LEMMA NewTaskType ==
    ASSUME TypeOK, NEW t \in Tasks, NewTask(t),
           current_task' \in Link, status' \in {"boot", "run", "panic", "wild"}
    PROVE  TypeOK'
  BY DEF TypeOK, NewTask, Created, Link, Poke

\* process_load_for_slot's failure (process.c:533-538) unlinks what new_task
\* linked: the list is as before.
LEMMA FailedLoadInv ==
    ASSUME IInv, NEW t \in Tasks, FailedLoad(t) PROVE IInv'
<1> USE NullAssumption
<1>1. TypeOK' /\ Order' /\ Running' /\ RunsLiveTask'
    BY DEF IInv, FailedLoad, TypeOK, Link, Poke, Order, Running, RunsLiveTask, history
<1>2. ASSUME sound PROVE ListSound'
  <2>1. Youngest(task_tail) /\ next[task_tail] = Null
    <3>1. Youngest(task_tail) /\ task_tail \in live
        BY <1>2 DEF IInv, ListSound, FailedLoad, Youngest, Oldest
    <3>2. Follows(next[task_tail], task_tail) => FALSE
        BY <3>1 DEF IInv, Order, Follows, Youngest
    <3> QED BY <1>2, <3>1, <3>2 DEF IInv, ListSound
  <2>2. t \notin live /\ \A u \in live : next'[u] = next[u] /\ prev'[u] = prev[u]
      BY <2>1 DEF FailedLoad, Poke, IInv, TypeOK
  <2> QED BY <1>2, <2>2
      DEF IInv, FailedLoad, ListSound, Follows, Oldest, Youngest, TypeOK, history
<1> QED BY <1>1, <1>2 DEF IInv, FailedLoad, ListSound, history

\* In a sound list of the tasks L, task_get_next (task.c:64-72) gives a live
\* task: the one after t in the ring.
LEMMA NextInRing ==
    ASSUME NEW links, NEW head, NEW L, NEW elders, NEW t \in L,
           head \in L, elders[head] = {},
           IF links[t] = Null THEN elders[t] \cup {t} = L
             ELSE links[t] \in L /\ elders[links[t]] = elders[t] \cup {t}
    PROVE  LET u == NextIn(links, head, t)
           IN  /\ u \in L
               /\ \/ elders[u] = elders[t] \cup {t}
                  \/ elders[u] = {} /\ elders[t] \cup {t} = L
  BY DEF NextIn

\* The same for the list of the current state.
LEMMA NextIsLive ==
    ASSUME IInv, sound, NEW t \in live
    PROVE  Scheduler!Succeeds(NextIn(next, task_head, t), t)
<1>1. /\ task_head \in live /\ older[task_head] = {}
      /\ IF next[t] = Null THEN older[t] \cup {t} = live
           ELSE next[t] \in live /\ older[next[t]] = older[t] \cup {t}
    BY DEF IInv, ListSound, Oldest, Youngest, Follows
<1> QED BY <1>1, NextInRing DEF Scheduler!Succeeds

\* task_next on a clock interrupt (idt.c:58-64).
LEMMA ClockInv == ASSUME IInv, Clock PROVE IInv'
<1> USE NullAssumption
<1>1. current_task \in live
    BY DEF IInv, Running, Clock
<1>2. TypeOK'
    BY <1>1 DEF IInv, Clock, TypeOK, Link, NextIn, history
<1>3. Order' /\ ListSound'
    BY DEF IInv, Clock, Order, ListSound, Oldest, Youngest, Follows, history
<1>4. Running' /\ RunsLiveTask'
  <2>1. sound => current_task' \in live
      BY <1>1, NextIsLive DEF Clock, Scheduler!Succeeds
  <2> QED BY <2>1 DEF IInv, Clock, Running, RunsLiveTask, history, TypeOK
<1> QED BY <1>2, <1>3, <1>4 DEF IInv

\* What the end of a task does to the order of the live tasks.
LEMMA RemoveOrder ==
    ASSUME TypeOK, Order, NEW t \in live, RemoveTask(t)
    PROVE  Order'
<1>1. live' = live \ {t} /\ \A u \in live' : older'[u] = older[u] \ {t}
    BY DEF RemoveTask, Removed, TypeOK
<1> QED BY <1>1 DEF Order

\* The follower of the task before t is the one after t, once t is gone.
LEMMA FollowsOver ==
    ASSUME TypeOK, Order, NEW t \in live, NEW u \in live, NEW p \in live,
           older[u] = older[t] \cup {t}, older[t] = older[p] \cup {p}
    PROVE  /\ p # t /\ u # t
           /\ older[u] \ {t} = (older[p] \ {t}) \cup {p}
  BY DEF Order

\* task_list_remove keeps a sound list sound when the back link of the task it
\* removes is right (task.c:74-95).
LEMMA RemoveSound ==
    ASSUME TypeOK, Order, ListSound, sound, NEW t \in live, t \notin stale,
           RemoveTask(t)
    PROVE  ListSound'
<1> USE NullAssumption
<1>1. /\ live' = live \ {t}
      /\ \A u \in live' : older'[u] = older[u] \ {t}
      /\ stale' = (stale \ {t}) \cup {u \in live : older[u] = older[t] \cup {t}}
      /\ \A u \in live' : prev'[u] = prev[u]
      /\ \A u \in live' : next'[u] = IF u = prev[t] THEN next[t] ELSE next[u]
      /\ task_head' = IF t = task_head THEN next[t] ELSE task_head
      /\ task_tail' = IF t = task_tail THEN prev[t] ELSE task_tail
    BY DEF RemoveTask, Removed, TypeOK, Poke
<1>2. /\ IF next[t] = Null THEN Youngest(t) ELSE Follows(next[t], t)
      /\ IF prev[t] = Null THEN Oldest(t) ELSE prev[t] \in live /\ Follows(t, prev[t])
      /\ Oldest(task_head) /\ Youngest(task_tail)
    BY DEF ListSound
<1>3. \A u \in live' : u \notin older[t] => t \in older[u]
    BY <1>1 DEF Order
<1>4. live' # {} => Oldest(task_head)'
  <2>1. CASE t = task_head
    <3>1. older[t] = {}
        BY <1>2, <2>1 DEF Oldest
    <3>2. CASE next[t] = Null
        BY <1>1, <1>2, <3>1, <3>2 DEF Youngest
    <3>3. CASE next[t] # Null
      <4>1. next[t] \in live /\ older[next[t]] = {t}
          BY <1>2, <3>1, <3>3 DEF Follows
      <4>2. next[t] # t
          BY <3>1, <4>1
      <4> QED BY <1>1, <2>1, <4>1, <4>2 DEF Oldest
    <3> QED BY <3>2, <3>3
  <2>2. CASE t # task_head
      BY <1>1, <1>2, <2>2 DEF Oldest
  <2> QED BY <2>1, <2>2
<1>5. live' # {} => Youngest(task_tail)'
  <2>1. CASE t = task_tail
    <3>1. older[t] \cup {t} = live /\ t \notin older[t]
        BY <1>2, <2>1 DEF Youngest, Order
    <3>2. CASE prev[t] = Null
        BY <1>1, <1>2, <3>1, <3>2 DEF Oldest
    <3>3. CASE prev[t] # Null
      <4>1. prev[t] \in live /\ older[t] = older[prev[t]] \cup {prev[t]}
          BY <1>2, <3>3 DEF Follows
      <4>2. prev[t] # t
          BY <3>1, <4>1
      <4>3. older[prev[t]] \cup {prev[t]} = live \ {t}
          BY <3>1, <4>1
      <4>4. task_tail' = prev[t] /\ prev[t] \in live'
          BY <1>1, <2>1, <4>1, <4>2
      <4>5. older'[prev[t]] = older[prev[t]] \ {t}
          BY <1>1, <4>4
      <4> QED BY <1>1, <4>3, <4>4, <4>5 DEF Youngest
    <3> QED BY <3>2, <3>3
  <2>2. CASE t # task_tail
      BY <1>1, <1>2, <2>2 DEF Youngest
  <2> QED BY <2>1, <2>2
<1>6. live' = {} => task_head' = Null /\ task_tail' = Null
  <2> SUFFICES ASSUME live' = {} PROVE task_head' = Null /\ task_tail' = Null
      OBVIOUS
  <2>1. live = {t} /\ t = task_head /\ t = task_tail
      BY <1>1, <1>2 DEF Oldest, Youngest
  <2>2. next[t] = Null
      BY <1>2, <2>1 DEF Follows, Order
  <2>3. prev[t] = Null
      BY <1>2, <2>1 DEF Follows, Order
  <2> QED BY <1>1, <2>1, <2>2, <2>3
<1>7. ASSUME NEW v \in live'
      PROVE  (IF next[v] = Null THEN Youngest(v) ELSE Follows(next[v], v))'
  <2>0. v \in live /\ v # t
      BY <1>1
  <2>1. CASE v = prev[t]
    <3>1. older[t] = older[v] \cup {v} /\ next'[v] = next[t]
        BY <1>1, <1>2, <2>0, <2>1, NullAssumption DEF Follows, TypeOK
    <3>2. CASE next[t] = Null
        BY <1>1, <1>2, <2>0, <3>1, <3>2 DEF Youngest, Order
    <3>3. CASE next[t] # Null
      <4>1. next[t] \in live /\ older[next[t]] = older[t] \cup {t}
          BY <1>2, <3>3 DEF Follows
      <4>2. next[t] # t /\ older[next[t]] \ {t} = (older[v] \ {t}) \cup {v}
          BY <2>0, <3>1, <4>1, FollowsOver
      <4> QED BY <1>1, <2>0, <3>1, <3>3, <4>1, <4>2 DEF Follows
    <3> QED BY <3>2, <3>3
  <2>2. CASE v # prev[t]
    <3>1. next'[v] = next[v]
        BY <1>1, <2>2
    <3>2. CASE next[v] = Null
      <4>1. older[v] \cup {v} = live
          BY <2>0, <3>2 DEF ListSound, Youngest
      <4> QED BY <1>1, <3>1, <3>2, <4>1 DEF Youngest
    <3>3. CASE next[v] # Null
      <4>1. next[v] \in live /\ older[next[v]] = older[v] \cup {v}
          BY <2>0, <3>3 DEF ListSound, Follows
      <4>2. next[v] # t
        <5> SUFFICES ASSUME next[v] = t PROVE FALSE
            OBVIOUS
        <5>1. older[t] = older[v] \cup {v}
            BY <4>1
        <5>2. prev[t] \in live /\ older[t] = older[prev[t]] \cup {prev[t]}
            BY <1>2, <5>1 DEF Oldest, Follows
        <5> QED BY <2>0, <2>2, <5>1, <5>2, FollowsOnce
      <4> QED BY <1>1, <3>1, <3>3, <4>1, <4>2 DEF Follows
    <3> QED BY <3>2, <3>3
  <2> QED BY <2>1, <2>2
<1>8. ASSUME NEW v \in live' \ stale'
      PROVE  (IF prev[v] = Null THEN Oldest(v) ELSE prev[v] \in live /\ Follows(v, prev[v]))'
  <2>0. v \in live \ stale /\ v # t /\ older[v] # older[t] \cup {t}
      BY <1>1
  <2>1. prev'[v] = prev[v]
      BY <1>1
  <2>2. CASE prev[v] = Null
      BY <1>1, <2>0, <2>1, <2>2 DEF ListSound, Oldest
  <2>3. CASE prev[v] # Null
    <3>1. prev[v] \in live /\ older[v] = older[prev[v]] \cup {prev[v]}
        BY <2>0, <2>3 DEF ListSound, Follows
    <3>2. prev[v] # t
        BY <2>0, <3>1
    <3> QED BY <1>1, <2>0, <2>1, <2>3, <3>1, <3>2 DEF Follows
  <2> QED BY <2>2, <2>3
<1> QED BY <1>4, <1>5, <1>6, <1>7, <1>8 DEF ListSound

\* Where task_list_remove leaves the current task, and what task_next makes of
\* it (task.c:91-94, 107-117): a live task, if one is left.
LEMMA ExitRunsLive ==
    ASSUME IInv, sound, status = "run", current_task \notin stale,
           RemoveTask(current_task)
    PROVE  LET moved == NextIn(next', task_head', current_task)
           IN  /\ live' = {} => moved = Null
               /\ live' # {} => /\ moved \in live'
                                /\ NextIn(next', task_head', moved) \in live'
<1> USE NullAssumption
<1> DEFINE t == current_task
           moved == NextIn(next', task_head', t)
<1>0. t \in live /\ TypeOK /\ Order /\ ListSound
    BY DEF IInv, Running
<1>1. ListSound' /\ sound'
    BY <1>0, RemoveSound DEF RemoveTask, Removed
<1>2. live' = live \ {t} /\ task_head' = IF t = task_head THEN next[t] ELSE task_head
    BY DEF RemoveTask, Removed
<1>3. next'[t] = next[t]
  <2>1. prev[t] # t
      BY <1>0 DEF ListSound, Follows, Order, TypeOK
  <2> QED BY <1>0, <2>1 DEF RemoveTask, Removed, Poke, TypeOK
<1>4. IF next[t] = Null THEN Youngest(t) ELSE next[t] \in live /\ next[t] # t
    BY <1>0 DEF ListSound, Follows, Order
<1>5. task_head \in live /\ older[task_head] = {}
    BY <1>0 DEF ListSound, Oldest
<1>6. ASSUME live' = {} PROVE moved = Null
  <2>1. task_head' = Null
      BY <1>1, <1>6 DEF ListSound
  <2>2. next[t] = Null
      BY <1>2, <1>4, <1>6
  <2> QED BY <1>3, <2>1, <2>2 DEF NextIn
<1>7. ASSUME live' # {} PROVE moved \in live'
  <2>1. task_head' \in live'
      BY <1>1, <1>7 DEF ListSound, Oldest
  <2> QED BY <1>2, <1>3, <1>4, <2>1 DEF NextIn
<1>8. ASSUME live' # {} PROVE NextIn(next', task_head', moved) \in live'
  <2>1. moved \in live'
      BY <1>7, <1>8
  <2> HIDE DEF moved
  <2>2. task_head' \in live' /\ older'[task_head'] = {}
      BY <1>1, <1>8 DEF ListSound, Oldest
  <2>3. IF next'[moved] = Null THEN older'[moved] \cup {moved} = live'
          ELSE next'[moved] \in live' /\ older'[next'[moved]] = older'[moved] \cup {moved}
      BY <1>1, <2>1 DEF ListSound, Youngest, Follows
  <2> QED BY <2>1, <2>2, <2>3 DEF NextIn
<1> QED BY <1>6, <1>7, <1>8

\* The end of the running task: process_terminate and task_next.
LEMMA TerminateInv == ASSUME IInv, Terminate PROVE IInv'
<1> USE NullAssumption
<1> DEFINE t == current_task
<1>1. t \in live /\ RemoveTask(t) /\ status = "run" /\ Null \notin live
    BY DEF IInv, Running, Terminate, TypeOK
<1>2. TypeOK'
  <2>1. /\ next' \in [Tasks -> Link] /\ prev' \in [Tasks -> Link]
        /\ task_head' \in Link /\ task_tail' \in Link
      BY <1>1 DEF IInv, TypeOK, RemoveTask, Removed, Poke, Link
  <2>2. live' \subseteq Tasks /\ older' \in [Tasks -> SUBSET live']
      BY <1>1 DEF IInv, TypeOK, RemoveTask, Removed
  <2>3. stale' \subseteq live' /\ sound' \in BOOLEAN
    <3>1. t \notin older[t]
        BY <1>1 DEF IInv, Order
    <3>2. t \notin {u \in live : older[u] = older[t] \cup {t}}
        BY <3>1
    <3> QED BY <1>1, <3>2 DEF IInv, TypeOK, RemoveTask, Removed
  <2>4. \A x \in Tasks : NextIn(next', task_head', x) \in Link
      BY <2>1 DEF NextIn, Link
  <2>5. NextIn(next', task_head', t) \in Link
      BY <1>1, <2>1, <2>4 DEF IInv, TypeOK, Link, NextIn
  <2>6. current_task' \in Link
      BY <1>1, <2>2, <2>4, <2>5 DEF Terminate, Link
  <2>7. status' \in {"boot", "run", "panic", "wild"}
      BY DEF Terminate
  <2> QED BY <2>1, <2>2, <2>3, <2>6, <2>7 DEF TypeOK
<1>3. Order'
    BY <1>1, RemoveOrder DEF IInv
<1>4. sound' => sound /\ t \notin stale
    BY <1>1 DEF RemoveTask, Removed
<1>5. ListSound'
    BY <1>1, <1>4, RemoveSound DEF IInv, ListSound
<1>6. Running'
    BY DEF Terminate, Running
<1>7. RunsLiveTask'
    BY <1>1, <1>4, ExitRunsLive, <1>2 DEF Terminate, RunsLiveTask, TypeOK
<1> QED BY <1>2, <1>3, <1>5, <1>6, <1>7 DEF IInv

\* A program that is loaded, and runs at once or not (isr80h/process.c:9-69).
LEMMA LoadInv ==
    ASSUME IInv, NEW t \in Tasks, Boot(t) \/ StartProgram(t) \/ LoadProgram(t)
    PROVE  IInv'
<1> USE NullAssumption
<1>1. NewTask(t) /\ status' = "run" /\ t \in live' /\ live \subseteq live'
    BY DEF Boot, StartProgram, LoadProgram, NewTask, Created
<1>2. current_task' \in live'
    BY <1>1 DEF Boot, StartProgram, LoadProgram, NewTask, Created, IInv, Running
<1>3. TypeOK'
  <2>1. current_task' \in Link
      BY <1>1, <1>2 DEF NewTask, Created, IInv, TypeOK, Link
  <2> QED BY <1>1, <2>1, NewTaskType DEF IInv
<1>4. Order' /\ ListSound'
    BY <1>1, NewTaskOrder, NewTaskSound DEF IInv
<1>5. Running' /\ RunsLiveTask'
    BY <1>1, <1>2 DEF Running, RunsLiveTask
<1> QED BY <1>3, <1>4, <1>5 DEF IInv

LEMMA StepInv == IInv /\ [Next]_vars => IInv'
<1>1. IInv /\ UNCHANGED vars => IInv'
    BY DEF IInv, vars, TypeOK, Order, Running, ListSound, RunsLiveTask, Oldest,
           Youngest, Follows
<1> QED BY <1>1, LoadInv, FailedLoadInv, ClockInv, TerminateInv DEF Next

\* The inductive invariant of the scheduler.
THEOREM TaskListInvariant == Spec => []IInv
  BY InitInv, StepInv, PTL DEF Spec

\* Types, for any number of tasks.
THEOREM TaskListTypeCorrect == Spec => []TypeOK
<1>1. IInv => TypeOK
    BY DEF IInv
<1> QED BY TaskListInvariant, <1>1, PTL

\* The list holds the live tasks in order, until a task is removed whose left
\* neighbour went before it (task.c:26-95).
THEOREM TaskListIsSound == Spec => []ListSound
<1>1. IInv => ListSound
    BY DEF IInv
<1> QED BY TaskListInvariant, <1>1, PTL

\* Until then the processor is given to live tasks only (task.c:107-124).
THEOREM OnlyLiveTasksRun == Spec => []RunsLiveTask
<1>1. IInv => RunsLiveTask
    BY DEF IInv
<1> QED BY TaskListInvariant, <1>1, PTL

\* And until then the list is a round-robin scheduler.
THEOREM TaskListRefinesRoundRobin == Spec => KeepsPromise
<1> USE NullAssumption
<1>1. Init => Scheduler!Init
    BY DEF Init, Scheduler!Init
<1>2. IInv /\ [Next]_vars => [Scheduler!Next]_Scheduler!vars
  <2> SUFFICES ASSUME IInv, [Next]_vars, sound', sound' \in BOOLEAN
               PROVE  [Scheduler!Next]_Scheduler!vars
    <3>1. IInv /\ [Next]_vars => sound' \in BOOLEAN
        BY StepInv DEF IInv, TypeOK
    <3> QED BY <3>1 DEF Scheduler!Next, Scheduler!Withdraw
  <2>1. ASSUME NEW t \in Tasks, Boot(t) \/ StartProgram(t) \/ LoadProgram(t)
        PROVE  Scheduler!Spawn(t) /\ sound' = sound
    <3>1. NewTask(t)
        BY <2>1 DEF Boot, StartProgram, LoadProgram
    <3>2. current_task' = t \/ (live # {} /\ current_task' = current_task)
        BY <2>1 DEF Boot, StartProgram, LoadProgram, NewTask, Created, IInv, Running
    <3> QED BY <3>1, <3>2 DEF NewTask, Created, Scheduler!Spawn
  <2>2. ASSUME NEW t \in Tasks, FailedLoad(t) PROVE UNCHANGED Scheduler!vars
      BY <2>2 DEF FailedLoad, Scheduler!vars, history
  <2>3. ASSUME Clock PROVE Scheduler!Tick /\ sound' = sound
    <3>1. Scheduler!Succeeds(NextIn(next, task_head, current_task), current_task)
        BY <2>3, NextIsLive DEF Clock, history, IInv, Running
    <3> QED BY <2>3, <3>1 DEF Clock, Scheduler!Tick, Scheduler!Succeeds, history
  <2>4. ASSUME Terminate PROVE Scheduler!Exit /\ sound' = sound
    <3>1. /\ current_task \in live /\ RemoveTask(current_task) /\ status = "run"
          /\ sound /\ current_task \notin stale /\ sound' = sound
        BY <2>4 DEF Terminate, IInv, Running, RemoveTask, Removed, TypeOK
    <3>2. current_task' \in live' \/ (live' = {} /\ current_task' = Null)
        BY <2>4, <3>1, ExitRunsLive DEF Terminate, IInv
    <3> QED BY <3>1, <3>2 DEF RemoveTask, Removed, Scheduler!Exit
  <2>5. UNCHANGED vars => UNCHANGED Scheduler!vars
      BY DEF vars, Scheduler!vars
  <2> QED BY <2>1, <2>2, <2>3, <2>4, <2>5 DEF Next, Scheduler!Next
<1> QED BY TaskListInvariant, <1>1, <1>2, PTL DEF Spec, KeepsPromise, Scheduler!Spec
=============================================================================
