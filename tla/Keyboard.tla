------------------------------ MODULE Keyboard ------------------------------
(***************************************************************************)
(* Keys from the interrupt to the programs: the scan codes of the classic   *)
(* keyboard (drivers/keyboard/classic.c), the ring in each process_t        *)
(* (drivers/keyboard/keyboard.c) and the process table with its focus       *)
(* (task/process.c).  The kernel runs with interrupts off, so an interrupt  *)
(* and a system call are one step each.                                     *)
(***************************************************************************)
EXTENDS Integers, Sequences

CONSTANTS
    MAX_PROCESSES,      \* slots of the process table
    BufferSize,         \* KEYBOARD_BUFFER_SIZE
    Word,               \* 2^32, where head and tail wrap
    Letters,            \* scan codes of letters: the character depends on caps lock
    Symbols             \* scan codes of the other characters

ASSUME SizeAssumption ==
    /\ MAX_PROCESSES \in Nat \ {0}
    /\ BufferSize \in Nat \ {0}
    /\ Word \in Nat \ {0}
    /\ Word % BufferSize = 0

\* A key whose character is 0 is not pushed (classic.c:81-84).
ASSUME ZeroAssumption == "0" \notin Letters \cup Symbols

VARIABLES
    processes,          \* the occupied slots; a process is known by its slot
    current_process,    \* the process with the focus, or NoProcess
    buffer, head, tail, \* process_t.keyboard, by slot
    capslock_state,     \* TRUE when on
    panicked,
    unread,             \* history: the keys pushed to each process and not read
    overrun             \* history: processes whose ring has been overrun

ring == <<buffer, head, tail>>
vars == <<processes, current_process, buffer, head, tail, capslock_state,
          panicked, unread, overrun>>

Slots == 0..(MAX_PROCESSES - 1)
NoProcess == -1
Cells == 0..(BufferSize - 1)

\* Characters: a letter is upper or lower case, "0" is the byte 0.
Char(code, upper) == [code |-> code, upper |-> upper]
Zero == Char("0", FALSE)
Chars == {c \in [code : Letters \cup Symbols, upper : BOOLEAN] : c.upper => c.code \in Letters}

Lowest(slots) == CHOOSE p \in slots : \A q \in slots : p <= q

Cleared(p) ==
    /\ buffer' = [buffer EXCEPT ![p] = [c \in Cells |-> Zero]]
    /\ head' = [head EXCEPT ![p] = 0]
    /\ tail' = [tail EXCEPT ![p] = 0]
    /\ unread' = [unread EXCEPT ![p] = <<>>]
    /\ overrun' = overrun \ {p}

\* What the history records of a key pushed, and of one read.
Pushed(p, c) ==
    IF p \in overrun \/ Len(unread[p]) = BufferSize
      THEN /\ overrun' = overrun \cup {p}
           /\ unread' = [unread EXCEPT ![p] = <<>>]
      ELSE /\ unread' = [unread EXCEPT ![p] = Append(@, c)]
           /\ UNCHANGED overrun
Popped(p) ==
    /\ unread' = [unread EXCEPT ![p] = IF p \in overrun THEN <<>> ELSE Tail(@)]
    /\ UNCHANGED overrun

\* start_kernel: keyboard_init, then process_load_switch of the shell
Init ==
    /\ processes = {0}
    /\ current_process = 0
    /\ buffer = [p \in Slots |-> [c \in Cells |-> Zero]]
    /\ head = [p \in Slots |-> 0]
    /\ tail = [p \in Slots |-> 0]
    /\ capslock_state = FALSE
    /\ panicked = FALSE
    /\ unread = [p \in Slots |-> <<>>]
    /\ overrun = {}

\* Mutant: the key is put where the next one is read.
PushAtHead(c) ==
    LET p == current_process
    IN  /\ p # NoProcess
        /\ buffer' = [buffer EXCEPT ![p][head[p] % BufferSize] = c]
        /\ tail' = [tail EXCEPT ![p] = (@ + 1) % Word]
        /\ Pushed(p, c)

\* keyboard_push: the key goes to the process with the focus, over whatever is
\* in the cell at tail
Push(c) ==
    LET p == current_process
        i == tail[p] % BufferSize
    IN  IF p = NoProcess
          THEN UNCHANGED <<buffer, tail, unread, overrun>>
          ELSE /\ buffer' = [buffer EXCEPT ![p][i] = c]
               /\ tail' = [tail EXCEPT ![p] = (@ + 1) % Word]
               /\ Pushed(p, c)

\* classic_keyboard_handle_interrupt, for the scan code of a character
KeyPressed ==
    /\ ~panicked
    /\ \/ \E s \in Letters : Push(Char(s, capslock_state))
       \/ \E s \in Symbols : Push(Char(s, FALSE))
    /\ UNCHANGED <<processes, current_process, head, capslock_state, panicked>>

\* The same for scan code 84, the one past the end of keyboard_scan_set_one
\* (classic.c:48-53): whatever byte lies there is pushed, unless it is 0.
KeyPastTable ==
    /\ ~panicked
    /\ \E c \in Chars : Push(c)
    /\ UNCHANGED <<processes, current_process, head, capslock_state, panicked>>

\* The same for CLASSIC_KEYBOARD_CAPSLOCK, whose character is 0.
CapsLockPressed ==
    /\ ~panicked
    /\ capslock_state' = ~capslock_state
    /\ UNCHANGED <<processes, current_process, ring, panicked, unread, overrun>>

\* Mutants: the cell keeps the key that was read; the head stays on its cell.
GetKeyKeepsCell(p) ==
    /\ ~panicked
    /\ p \in processes
    /\ buffer[p][head[p] % BufferSize] # Zero
    /\ head' = [head EXCEPT ![p] = (@ + 1) % Word]
    /\ Popped(p)
    /\ UNCHANGED <<processes, current_process, buffer, tail, capslock_state, panicked>>

GetKeyKeepsHead(p) ==
    /\ ~panicked
    /\ p \in processes
    /\ buffer[p][head[p] % BufferSize] # Zero
    /\ buffer' = [buffer EXCEPT ![p][head[p] % BufferSize] = Zero]
    /\ Popped(p)
    /\ UNCHANGED <<processes, current_process, head, tail, capslock_state, panicked>>

\* isr80h_io_cmd_getkey: keyboard_pop for the process of the running task
GetKey(p) ==
    LET i == head[p] % BufferSize
    IN  /\ ~panicked
        /\ p \in processes
        /\ buffer[p][i] # Zero
        /\ buffer' = [buffer EXCEPT ![p][i] = Zero]
        /\ head' = [head EXCEPT ![p] = (@ + 1) % Word]
        /\ Popped(p)
        /\ UNCHANGED <<processes, current_process, tail, capslock_state, panicked>>

\* process_load_switch: the lowest free slot, a zeroed process_t, the focus
LoadSwitch ==
    /\ ~panicked
    /\ Slots \ processes # {}
    /\ LET p == Lowest(Slots \ processes)
       IN  /\ processes' = processes \cup {p}
           /\ current_process' = p
           /\ Cleared(p)
    /\ UNCHANGED <<capslock_state, panicked>>

\* Mutants: the focus goes to no process; the focus stays.
UnlinkToNobody(p) ==
    /\ ~panicked
    /\ p \in processes
    /\ processes' = processes \ {p}
    /\ current_process' = IF current_process = p THEN NoProcess ELSE current_process
    /\ Cleared(p)
    /\ UNCHANGED <<capslock_state, panicked>>

UnlinkKeepsFocus(p) ==
    /\ ~panicked
    /\ p \in processes
    /\ processes' = processes \ {p}
    /\ Cleared(p)
    /\ UNCHANGED <<current_process, capslock_state, panicked>>

\* process_unlink at the end of process_terminate: the focus, if the process
\* had it, goes to the lowest slot in use
Unlink(p) ==
    /\ ~panicked
    /\ p \in processes
    /\ processes' = processes \ {p}
    /\ IF current_process # p THEN UNCHANGED <<current_process, panicked>>
       ELSE IF processes' = {} THEN panicked' = TRUE /\ UNCHANGED current_process
       ELSE current_process' = Lowest(processes') /\ UNCHANGED panicked
    /\ Cleared(p)
    /\ UNCHANGED capslock_state

Next ==
    \/ KeyPressed \/ KeyPastTable \/ CapsLockPressed \/ LoadSwitch
    \/ \E p \in Slots : GetKey(p) \/ Unlink(p)

\* A program that waits for keys polls (sys_getkeyblock), and gets the
\* processor again and again.
Fairness == \A p \in Slots : WF_vars(GetKey(p))

Spec == Init /\ [][Next]_vars /\ Fairness
-----------------------------------------------------------------------------
TypeOK ==
    /\ processes \subseteq Slots
    /\ current_process \in Slots
    /\ buffer \in [Slots -> [Cells -> Chars \cup {Zero}]]
    /\ head \in [Slots -> 0..(Word - 1)]
    /\ tail \in [Slots -> 0..(Word - 1)]
    /\ capslock_state \in BOOLEAN /\ panicked \in BOOLEAN
    /\ unread \in [Slots -> Seq(Chars)]
    /\ \A p \in Slots : Len(unread[p]) <= BufferSize
    /\ overrun \subseteq processes

\* The ring holds exactly the keys not read yet, in order from head, with
\* zeroes elsewhere, across every wrap of head and tail: keyboard_pop, which
\* looks at one cell only, misses no key and returns none twice
\* (keyboard.c:63-100).
RingHoldsUnread ==
    \A p \in processes \ overrun :
        /\ (tail[p] - head[p]) % BufferSize = Len(unread[p]) % BufferSize
        /\ \A i \in 0..(BufferSize - 1) :
              buffer[p][(head[p] + i) % BufferSize] =
                  IF i < Len(unread[p]) THEN unread[p][i + 1] ELSE Zero

\* While the kernel runs, the focus is on a process that exists, so that
\* keyboard_push never writes into a process that was terminated.
FocusExists == ~panicked => current_process \in processes

\* The keys keyboard_pop would return one after the other before it returns 0.
Waiting(p) ==
    LET Cell(i) == buffer[p][(head[p] + i) % BufferSize]
        n == CHOOSE n \in 0..BufferSize :
                /\ \A i \in 0..(n - 1) : Cell(i) # Zero
                /\ n = BufferSize \/ Cell(n) = Zero
    IN  [i \in 1..n |-> Cell(i - 1)]

\* Rings, process table and focus implement one queue of keys per program: a key
\* goes to the live program with the focus and to no other, what a program pops is
\* its oldest key, a program that starts finds no keys of the one before it in its
\* slot, and nothing but a full ring breaks this (keyboard.c:63-100,
\* process.c:166-188, 447-471).
Queues == INSTANCE KeyQueues
             WITH Programs <- Slots, Keys <- Chars, Capacity <- BufferSize, First <- 0,
                  live <- processes, focus <- current_process, broken <- overrun,
                  queue <- [p \in Slots |-> Waiting(p)]
KeepsPromise == Queues!Spec

\* A program that polls either gets one key after another, or has read all, or
\* its ring was overrun, or it ended.
KeysArrive ==
    \A p \in Slots :
        \/ []<><<head'[p] # head[p] /\ p \in processes'>>_vars
        \/ []<>(unread[p] = <<>>)
        \/ []<>(p \in overrun)
=============================================================================
