---------------------------- MODULE ProcessMemory ----------------------------
(***************************************************************************)
(* The memory of processes (task/process.c, loaders/elf/loader.c) over the  *)
(* kernel heap: what loading a program takes, what malloc and free of a     *)
(* program do to its allocation slots and to its page directory, and what   *)
(* the end of a process gives back.  The kernel runs with interrupts off:   *)
(* each system call is one step.  A page has the size of a block, and the   *)
(* page that starts a block has its number; pages behind the table have the *)
(* numbers that follow.                                                     *)
(*                                                                          *)
(* The parts of a process are the heap objects a load takes: "process" is   *)
(* the process_t, "elf" the elf_file_t, "image" the contents of the file,   *)
(* "stack" the user stack, "task" the task_t with its directory and tables. *)
(* Loads where an allocation the code does not check fails are left out.    *)
(***************************************************************************)
EXTENDS HeapTable, Sequences

CONSTANTS
    Procs,              \* the slots of the process table
    PartBlocks,         \* how many blocks each part but the image takes
    ImageBlocks,        \* how many blocks the contents of a file take
    Segments,           \* the pages that the writable segments of a file cover,
                        \* counted from the start of its contents
    AllocSlots,         \* MAX_PROGRAM_ALLOCATIONS
    Sizes,              \* the sizes programs ask malloc for
    HeapAddress         \* HEAP_ADDRESS

Parts == {"process", "elf", "image", "stack", "task"}

ASSUME PartsAssumption ==
    /\ PartBlocks \in [Parts \ {"image"} -> Nat \ {0}]
    /\ ImageBlocks \subseteq Nat
    /\ Segments \subseteq SUBSET Nat
    /\ AllocSlots \in Nat \ {0}
    /\ Sizes \subseteq 0..(Word - 1)
    /\ HeapAddress \in Nat

VARIABLES
    entries,            \* the table of the kernel heap
    live,               \* the processes in the process table
    part,               \* [ptr, len] of each part of each process
    segments,           \* the pages of its image that a process's file declares
                        \* writable
    alloc,              \* process_t.allocations: [ptr, len], len in blocks
    writable,           \* the pages the page directory of a process maps writable,
                        \* at the addresses of its program and at their own
    lost,               \* history: blocks nothing will give back, of programs that
                        \* were loaded
    kept,               \* history: the same, of loads that failed
    stray               \* history: memory of somebody else was freed through the
                        \* pointer of an empty request, or overwritten by one that
                        \* reaches the end of the address space

vars == <<entries, live, part, segments, alloc, writable, lost, kept, stray>>

Slots == 1..AllocSlots
Nothing == [ptr |-> NoBlock, len |-> 0]
Object == [ptr : Blocks \cup {NoBlock}, len : Nat]

\* The pages of an object, and the blocks of the table it lies in.
Pages(obj) == IF obj.ptr = NoBlock THEN {} ELSE obj.ptr..(obj.ptr + obj.len - 1)
Span(obj) == Blocks \cap Pages(obj)

\* heap_get_start_block: its answer is unique (StartBlockIsUnique)
StartBlock(table, n) ==
    CHOOSE s \in Blocks \cup {NoBlock} : IsStartBlock(FreeBlocks(table), n, s)

\* Mutant of the next operator: the pointer is to the end of the window.
GrantEnd(acc, n) ==
    LET s == StartBlock(acc.table, n)
    IN  IF acc.failed \/ s = NoBlock THEN [acc EXCEPT !.failed = TRUE]
        ELSE [acc EXCEPT !.table = MarkTaken(acc.table, s, n),
                         !.at = Append(acc.at, [ptr |-> s + n, len |-> n])]

\* kernel_zalloc of n blocks, if the requests before it were granted
Grant(acc, n) ==
    LET s == StartBlock(acc.table, n)
    IN  IF acc.failed \/ s = NoBlock THEN [acc EXCEPT !.failed = TRUE]
        ELSE [acc EXCEPT !.table = MarkTaken(acc.table, s, n),
                         !.at = Append(acc.at, [ptr |-> s, len |-> n])]

\* kernel_zalloc of the sizes ns, one after the other, until one fails
GrantAll(table, ns) ==
    LET after[i \in 0..Len(ns)] ==
            IF i = 0 THEN [table |-> table, at |-> <<>>, failed |-> FALSE]
            ELSE Grant(after[i - 1], ns[i])
    IN  after[Len(ns)]

\* kernel_free of the given objects, one after the other
FreeAll(table, objs) ==
    LET after[i \in 0..Len(objs)] ==
            IF i = 0 THEN table
            ELSE IF objs[i].ptr = NoBlock THEN after[i - 1]
            ELSE MarkFree(after[i - 1], objs[i].ptr)
    IN  after[Len(objs)]

\* kernel_free of an object that has no block: what it points to is in use.
Strays(table, obj) == obj.ptr # NoBlock /\ obj.len = 0 /\ table[obj.ptr].taken

\* kernel_zalloc clears what it was asked for, which may reach the last page of
\* the address space and go on at its start.
ReachesTop(s, bytes) == HeapAddress + s * BlockSize + bytes > Word - BlockSize

Init ==
    /\ entries = [b \in Blocks |-> FreeEntry]
    /\ live = {}
    /\ part = [p \in Procs |-> [x \in Parts |-> Nothing]]
    /\ segments = [p \in Procs |-> {}]
    /\ alloc = [p \in Procs |-> [i \in Slots |-> Nothing]]
    /\ writable = [p \in Procs |-> [program |-> {}, heap |-> {}]]
    /\ lost = {}
    /\ kept = {}
    /\ stray = FALSE

\* The requests of a load up to the contents of the file, by elf_load; and up to
\* their second copy, by process_load_binary when elf_load refused the format.
ReadElf(n) == <<PartBlocks["process"], PartBlocks["elf"], n>>
ReadBinary(n) == ReadElf(n) \o <<n>>
StackAndTask == <<PartBlocks["stack"], PartBlocks["task"]>>

SegmentPages(image, offsets) == {image.ptr + k : k \in offsets}

\* The process is in the table with these parts, its writable segments and its
\* stack mapped (process_map_memory).
Loaded(p, parts, offsets) ==
    /\ live' = live \cup {p}
    /\ part' = [part EXCEPT ![p] = parts]
    /\ segments' = [segments EXCEPT ![p] = offsets]
    /\ alloc' = [alloc EXCEPT ![p] = [i \in Slots |-> Nothing]]
    /\ writable' = [writable EXCEPT ![p] =
            [program |-> SegmentPages(parts["image"], offsets) \cup Pages(parts["stack"]),
             heap |-> {}]]

\* process_load_for_slot of an ELF file with these writable pages, which may lie
\* behind its contents (p_memsz is not compared with the size of the file)
LoadElf(p, n, offsets) ==
    LET got == GrantAll(entries, ReadElf(n) \o StackAndTask)
    IN  /\ p \notin live
        /\ ~got.failed
        /\ entries' = got.table
        /\ Loaded(p, [x \in Parts |->
                CASE x = "process" -> got.at[1] [] x = "elf" -> got.at[2]
                  [] x = "image" -> got.at[3] [] x = "stack" -> got.at[4]
                  [] x = "task" -> got.at[5]], offsets)
        /\ UNCHANGED <<lost, kept, stray>>

\* The same for another file: elf_load has refused its format and keeps its
\* elf_file_t and its copy, then process_load_binary reads the file again.
LoadBinary(p, n) ==
    LET got == GrantAll(entries, ReadBinary(n) \o StackAndTask)
    IN  /\ p \notin live
        /\ ~got.failed
        /\ entries' = got.table
        /\ Loaded(p, [x \in Parts |->
                CASE x = "process" -> got.at[1] [] x = "elf" -> Nothing
                  [] x = "image" -> got.at[4] [] x = "stack" -> got.at[5]
                  [] x = "task" -> got.at[6]], 0..(n - 1))
        /\ lost' = lost \cup Span(got.at[2]) \cup Span(got.at[3])
        /\ UNCHANGED <<kept, stray>>

\* A load ends with an error and with these objects taken: none is freed.
Keeps(objs) ==
    /\ kept' = kept \cup UNION {Span(objs[i]) : i \in DOMAIN objs}
    /\ UNCHANGED <<live, part, segments, alloc, writable, lost, stray>>

\* elf_load cannot open the file
FailedOpen(p) ==
    LET got == GrantAll(entries, <<PartBlocks["process"], PartBlocks["elf"]>>)
    IN  /\ p \notin live
        /\ ~got.failed
        /\ entries' = got.table
        /\ Keeps(got.at)

\* elf_load cannot read the file; or it refuses the format, and then the file
\* cannot be opened again or there is no memory for it; or there is none for the
\* stack of an ELF file
FailedRead(p, n) ==
    LET got == GrantAll(entries, ReadElf(n))
    IN  /\ p \notin live
        /\ ~got.failed
        /\ entries' = got.table
        /\ Keeps(got.at)

\* process_load_binary cannot read the file and frees its own copy
FailedBinary(p, n) ==
    LET got == GrantAll(entries, ReadBinary(n))
    IN  /\ p \notin live
        /\ ~got.failed
        /\ entries' = MarkFree(got.table, got.at[4].ptr)
        /\ Keeps([i \in 1..3 |-> got.at[i]])

\* there is no memory for the stack of a flat binary
FailedStack(p, n) ==
    LET got == GrantAll(entries, ReadBinary(n))
    IN  /\ p \notin live
        /\ ~got.failed
        /\ StartBlock(got.table, PartBlocks["stack"]) = NoBlock
        /\ entries' = got.table
        /\ Keeps(got.at)

\* process_map_elf refuses a segment, one that reaches the end of the address
\* space: the task is freed
FailedMap(p, n) ==
    LET got == GrantAll(entries, ReadElf(n) \o StackAndTask)
    IN  /\ p \notin live
        /\ ~got.failed
        /\ entries' = MarkFree(got.table, got.at[5].ptr)
        /\ Keeps([i \in 1..4 |-> got.at[i]])

\* The slots of p with this pointer, the first one being what process_free and
\* process_get_allocation_by_addr find.
Joined(p, b) == {i \in Slots : alloc[p][i].ptr = b}
First(slots) == CHOOSE i \in slots : \A j \in slots : i <= j

\* process_malloc, by the malloc system call or process_inject_arguments; if
\* every slot is taken, the memory is given back at once.  A request of no bytes
\* maps no page and owns no block.
ProcessMalloc(p, bytes) ==
    LET got == GrantAll(entries, <<BlocksFor(bytes)>>)
    IN  /\ p \in live
        /\ ~got.failed
        /\ IF Joined(p, NoBlock) = {}
             THEN /\ entries' = MarkFree(got.table, got.at[1].ptr)
                  /\ UNCHANGED <<alloc, writable>>
             ELSE /\ entries' = got.table
                  /\ alloc' = [alloc EXCEPT ![p][First(Joined(p, NoBlock))] = got.at[1]]
                  /\ writable' = [writable EXCEPT ![p].heap = @ \cup Pages(got.at[1])]
        /\ stray' = ReachesTop(got.at[1].ptr, bytes)
        /\ UNCHANGED <<live, part, segments, lost, kept>>

\* Mutants: the slots keep the freed pointer; the pages stay mapped.
ProcessFreeKeepsSlot(p, b) ==
    LET first == alloc[p][First(Joined(p, b))]
    IN  /\ p \in live
        /\ Joined(p, b) # {}
        /\ writable' = [writable EXCEPT ![p].heap = @ \ Pages(first)]
        /\ entries' = MarkFree(entries, b)
        /\ stray' = Strays(entries, first)
        /\ UNCHANGED <<live, part, segments, alloc, lost, kept>>

ProcessFreeKeepsPages(p, b) ==
    LET first == alloc[p][First(Joined(p, b))]
    IN  /\ p \in live
        /\ Joined(p, b) # {}
        /\ alloc' = [alloc EXCEPT ![p] =
                        [i \in Slots |-> IF i \in Joined(p, b) THEN Nothing ELSE @[i]]]
        /\ entries' = MarkFree(entries, b)
        /\ stray' = Strays(entries, first)
        /\ UNCHANGED <<live, part, segments, writable, lost, kept>>

\* process_free of a pointer one of the process's slots holds: the pages of the
\* first such slot are unmapped, every such slot is cleared.  NULL passes for the
\* pointer of an empty slot; kernel_free of it writes outside the table only.
ProcessFree(p, b) ==
    LET first == alloc[p][First(Joined(p, b))]
    IN  /\ p \in live
        /\ Joined(p, b) # {}
        /\ writable' = [writable EXCEPT ![p].heap = @ \ Pages(first)]
        /\ alloc' = [alloc EXCEPT ![p] =
                        [i \in Slots |-> IF i \in Joined(p, b) THEN Nothing ELSE @[i]]]
        /\ entries' = MarkFree(entries, b)
        /\ stray' = Strays(entries, first)
        /\ UNCHANGED <<live, part, segments, lost, kept>>

\* What process_terminate_allocations frees: each pointer once, as process_free
\* clears every slot that holds it.
Allocations(p) ==
    [i \in Slots |-> IF i = First(Joined(p, alloc[p][i].ptr)) THEN alloc[p][i] ELSE Nothing]

\* What process_terminate frees after the allocations; mutant: not the stack.
GivenBackButStack(p) == <<part[p]["image"], part[p]["elf"], part[p]["task"]>>
GivenBack(p) == <<part[p]["image"], part[p]["elf"], part[p]["stack"], part[p]["task"]>>

\* process_terminate: process_free for every slot, the empty ones included,
\* then the program, the stack and the task; the process_t is only forgotten
Terminate(p) ==
    LET objs == Allocations(p) \o GivenBack(p)
    IN  /\ p \in live
        /\ entries' = FreeAll(entries, objs)
        /\ stray' = \E i \in DOMAIN objs : Strays(entries, objs[i])
        /\ lost' = lost \cup Span(part[p]["process"])
        /\ live' = live \ {p}
        /\ part' = [part EXCEPT ![p] = [x \in Parts |-> Nothing]]
        /\ segments' = [segments EXCEPT ![p] = {}]
        /\ alloc' = [alloc EXCEPT ![p] = [i \in Slots |-> Nothing]]
        /\ writable' = [writable EXCEPT ![p] = [program |-> {}, heap |-> {}]]
        /\ UNCHANGED kept

\* The model ends where memory has gone astray: what follows is up to it.
Next ==
    /\ ~stray
    /\ \E p \in Procs :
        \/ FailedOpen(p)
        \/ \E n \in ImageBlocks :
              \/ \E offsets \in Segments : LoadElf(p, n, offsets)
              \/ LoadBinary(p, n)
              \/ FailedRead(p, n) \/ FailedBinary(p, n) \/ FailedStack(p, n)
              \/ FailedMap(p, n)
        \/ \E bytes \in Sizes : ProcessMalloc(p, bytes)
        \/ \E b \in Blocks : ProcessFree(p, b)
        \/ Terminate(p)

Spec == Init /\ [][Next]_vars
-----------------------------------------------------------------------------
Areas == [program : SUBSET Nat, heap : SUBSET Nat]

TypeOK ==
    /\ entries \in [Blocks -> Entry]
    /\ live \subseteq Procs
    /\ part \in [Procs -> [Parts -> Object]]
    /\ segments \in [Procs -> SUBSET Nat]
    /\ alloc \in [Procs -> [Slots -> Object]]
    /\ writable \in [Procs -> Areas]
    /\ lost \subseteq Blocks
    /\ kept \subseteq Blocks
    /\ stray \in BOOLEAN

Objects(p) ==
    <<part[p]["process"], part[p]["elf"], part[p]["image"], part[p]["stack"],
      part[p]["task"]>> \o alloc[p]
Names == Procs \X (1..(5 + AllocSlots))
ObjectOf(n) == Objects(n[1])[n[2]]

\* No two heap objects of the processes overlap, and none overlaps a block that
\* was lost or kept: whatever is loaded, freed and terminated in between, empty
\* requests and empty files included, until one of them frees somebody's block.
ObjectsDisjoint ==
    ~stray =>
        /\ \A m, n \in Names : m # n => Span(ObjectOf(m)) \cap Span(ObjectOf(n)) = {}
        /\ \A n \in Names : Span(ObjectOf(n)) \cap (lost \cup kept) = {}

\* Every taken block of the heap is part of a process that exists or is known
\* to be lost or kept: the end of a process gives back all but its process_t,
\* and what a flat binary lost when it was loaded.
TableExact ==
    ~stray =>
        \A b \in Blocks :
            entries[b].taken <=>
                b \in lost \cup kept \/ \E n \in Names : b \in Span(ObjectOf(n))

\* The pages a process can write are those of its file's writable segments, of
\* its stack and of its allocations, each of them in full (also where it reaches
\* past the heap's end): freeing one allocation takes no page of another away
\* and leaves none behind (process.c:59-89, 276-297, 374-433).  Only what a
\* segment declares behind the contents of its file is not the process's own.
AccessExact ==
    ~stray =>
        \A p \in Procs :
            /\ writable[p].program =
                  IF p \notin live THEN {}
                  ELSE SegmentPages(part[p]["image"], segments[p])
                          \cup Pages(part[p]["stack"])
            /\ writable[p].heap = UNION {Pages(alloc[p][i]) : i \in Slots}
=============================================================================
