# A verification development of RomOS

RomOS is a 32 bit x86 kernel: a boot sector loads it, it sets up a heap, a FAT16
file system, interrupts and paging, loads `0:/shell.elf` as its first process
and then only reacts, to the clock, to the keyboard and to system calls.  This
directory holds TLA+ models of its core, TLC configurations that check them on
small instances, and theorems that TLAPS proves for every instance.  Paths
below are those of the source tree (`src/` is `src/src/` from the repository's
top).

Everything the kernel does runs with interrupts off: the gates of `idt/idt.c`
clear the interrupt flag, and the boot code never sets it.  So an entry into
the kernel (a clock tick, a key, a system call, an exception) is one atomic
step, and what interleaves is these entries: programs start, run, allocate,
read keys and end in any order.  The hard behaviours are therefore long
sequences of legal calls, stale links and pointers, errors half way through an
operation, full tables and rings, and arithmetic at the edge of a block, a
sector, a cluster or a page.

## Inventory

| component | state | operations | interacts with | correct when | module |
|---|---|---|---|---|---|
| kernel heap (`mm/heap`) | table of one byte per 4096 byte block | `kernel_malloc`, `kernel_zalloc`, `kernel_free` | called by everything | grants are disjoint, a free frees exactly one grant, nothing leaks | `HeapWindow`, `HeapSearch`, `HeapTable`, `Heap` |
| tasks (`task/task.c`) | doubly linked list, head, tail, `current_task` | `new_task`, `task_free`, `task_next`, `task_switch` | clock, exceptions, exit, process load | live tasks run in turn, freed ones never | `TaskList`, `RoundRobin` |
| processes (`task/process.c`) | 12 slots, the process with the focus | load, terminate, focus | tasks, heap, paging, keyboard, files | the focus exists | `Keyboard` (slots and focus), `ProcessMemory` |
| process memory (`task/process.c`, `loaders/elf`) | parts of a process, allocation slots, writable pages | load, malloc, free, terminate | heap, paging | a process writes its own memory only; its end gives it back | `ProcessMemory` |
| keyboard (`drivers/keyboard`) | caps lock; a ring in each process | key interrupt, `getkey` | focus | each key reaches the program with the focus, once and in order | `Keyboard`, `KeyQueues` |
| paging (`mm/paging`) | directory and tables of each task | map a range, get, set, translate | processes, string copies | one flat array of pages | `Paging`, `AddressSpace` |
| disk stream (`disk/stream.c`) | position | seek, read | FAT16 | exactly the bytes asked for | `DiskStream`, composed in `FatRead` |
| FAT16 reading (`fs/fat/fat16.c`) | cluster chains on the disk | read | streams, descriptors | the file's bytes, inside the caller's memory | `FatRead` |
| file descriptors (`fs/file.c`) | 512 slots, private data behind each | open, close, seek, stat, read | FAT16, heap | a number is one open file with its own position | `FileTable`, `OpenFiles`, composed in `FileOpen` |
| FAT16 lookup (`fs/fat/fat16.c`) | root directory, loaded directories, clones of entries | open a path, free an item | streams, heap, descriptors | a name leads to its entry, nothing is lost or used after it is freed | `FileOpen`; the mount is its initial state |
| path parser (`fs/parser.c`) | linked parts | parse | `fopen` | parts in order | `FileOpen` |
| program arguments (`task/process.c`, `isr80h/process.c`) | argc, argv of a process | inject, get | process memory, shell | what the caller passed | `Shell` (inject) |
| terminal (`kernel/kernel.c`) | cursor, screen | write a character, backspace, print | system calls | text where it was typed | `Terminal`, used in `Shell` |
| user library and shell (`lib/stdlib`, `tools/shell`) | the line, `strtok`'s pointer, the shell's slots | read a line, cut it, start a program | terminal, keyboard, process memory | the screen shows the line, the program gets its words | `Shell` |
| system calls (`isr80h`, `idt`) | tables fixed at boot | dispatch | all | | its handlers are actions of the modules |
| lists, trees (`common/dll.c`, `common/tree.c`), `blkm` | nodes, a bitmap | | no caller in the kernel | | not modelled |
| boot, GDT, TSS, ports, ATA, strings, `printf` | | | | | not modelled: assembly that runs once, encodings, port I/O, pure string functions |

The hazards this code is exposed to, each at its line with the properties that
guard it, are listed in `PROJECT.json`; those no property covers say why.

## Modules and their correspondence to the code

**HeapWindow, HeapSearch.** `HeapSearch` runs the loop of
`heap_get_start_block`, an action for each branch of an iteration.
`HeapWindow` states its answer without the loop (`IsStartBlock`): the first run
that fits; without one, the free run at the end of the table, however short;
else an error.  The other heap modules use the statement in place of the loop.

**HeapTable, Heap.** An entry of the table is a record of its three bits.
`AlignUp` keeps the 32 bit wrap.  `Malloc` and `Free` are `kernel_malloc` and
`kernel_free`; a failed request changes nothing and is no step.  A grant at the
table's end may be shorter than asked: the code then marks bytes behind the
table, which the model does not follow.  Pointers are block numbers.  Zeroing
is left out.  Any size of 32 bits may be asked for, as `isr80h/memory.c` and
`process_malloc` pass on what a program says.  A request that rounds to no
block (0 bytes, or within a block of 2^32) gets the first block of the free run
at the table's end and does not mark it, so that the next request may get it
too; freeing its pointer then frees somebody else's blocks.  The history
`stray` tells when that has happened; the heap is modelled on, but nothing is
claimed of it any more.

**TaskList.** The links of every `task_t` are kept whether it is live or freed,
since freed memory keeps its contents until it is handed out again, and the code
does follow such links (`task_list_remove` writes through them).  An address
may be reused at once.  `Boot`, `StartProgram`, `LoadProgram` (the load that
succeeds but whose arguments cannot be injected), `FailedLoad`, `Clock` and
`Terminate` (the exit call and exceptions) are the entries that change the list.
`Terminate` contains everything the entry does: `task_list_remove`, its step of
`current_task`, the panic of `process_switch_to_any` without a process, and
the second step of `task_next`.  When the code would run on a freed task the
model stops with status "wild": what follows is up to the memory.  History
variables: `older` (the order of creation), `stale` (live tasks whose left
neighbour was removed, so whose back link dangles) and `sound` (none of these
has been removed itself).

**Keyboard.** `KeyPressed`, `KeyPastTable` (the scan code one past the table,
which reads any byte) and `CapsLockPressed` are the ways the interrupt handler
ends; the first two `Push` a character into the ring of the process with the
focus.  `GetKey` is `keyboard_pop` for a process that runs, `LoadSwitch` and
`Unlink` are the process table and the focus.  `head` and `tail` count modulo
`Word` and are taken modulo the ring's size.  The code does not check for a
full ring.  History variables: `unread`, the keys typed for a process and not
yet read, and `overrun`, the processes whose ring was full when a key came;
both are forgotten when a process ends.  In `KeyQueues`, the promise, a key goes
to the live program with the focus and to no other, is read once and in order,
and is given up only for a program that leaves `Capacity` keys unread; what a
program starts, ends or loses changes no other one's keys.

**ProcessMemory.** Over `HeapTable`.  Every heap object of a process is a part of
its own: "process", "elf", "image", "stack", "task".  A load asks for them in
the order of `process_load_for_slot` and the functions it calls (`ReadElf`,
`ReadBinary`, `StackAndTask`).  `LoadElf` and `LoadBinary` succeed; a flat
binary is read twice, and what `elf_load` took for it is lost.  A load that
fails ends in one of the error exits, each of which keeps what it has:
`FailedOpen`, `FailedRead`, `FailedBinary` (which frees its own copy of the
file), `FailedStack`, `FailedMap` (which frees the task).  `lost` and `kept` are
the histories of what nothing gives back.  `writable` has the pages a process
may write: those of the segments its file declares writable, which may lie
behind the contents of the file, and those of the stack, at the program's
addresses; and those of its allocations, at their own, as many as were asked
for, also behind the table.  `ProcessMalloc`, `ProcessFree`, `Terminate` are
whole operations with slots, pages and heap.  Empty files and requests of any
size are in the model.  It ends (`stray`) where the pointer of an object without
a block frees a block in use, or where the clearing of a grant reaches the end
of the address space; the first is conservative, as the block may have been of
nobody the model knows.  Left out: loads in which an unchecked allocation fails
(`elf_file_t`, its copy of the file, the page tables, the copy of a path), where
the code runs on from address 0; the objects `fopen` takes and gives back
meanwhile; and the parsed path of every `fopen`, which is never freed.

**Paging.** `directory` and `table` are words with flags in their low bits, as in
the code; `Init` is `paging_new_4GB` with the tables wherever the heap puts
them.  `SetRange` is the loop of `paging_map_virtual_to_physical_addresses`,
`MapObject` what loading, malloc and free do with it.  `StartCopy` and `EndCopy`
are the two halves of `copy_string_from_task`, between which the processor runs
on the task's directory (`loaded`) with one entry borrowed (`tmp`,
`old_entry`).

**DiskStream, FatRead.** A byte of the disk is known by its position.
`DiskStream` is a stream on its own: `StartRead` is a seek and the call of
`disk_stream_read`, `ReadSector` one level of its recursion.  `FatRead` EXTENDS
it: `WalkChain` is one iteration of `fat16_get_cluster_for_offset`, `StartPart`
and `EndPart` the two halves of a level of `fat16_read_internal_from_stream`,
between which the stream's own steps run (`CopyPart`), and `NextElement` the
loop of `fat16_read`.  That the composition uses the stream only through its
calls is a theorem (`FatReadUsesStream`).  The words the walk reads as table
entries are arbitrary, since the position it seeks (`fat16.c:401`) is not the
table's: clusters of the volume, the number 1 before them, numbers behind them,
and those the walk refuses.  A transfer of the disk itself does not fail in the code, nor in the
model.

**FileTable, FileOpen.** `FileTable` has the slots of `fs/file.c` and the private
data of FAT16 behind them, with the private data `fopen` loses when the table is
full.  `FileOpen` EXTENDS it with everything `fopen` does before: the parser's
checks and loop (`CallFopen`, `ParsePart`), the checks of `fopen` and of
`fat16_open` (`CheckCall`), the loop over the entries of a directory
(`ScanEntry`), the loop over the parts of the path (`EndScan`, `NextPart` and its ways to go
wrong), and the ends of `fat16_open` (`NotFound`, `Install`). Every allocation may fail.
Where the code does not look at the result and writes to NULL, or uses what it has freed,
the model stops with status "wild": what follows is up to the memory.  A directory is the
sequence of its entries up to the zero entry that ends it; an entry has its padded name and
extension, in words.  A directory below the root is read by `fat16_read_internal`, whose
walk goes wrong behind the first cluster (`FatRead`): a `Volume` says what the read gives
for each directory (`loaded`), which is what lies on the disk in the first cluster and
anything behind it, and which reads are refused (`refused`); these are freed and returned
although no allocation failed.  `held` counts the heap objects of the file layer, but for
the parsed paths, which nothing frees.  `Tidy` and `Plain` name the disks and paths about
which more can be said; on a disk that is not tidy a deleted entry, or a second entry of a
name, hides what a path goes through, and the code goes on with NULL; or a directory of
several clusters is misread, or used after it was freed.  Only reading is supported by the
code.

**Terminal, Shell.** `Terminal` is the screen as functions: what a character, a
backspace and a text make of the cells and the cursor.  In `Shell` a step is
what the shell does from one system call to the next: `TypeKey` and `EndLine`
are an iteration of `sys_terminal_readline`, `RunLine` the newline and the copy
of the line into the buffer of `sys_parse_command`, `ParseToken` one call of
`strtok` with the allocation of its argument, `Invoke` the kernel's side of the
command.  `buf` is new, with unknown contents, in every round of the main loop;
`scommand` lies at the same place of the stack in every call and keeps what the
last command left there, which matters because `strtok` keeps its pointer into
it.  Allocations fail when the shell's slots are used up, or for want of heap, at
any time.  Other programs print and end in between; keys may have been typed
ahead, so the shell may read a line while a program has the focus.  The path of
the program and what loading does are in the other modules: here a load succeeds
or not.

The abstract modules `RoundRobin`, `KeyQueues`, `AddressSpace` and `OpenFiles`
translate no code: each states what a component promises and is instantiated
with a refinement mapping as `KeepsPromise`.

## Runs

| run | instance | shows |
|---|---|---|
| MCHeapSearch | 6 blocks, requests 0..7 | every table and request: `SearchCorrect` and the invariant behind it |
| MCHeapSearchError (violation) | 4 blocks | a request no run can hold gets the free run at the end, not the error of the comment at `heap.c:103` |
| MCHeap | 6 blocks, 3 holders, sizes of 0 to 3 blocks, whole and rounded up, and one that wraps | disjoint grants, exact table, at most one grant past the end, until a stray free |
| MCTaskList | 4 task addresses | sound list, only live tasks run, round robin, no task starves |
| MCTaskListCurrent (violation) | 4 task addresses | a freed task becomes the current one |
| MCKeyboard | 2 processes, rings of 2, indices modulo 4 | the rings are queues of the keys typed with the focus until overrun, the focus exists, a polling program gets its keys |
| MCProcessMemory | 2 processes, 10 blocks, 2 slots, files of 0 and 1 block with the page behind them declared or not, sizes of 0 and 2 blocks and one that wraps | disjoint objects, exact table, exact access |
| MCPaging | 4 pages, 6 objects, 2 flag words | flat address space, whole objects mapped, the borrowed page given back |
| MCFatRead | 2 clusters of 2 sectors of 2 bytes, all chains and words, positions to 7, up to 2 elements | every part exact, reads stay inside the caller's memory, and give the file where no walk is needed |
| MCFatReadCluster (violation) | 2 clusters | the walk does not find the chain's cluster |
| MCFileOpen | 8 disks with two directories, 15 paths, 3 slots, 4 private addresses | `fopen` finds what a path names; stray accesses and lost memory only in the cases the properties name; own file and own position behind every number |
| MCShell | a screen of 2 rows of 3 columns, lines of up to 3 characters, 3 slots, 3 prompts and printed characters together | the line on the screen is the line read; the words reach the program; `strtok` stays inside its buffer |

*Bounds.* Six blocks hold every pattern of three runs with a gap; requests reach
one past the table so that the last rule of the search applies.  Four tasks are
enough for a task with two neighbours on one side, a stale back link and the
reuse of an address; three give no second removal next to a live remainder.
Rings of two cells with indices modulo four wrap at both bounds in a few keys.
Ten blocks hold two processes of an ELF file, or one of a flat binary beside one,
but not all of their allocations, so that the heap gets full and the grant past
the end occurs; allocations of two blocks give chains to free.  Two tables of two
entries is the least address space where a range crosses from one table to
another; objects begin and end inside pages and one wraps.  Two clusters of two
sectors give chains in and out of order, reads that begin inside a sector and
inside a cluster and end behind it, and entries that lead out of the volume on
either side and in circles.  The disks of `MCFileOpen` are a tidy one, one without
a file system, one with deleted entries before files, one with a deleted entry
before a subdirectory, one with names that are there twice, one whose root
directory has no end, and two with a directory of two clusters, which is misread
on one and refused on the other; the paths reach through a directory, a file and
nothing, have an empty part, another case, another drive, or no form at all.
Three slots with four private addresses fill the table and lose one.  Lines of
three characters have two words, and three commands are what it takes to leave
`strtok` in the middle of one, read the next from there, and be right again in
the third; three columns hold the prompt and two characters, so that the third
wraps.

*Deadlock.* Checked where the system cannot stop (heap, paging).  It is off
where it may: a search or a read that returned, a kernel that panicked or ran
wild.  `ProcessMemory` may stop when lost memory has used the heap up; `FileOpen`
when it ran wild; `Shell` at its bound.

*Fairness.* Only `TaskList` and `Keyboard` have any.  `TaskList` assumes that the
timer ticks again and again (`WF(Clock)`), which holds while the kernel returns
to user mode; nothing is assumed of programs.  `Keyboard` assumes that a program
that waits for a key polls (`sys_getkeyblock` in the user library loops) and that
its task gets the processor again and again, which is `EveryTaskRuns`.  No
fairness is assumed of keys, program starts or exits.

*Symmetry.* Used in the runs with safety properties only.

Each property has a mutant, an operator defined just before the definition it
replaces, that makes a plausible mistake and that the run catches.

## Proofs

| module | theorems | argument |
|---|---|---|
| `HeapProofs` (of `HeapSearch`, `Heap`) | `WindowIsMaximal`, `SearchIsCorrect`, `StartBlockIsUnique`; `HeapInvariant`, `HeapTypeCorrect`, `AllocationsDisjoint`, `TableIsExact`, `AtMostOneOverrun` | the window is the maximal free run that ends at the loop's index, and no window that fits ends before it; the heap below |
| `TaskListProofs` | `TaskListInvariant`, `TaskListTypeCorrect`, `TaskListIsSound`, `OnlyLiveTasksRun`, `TaskListRefinesRoundRobin` | below |
| `KeyboardProofs` | `KeyboardInvariant`, `KeyboardTypeCorrect`, `FocusIsLive`, `RingIsExact`, `KeyboardRefinesQueues` | below |
| `ProcessMemoryProofs` | `MemoryInvariant`, `MemoryTypeCorrect`, `ObjectsAreDisjoint`, `HeapAccountsExactly`, `AccessIsExact` | below |
| `PagingProofs` | `PagingInvariant`, `PagingTypeCorrect`, `ObjectsFullyMapped`, `PagingRefinesSpace` | below |
| `FatReadProofs` (of `DiskStream`, `FatRead`) | `StreamInvariant`, `StreamProgress`, `StreamReadIsExact`; `FatReadInvariant`, `FatReadUsesStream`, `FatReadProgress`, `FatReadPartsExact`, `FatReadStaysInside`; `ShortReadInvariant`, `ShortReadsGiveTheFile` | the division at a sector's boundary; the read of a file below |
| `FileOpenProofs` (of `FileTable`, `FileOpen`) | `TableInvariant`, `DescriptorsOwnMemory`, `FilesKeepPromise`; `OpenRefinesTable`, `OpenOwnsMemory`, `OpenKeepsPromise`; `OpenInvariant`, `OpenFindsTheFile`, `OpenStraysOnly`, `OpenAccountsMemory` | below |
| `ShellProofs` (of `Terminal`, `Shell`) | `ShellInvariant`, `LineStaysOnScreen`, `ProgramsGetTheirWords`, `RestOfTheLineEnds` | below |

They hold for every value of the constants under the modules' named
assumptions, which TLC evaluates on the runs' values.  The ones that are more
than types: `ZeroAssumption` (`Keyboard`: no key is the code 0, which the driver
drops); `ObjectsAssumption` (`Paging`: an object lies at the same offset of a page
in memory and in the file, as ELF asks of a segment, and below the last page);
`OpenAssumption` (`FileOpen`: paths are texts, 0 is a digit, a slash is none, and
the root is no item); `VolumesAssumption` (`FileOpen`: entries are of the kind
their attribute says, a directory gives as many entries as were counted, those of
its first cluster as they are, and no read of one cluster is refused);
`KeysAssumption` (`Shell`: no key is 0, no key of the table is a newline, and the
mark for memory that was never written is no key).  Nothing is assumed of the
sizes that are asked for but that they are numbers of 32 bits.

*Heap.* `TableMatches` alone is not inductive: that a free releases exactly
one chain needs that the blocks between its first and its last have a
successor and that the last has none, which is `TableMatches` together with
`Disjoint` and types; that a grant takes only free blocks follows from
`IsStartBlock`, in both of its cases, the short run at the end included.
`OneOverrun` then is a consequence: two grants past the end would both own the
last block.  An empty request owns no block, so it disturbs nothing when it is
made; when its pointer is freed, either the block it points to is free, and the
table stays as it is, or it is in use: that is the step that sets `stray`.  The
types hold also after it.

*Task list.* `ListSound` speaks about the list through the order of creation
(`Follows`: nobody was created between two neighbours), which needs no
recursion along links.  Removing a task whose back link is right keeps it,
since the right neighbour of the removed task then follows the left one.  The
history `sound` becomes false when a task with a dangling back link is
removed; from then on nothing is claimed, and MCTaskListCurrent shows that
nothing can be.  `RunsLiveTask` needs the second step of `task_next` too, after
`task_list_remove` has already moved on; `ExitRunsLive` is that lemma.

*Read of a file.* Every step of `FatRead` is a step of `DiskStream` or leaves the
stream alone, so `FatRead` implements it and what was proved of the stream holds
in it (`FatReadPartsExact`).  For `FatReadStaysInside` the invariant adds where
the level is in the caller's memory: `to` is the element's start plus what the
levels above have read, what is left fits before the element's end, and all
bytes before `to`, and none behind what the stream has copied, are written.  The
products `i * size` have a step of their own.  `ReadsTheFile` is about reads that
lie straight on the disk: the bytes of such a request follow one another from the
start of the first cluster, as the quotient of a position by the cluster's size is
0 or 1 (`FirstClusters`) and the second cluster is the next (`ShortIsStraight`).
`ShortInv` says that each level begins in the first cluster, so that nothing is
walked: either the whole request ends there, or there is a single level, as an
element of at most a cluster is read by one.  What is promised of the stream then
gives each part its place.  Nothing of it depends on the table.

*Keyboard.* That the ring holds the keys not read yet (`RingHoldsUnread`) is not
inductive: what the next key overwrites must be known too.  `Holds` says it of
every cell, the empty ones included: the cell of the nth key from the head
holds it, and all others hold zero.  The index of a cell is taken modulo the
ring of a counter that wraps at `Word`; that head and tail stay apart by the
number of keys also when one of them has wrapped needs that the ring's size
divides `Word`, which is in the assumptions and true of the code's numbers.
For the refinement the queue of a slot is the sequence of its cells from the
head, which is `unread` as long as the ring is not overrun; so each step of the
ring is the one of the queue it belongs to, and leaves every other queue alone.

*Process memory.* `ObjectsDisjoint` and `TableExact` together say that the table
is a partition.  `Partition` says it of objects under names, whatever the names
are, and of a set of blocks that belong to no object; a grant puts an object
under a name, a free takes it away, and giving an object to nobody moves its
blocks to the set.  So one lemma for each serves loading, allocating and
terminating, in which the parts of a process, its slots and, while a load runs,
what it has been granted so far have the names (place 0 of a process is for what
is freed, lost or kept at once).  A load grants, and a termination frees, a number of
objects that is a parameter: the recursive functions in the module are shown to
step as they say, and a claim about their last value is proved for the least
number at which it could fail.  Objects
without a block (of empty requests and files) have an empty chain.  They may
share a pointer with an object that was granted the same block later; freeing
through them is the stray free that ends the model.  `ProcessFree` takes the
pages of the first slot that holds the address and clears every such slot; that
the others have no blocks, so no pages, unless the free is a stray one, is
`SharedPointer`.

*Paging.* `Shape` says that every entry of the directory leads to a table of its
own; only then is a page one cell of one table, and writing it changes no other
page.  With it the recursive walk of a range is a closed form (each page of the
range gets the frame at the same distance from the start).  `EveryByteMapped`
then is arithmetic: the range that is rounded down and up again covers every
byte of an object, and the number of its pages is that of the code.  During a
copy the borrowed page is set apart in the invariant, since it maps the
kernel's buffer and the directory is not what the abstract space says.

*File descriptors.* `OwnPrivate` is not inductive: `fclose` clears the slot that the
descriptor's number names, which has to be the one it is in (`Placed`).  For
`FileOpen` it must be known in addition that what the lookup holds is an item of
the disk (`LookupInv`), from the directory it scans and from the count of its
entries, which never exceeds their number.  With it each step of `FileOpen` is
one of `FileTable` or leaves the table alone, so that the theorems about
`FileTable` hold of it, the refinement of `OpenFiles` included.

`OpenInv` follows one call from the text to the descriptor.  In the parser the
text that is left begins behind a cut with k slashes before it, and the k parts
before it are parsed; a cut is defined by that number, so one more slash is one
more part, without recursion along the text.  In the lookup some k of the n parts
are done, and on a tidy disk the directory in hand is where the first k lead; in a
scan, what was found is the entry of that name if it is among those met so far,
which is the only one of its name on a tidy disk, so that its place is before
`at` or it is still to come.  What was found has its data behind it unless an
allocation has failed.  `held` is the private descriptor and the items in hand,
plus the sum over the slots (`SumOfOne`: changing one slot changes the sum by the
difference, as the least slot at which the partial sums could differ otherwise
does not exist).  The attempt to prove `NoStrayAccess` showed that an earlier
form of it, in which only a root directory without an end was excused, is false
on a disk with a deleted entry before a subdirectory's; such a disk is now among
those of `MCFileOpen`.

*Shell.* Four relations hold it together.  `LineKept`: the buffer holds the keys
that were typed, edited.  `LineOnScreen` with `LineFits`: a key moves index and
cursor alike, in either direction, and two columns of a row are two cells, so
that what is written or erased is no other character of the line.  `TextEnds`:
from where `strtok` goes on there is an end of text and nothing unwritten
before it; a new line, which is shorter or longer than that place, keeps it.
`Between`: if no allocation failed in the last two commands, what lies behind
`strtok`'s place is the rest of the line and the arguments are the words before
it; `WordsKept` adds that `strtok` then began at the line's start.  An allocation
that fails leaves `strtok` in the middle of a line, so the next command is not
right, but that one ends with `strtok` at the end or fails itself: this is why
`failed` looks back one command, and not further.

*Only model-checked* are the liveness properties, `EveryTaskRuns` and
`KeysArrive`, as liveness under fairness is outside of what the prover does.
Every safety property and refinement of the passing runs is a theorem.

## What the models showed about the code

With a run (see `findings` in `PROJECT.json`):

- `heap.c:104`: no error when no window is long enough, but the free run at the
  end of the table.
- `task.c:76`: the back link of the right neighbour is not repaired, and a
  freed task may run.
- `fat16.c:401`: a product where a sum is meant, so that a file of more than one
  cluster is not read from its own clusters.  Programs and files that lie in one
  cluster, or that the walk refuses, do not show it.

Met while modelling, and recorded here without a run:

- `heap.c:178`: a request of 0 bytes, or one whose size wraps, gets a pointer to a
  block that stays free; once it is somebody else's, freeing the pointer frees
  that.  Programs reach this (`isr80h/memory.c:8`).
- `keyboard.c:76`: the ring is not checked for full; after an overrun
  `keyboard_pop` may return zero with keys in the buffer.
- `process.c:540`: nothing is freed where the comment says "Free the process data":
  each load that fails keeps its process_t, its elf_file_t and what else it has
  (`kept`); the process_t is not freed at the end of a process either.
- `process.c:397`: a segment may declare more memory than its file has, which maps
  what lies behind it in the heap to the program, and bss is not zeroed.
- `process.c:279`: NULL passes for the process's own pointer, and
  `kernel_free(0)` writes before the table.
- `process.c:513`: the test for an error of `new_task` is never true.
- `paging.c:264`: an address that is not a multiple of the page size translates
  to NULL; `isr80h/process.c:74` writes through it.
- `file.c:97`: the last descriptor is handed out and never found.
- `fat16.c:481`: a read that begins inside a cluster may run past its end
  (`ReadsTheFile` says where the result is the file all the same), and `fread`
  never advances the position.
- `isr80h/process.c:60`: a program whose arguments cannot be injected stays
  loaded and keeps the focus.
- `isr80h/process.c:50`: the copy of the name may run three bytes past the path.
- `fat16.c:608`: a deleted entry hides the last entry of its directory; of two
  entries with one name the first is loaded and lost, the second opened.
- `fat16.c:194`: the entries of a full root directory are counted on behind it.
- `fat16.c:582`: a directory that could not be loaded is returned after it was
  freed; a refused read of a directory of several clusters is enough.
- `fat16.c:634`: after a part that is not there the type of an item at NULL is
  read; after a file, the file is lost.
- `fat16.c:722`: `fread` of a directory reads its structure as a file's entry;
  the entry `..` of a directory below the root has cluster 0, which is no cluster.
- `parser.c:57`: an empty part ends a path, so `0:/d//b` is `0:/d`; `parser_free`
  has no caller.
- `lib/stdlib/src/string.c:283`: `strtok` goes on with the text of the last
  command if that was given up half-way.
- `lib/stdlib/src/os.c:46`: the arguments are never freed; after 1024 words the
  shell starts nothing any more.
- `lib/stdlib/src/os.c:112`: backspace on an empty line becomes part of it.
- `kernel.c:57,78`: rows have no bound, and the last character of a full line is
  overwritten by the next.
- `common/dll.c`: inserting at the front of an empty list writes through NULL, and
  removing the last node leaves head and tail on it; nothing in the kernel does.

## Not modelled

Boot, descriptor tables, ports and the polling of the disk controller are
assembly and hardware; `printf`, `itoa` and the string functions without state
are pure and left to unit tests, but for `istrncmp`, `strncpy` and `strtok`.
`common/dll.c`, `common/tree.c` and `mm/blkm` have no caller in the kernel.
Left out of modelled components: `get_program_arguments`, which writes through
NULL; the contents of memory, so that bss is not zeroed is not seen; memory
behind the heap's table; what follows a stray free; loads that run on after an
allocation they do not check; a directory without any entry, for which no block
is asked; the kernel's stack.

## Plan

Next is a module `Kernel` that composes `TaskList`, `Keyboard` and `ProcessMemory`
with the program that has the focus but does not run, and the checks of the ELF
loader (`elf_process_loaded`), with the place of a segment in its file.
