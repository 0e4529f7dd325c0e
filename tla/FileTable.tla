------------------------------ MODULE FileTable ------------------------------
(***************************************************************************)
(* The file descriptors (fs/file.c) and what stands behind them in the FAT16 *)
(* file system (fs/fat/fat16.c:649-779): opening, closing and seeking.      *)
(* fstat and fread change nothing here: fread leaves the position where it   *)
(* is (FatRead models what it reads).                                       *)
(***************************************************************************)
EXTENDS Integers

CONSTANTS
    MAX_FILE_DESCRIPTORS,
    Word,               \* 2^32, where a position wraps
    Files, Directories, \* what a path can lead to
    NoItem,             \* what memory holds that is not allocated
    Filesize,           \* the size of each file
    Privates            \* addresses of fat_file_descriptor_t, with its item

ASSUME FilesAssumption ==
    /\ MAX_FILE_DESCRIPTORS \in Nat \ {0}
    /\ Word \in Nat \ {0}
    /\ Files \cap Directories = {} /\ NoItem \notin Files \cup Directories
    /\ Filesize \in [Files -> 0..(Word - 1)]

VARIABLES
    file_descriptors,   \* by slot: [index, private], or Empty
    item, fpos,         \* by address: what is open there, at which position
    allocated,          \* the addresses the heap has handed out
    orphans             \* history: those that fopen has lost (file.c:188-193)

vars == <<file_descriptors, item, fpos, allocated, orphans>>

Slots == 0..(MAX_FILE_DESCRIPTORS - 1)
Empty == [index |-> 0, private |-> 0]
Items == Files \cup Directories

Lowest(slots) == CHOOSE s \in slots : \A t \in slots : s <= t
\* the slots file_new_descriptor may take; mutant: a slot in use is one of them.
AnySlot == Slots
FreeSlots == {s \in Slots : file_descriptors[s] = Empty}

Init ==
    /\ file_descriptors = [s \in Slots |-> Empty]
    /\ item = [p \in Privates |-> NoItem]
    /\ fpos = [p \in Privates |-> 0]
    /\ allocated = {} /\ orphans = {}

\* file_get_descriptor
GetDescriptor(fd) ==
    IF fd <= 0 \/ fd >= MAX_FILE_DESCRIPTORS THEN Empty ELSE file_descriptors[fd - 1]

\* file_new_descriptor, in slot s
NewDescriptor(s, p) == [index |-> s + 1, private |-> p]

\* fat16_open: the descriptor is cleared when it is allocated
OpenAtStart(f, p) == item' = [item EXCEPT ![p] = f] /\ fpos' = [fpos EXCEPT ![p] = 0]

\* the slot file_free_descriptor clears; mutant: the one behind it.
SlotBehind(desc) == desc.index
SlotOf(desc) == desc.index - 1

\* fopen for reading, of a path that leads to f; every other fopen returns 0
\* and keeps nothing but the parsed path
Fopen(f, p) ==
    /\ p \notin allocated
    /\ allocated' = allocated \cup {p}
    /\ OpenAtStart(f, p)
    /\ IF FreeSlots = {}
         THEN /\ orphans' = orphans \cup {p}
              /\ UNCHANGED file_descriptors
         ELSE LET s == Lowest(FreeSlots)
              IN  /\ file_descriptors' = 
                        [file_descriptors EXCEPT ![s] = NewDescriptor(s, p)]
                  /\ UNCHANGED orphans

\* fclose, fat16_close and file_free_descriptor
Fclose(fd) ==
    LET desc == GetDescriptor(fd)
    IN  /\ desc # Empty
        /\ allocated' = allocated \ {desc.private}
        /\ file_descriptors' = [file_descriptors EXCEPT ![SlotOf(desc)] = Empty]
        /\ item' = [item EXCEPT ![desc.private] = NoItem]
        /\ fpos' = [fpos EXCEPT ![desc.private] = 0]
        /\ UNCHANGED orphans

\* fseek and fat16_seek; SEEK_END is not implemented
Fseek(fd, offset, whence) ==
    LET p == GetDescriptor(fd).private
    IN  /\ GetDescriptor(fd) # Empty
        /\ item[p] \in Files
        /\ offset < Filesize[item[p]]
        /\ \/ whence = "SEEK_SET" /\ fpos' = [fpos EXCEPT ![p] = offset]
           \/ whence = "SEEK_CUR" /\ fpos' = [fpos EXCEPT ![p] = (@ + offset) % Word]
        /\ UNCHANGED <<file_descriptors, item, allocated, orphans>>

Next ==
    \/ \E f \in Items, p \in Privates : Fopen(f, p)
    \/ \E fd \in 0..MAX_FILE_DESCRIPTORS : Fclose(fd)
    \/ \E fd \in 0..MAX_FILE_DESCRIPTORS, offset \in 0..(Word - 1),
          whence \in {"SEEK_SET", "SEEK_CUR"} : Fseek(fd, offset, whence)

Spec == Init /\ [][Next]_vars
-----------------------------------------------------------------------------
TypeOK ==
    /\ \A s \in Slots : \/ file_descriptors[s] = Empty
                        \/ /\ file_descriptors[s].index \in 1..MAX_FILE_DESCRIPTORS
                           /\ file_descriptors[s].private \in Privates
    /\ item \in [Privates -> Items \cup {NoItem}]
    /\ fpos \in [Privates -> 0..(Word - 1)]
    /\ allocated \subseteq Privates /\ orphans \subseteq Privates

\* Whatever is opened and closed in between, the file system's memory behind a
\* descriptor is alive and its own, and all of it is behind a descriptor but
\* what fopen lost to a full table: fclose frees it once (file.c:67-92, 181-241).
OwnPrivate ==
    LET Used == {s \in Slots : file_descriptors[s] # Empty}
    IN  /\ \A s, t \in Used : s # t => file_descriptors[s].private # file_descriptors[t].private
        /\ allocated = {file_descriptors[s].private : s \in Used} \cup orphans
        /\ \A s \in Used : file_descriptors[s].private \notin orphans

\* The numbers fopen returns are the table of open files a caller expects.
Table == INSTANCE OpenFiles
            WITH Numbers <- 1..MAX_FILE_DESCRIPTORS, Positions <- 0..(Word - 1),
                 Closed <- Empty,
                 open <- [n \in 1..MAX_FILE_DESCRIPTORS |->
                    IF file_descriptors[n - 1] = Empty THEN Empty
                    ELSE [item |-> item[file_descriptors[n - 1].private],
                          pos |-> fpos[file_descriptors[n - 1].private]]]
KeepsPromise == Table!Spec
=============================================================================
