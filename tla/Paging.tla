------------------------------- MODULE Paging -------------------------------
(***************************************************************************)
(* The page directory of a task (mm/paging/paging.c): a directory of        *)
(* pointers to tables, each pointer with flags in its low bits, and tables   *)
(* of frame addresses with flags in their low bits.  Addresses are 32 bits   *)
(* wide, here Word, split by PageSize and EntriesPerTable as the code does.  *)
(* copy_string_from_task (task/task.c) borrows an entry of the directory.    *)
(***************************************************************************)
EXTENDS Integers

CONSTANTS
    PageSize,           \* PAGING_PAGE_SIZE, a power of two
    EntriesPerTable,    \* PAGING_TOTAL_ENTRIES_PER_TABLE
    Flags,              \* the flag words of pages
    DirectoryFlags,     \* the flag words of a directory entry
    WriteableFlags,     \* PRESENT | WRITEABLE | ACCESS_FROM_ALL
    TablesAt,           \* addresses where the heap may put page tables
    Objects             \* what is mapped: [virtual, physical, bytes]

Word == EntriesPerTable * EntriesPerTable * PageSize
Addresses == 0..(Word - 1)

ASSUME PagingAssumption ==
    /\ PageSize \in Nat \ {0} /\ EntriesPerTable \in Nat \ {0}
    /\ Flags \subseteq 0..(PageSize - 1) /\ WriteableFlags \in Flags
    /\ DirectoryFlags \subseteq 0..(PageSize - 1)
    /\ TablesAt \subseteq {a \in Addresses : a % PageSize = 0}
    /\ Objects \subseteq [virtual : Addresses, physical : Addresses, bytes : Addresses]

\* A segment lies at the same offset in its page in memory and in the file, and
\* objects lie in the heap, far below the end of memory.
ASSUME ObjectsAssumption ==
    \A o \in Objects :
        /\ (o.virtual - o.physical) % PageSize = 0
        /\ o.physical + o.bytes <= Word - PageSize

VARIABLES
    directory,          \* paging_4GB_chunk_t.directory_entry
    table,              \* the page table at each address the heap gave
    loaded,             \* TRUE while the processor runs on this directory in
                        \* copy_string_from_task, FALSE on the kernel's
    tmp, old_entry      \* locals of copy_string_from_task, NoCopy outside it

vars == <<directory, table, loaded, tmp, old_entry>>

NoCopy == -1
Indexes == 0..(EntriesPerTable - 1)

\* Mutants: the end of an object is brought down to its page; the flags are not
\* masked out.
AlignAddressDown(addr) == addr - (addr % PageSize)
UnmaskedPart(entry) == entry

\* paging_is_aligned
Aligned(addr) == addr % PageSize = 0

\* paging_align_address and paging_align_to_lower_page, in 32 bits
AlignAddress(addr) ==
    IF Aligned(addr) THEN addr ELSE (addr + PageSize - (addr % PageSize)) % Word
AlignToLowerPage(addr) == addr - (addr % PageSize)

\* address | flags of an aligned address; entry & 0xFFFFF000; the flags in it
Or(addr, flags) == addr + flags
AddressPart(entry) == entry - (entry % PageSize)
FlagsPart(entry) == entry % PageSize

\* paging_get_indexes of an aligned address
DirectoryIndex(addr) == addr \div (EntriesPerTable * PageSize)
TableIndex(addr) == (addr % (EntriesPerTable * PageSize)) \div PageSize

\* paging_get of an aligned address
Get(addr) == table[AddressPart(directory[DirectoryIndex(addr)])][TableIndex(addr)]

\* paging_get_physical_address; NULL for an unaligned address
GetPhysicalAddress(addr) ==
    IF Aligned(addr) THEN AddressPart(Get(addr)) + (addr % PageSize) ELSE 0

\* paging_set of an aligned address
Set(tables, addr, entry) ==
    [tables EXCEPT ![AddressPart(directory[DirectoryIndex(addr)])][TableIndex(addr)] = entry]

\* paging_new_4GB: the tables lie wherever the heap puts them, the pages are
\* mapped one to one
Init ==
    \E at \in [Indexes -> TablesAt], f \in Flags, d \in DirectoryFlags :
        /\ \A i, j \in Indexes : i # j => at[i] # at[j]
        /\ directory = [i \in Indexes |-> Or(at[i], d)]
        /\ table = [a \in {at[i] : i \in Indexes} |->
                      LET i == CHOOSE j \in Indexes : at[j] = a
                      IN  [b \in Indexes |-> Or((i * EntriesPerTable + b) * PageSize, f)]]
        /\ loaded = FALSE
        /\ tmp = NoCopy /\ old_entry = NoCopy

\* the loop of paging_map_virtual_to_physical_addresses, of aligned addresses:
\* paging_map page by page, the virtual address wraps at the end
SetRange(virtual, physical, physical_end, flags) ==
    LET Count == (physical_end - physical) \div PageSize
        after[k \in 0..Count] ==
            IF k = 0 THEN table
            ELSE Set(after[k - 1], (virtual + (k - 1) * PageSize) % Word,
                     Or(physical + (k - 1) * PageSize, flags))
    IN  IF physical < physical_end THEN after[Count] ELSE table

\* An object is mapped as process_map_elf does it; process_map_binary,
\* process_map_memory for the stack, process_malloc and process_free (with no
\* flags) pass addresses that are aligned already.
MapObject(o, flags) ==
    /\ tmp = NoCopy
    /\ table' = SetRange(AlignToLowerPage(o.virtual), AlignToLowerPage(o.physical),
                         AlignAddress(o.physical + o.bytes), flags)
    /\ UNCHANGED <<directory, loaded, tmp, old_entry>>

\* copy_string_from_task: the kernel's buffer is mapped in the directory, which
\* is then loaded to read the string
StartCopy(buffer) ==
    /\ tmp = NoCopy
    /\ tmp' = buffer
    /\ old_entry' = Get(buffer)
    /\ table' = Set(table, buffer, Or(buffer, WriteableFlags))
    /\ loaded' = TRUE
    /\ UNCHANGED directory

\* Mutant: the old entry is not put back.
EndCopyKeepsEntry ==
    /\ tmp # NoCopy
    /\ loaded' = FALSE
    /\ tmp' = NoCopy /\ old_entry' = NoCopy
    /\ UNCHANGED <<directory, table>>

\* copy_string_from_task goes on: the kernel's directory, then the old entry
EndCopy ==
    /\ tmp # NoCopy
    /\ loaded' = FALSE
    /\ table' = Set(table, tmp, old_entry)
    /\ tmp' = NoCopy /\ old_entry' = NoCopy
    /\ UNCHANGED directory

Next ==
    \/ \E o \in Objects, f \in Flags : MapObject(o, f)
    \/ \E buffer \in {a \in Addresses : Aligned(a)} : StartCopy(buffer)
    \/ EndCopy

Spec == Init /\ [][Next]_vars
-----------------------------------------------------------------------------
TypeOK ==
    /\ directory \in [Indexes -> Addresses]
    /\ \A i \in Indexes : AddressPart(directory[i]) \in DOMAIN table
    /\ \A a \in DOMAIN table : table[a] \in [Indexes -> Addresses]
    /\ loaded \in BOOLEAN
    /\ tmp \in Addresses \cup {NoCopy} /\ old_entry \in Addresses \cup {NoCopy}

\* The directory is one flat array of pages: mapping an object changes its own
\* pages and no other, wherever the tables lie, and copying a string leaves the
\* task's address space as it was (paging.c:98-255, task.c:142-177).
Pages == INSTANCE AddressSpace
            WITH Pages <- EntriesPerTable * EntriesPerTable, copying <- loaded,
                 space <- [n \in 0..(EntriesPerTable * EntriesPerTable - 1) |->
                    LET entry == IF n * PageSize = tmp THEN old_entry
                                 ELSE Get(n * PageSize)
                    IN  [frame |-> AddressPart(entry) \div PageSize,
                         flags |-> FlagsPart(entry)]]
KeepsPromise == Pages!Spec

\* Each byte of an object that is mapped is found at its place, from the first
\* to the last, with the flags asked for, also when the object begins or ends
\* inside a page (paging.c:119-141, process.c:381-404); and
\* paging_get_physical_address finds those that begin a page.
EveryByteMapped ==
    [][\A o \in Objects, f \in Flags :
          MapObject(o, f) =>
              \A k \in 0..(o.bytes - 1) :
                  LET byte == (o.virtual + k) % Word
                      entry == Get(AlignToLowerPage(byte))'
                  IN  /\ AddressPart(entry) + (byte % PageSize) = o.physical + k
                      /\ FlagsPart(entry) = f
                      /\ Aligned(byte) => GetPhysicalAddress(byte)' = o.physical + k]_vars
=============================================================================
