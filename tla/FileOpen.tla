------------------------------- MODULE FileOpen -------------------------------
(***************************************************************************)
(* fopen from the text of a path to a descriptor: the path parser           *)
(* (fs/parser.c), the checks of fopen, the lookup of each part in the FAT16  *)
(* directories (fs/fat/fat16.c:149-360, 512-681) and the table of            *)
(* descriptors (FileTable).  Any allocation may fail.  fopen is cut into the *)
(* steps of its loops; nothing else runs in between.                         *)
(***************************************************************************)
EXTENDS FileTable, FiniteSets, Sequences

CONSTANTS
    MAX_PATH,
    Paths,              \* texts: sequences of words, "/" and what else a name has
    Lower,              \* tolower, by word
    Digits,             \* the words that are one digit
    Volumes,            \* disks: see Volume
    Root,
    MaxHeld             \* bound: nothing is opened with more objects in use

\* fat_directory_item_t: its kind is what the attribute and the name's first byte
\* say, its item what its first cluster leads to
DirectoryItem ==
    [filename : Seq(STRING), ext : Seq(STRING),
     kind : {"file", "directory", "deleted"}, item : Items]

\* A disk: whether fat16_resolve took it; how many entries its root directory and a
\* cluster have room for; the entries that lie on the disk from the start of each
\* directory to the next end mark, which is what the code counts; and what
\* fat16_read_internal makes of each directory: the entries it gives, or that it
\* refuses, as its walk does where it needs a second cluster (FatRead).
Volume ==
    [mounted : BOOLEAN, root_dir_entries : Nat, cluster_entries : Nat,
     entries : [Directories \cup {Root} -> Seq(DirectoryItem)],
     loaded : [Directories -> Seq(DirectoryItem)], refused : SUBSET Directories]

Listed(v, dir) == {k \in DOMAIN v.entries[dir] : v.entries[dir][k].kind # "deleted"}
KindFits(entry) ==
    /\ entry.kind = "file" => entry.item \in Files
    /\ entry.kind = "directory" => entry.item \in Directories

ASSUME OpenAssumption ==
    /\ MAX_PATH \in Nat /\ MaxHeld \in Nat
    /\ Paths \subseteq Seq(STRING)
    /\ "0" \in Digits /\ "/" \notin Digits
    /\ Root \notin Items \cup {NoItem}

\* An entry is of the kind its attribute says (fat16.c:592).  As many entries are
\* read as were counted, and those of the first cluster are read as they are.
ASSUME VolumesAssumption ==
    /\ Volumes \subseteq Volume
    /\ \A v \in Volumes :
        /\ \A dir \in Directories \cup {Root} : \A k \in DOMAIN v.entries[dir] :
              KindFits(v.entries[dir][k])
        /\ \A dir \in Directories :
              LET n == Cardinality(Listed(v, dir))
              IN  /\ Len(v.loaded[dir]) = n
                  /\ dir \in v.refused => n > v.cluster_entries
                  /\ \A k \in 1..n :
                        /\ KindFits(v.loaded[dir][k])
                        /\ k <= v.cluster_entries => v.loaded[dir][k] = v.entries[dir][k]

VARIABLES
    volume,
    payload,            \* by private address: "ok", or "null" or "freed" behind the item
    pc, rest, parts,    \* fopen: where it is, the text not parsed, the parts still to look up
    current, found,     \* fat16_get_directory_entry: current_item, tmp_item
    at,                 \* the entry fat16_find_item_in_directory is at
    held,               \* heap objects in use
    status,             \* "running", "wild" after a use of NULL or of freed memory,
                        \* "misread" after a directory was read as a file
    asked, ret,         \* history: the last call, and what it returned
    starved,            \* history: an allocation has failed
    leaky               \* history: a call met a case in which the code loses memory

call == <<rest, parts, current, found, at>>
table == <<file_descriptors, item, fpos, allocated, orphans>>
history == <<asked, ret, leaky>>
openVars == <<vars, volume, payload, pc, call, held, status, history, starved>>

NoCall == <<>>
Nothing == [item |-> NoItem, type |-> "none", data |-> "none"]

OpenInit ==
    /\ Init
    /\ volume \in Volumes
    /\ payload = [p \in Privates |-> "ok"]
    /\ pc = "idle" /\ rest = <<>> /\ parts = <<>>
    /\ current = Nothing /\ found = Nothing /\ at = 1
    /\ held = 0 /\ status = "running"
    /\ asked = NoCall /\ ret = 0 /\ starved = FALSE /\ leaky = FALSE

\* the objects behind a fat_item_t, itself included
Objects(type, data) == IF data # "ok" THEN 1 ELSE IF type = "file" THEN 2 ELSE 3

-----------------------------------------------------------------------------
(* What is expected of a path, without the parser and the loops.             *)

\* where a text is cut: at its slashes, in order, and at its end
Slashes(text) == {k \in DOMAIN text : text[k] = "/"}
NumberOfParts(text) == Cardinality(Slashes(text))
Ends(text) == Slashes(text) \cup {Len(text) + 1}
Before(text, k) == {j \in Slashes(text) : j < k}
Cut(text, n) ==
    CHOOSE k \in Ends(text) : Cardinality(Before(text, k)) = n - 1
Part(text, n) == SubSeq(text, Cut(text, n) + 1, Cut(text, n + 1) - 1)

\* fat16_to_proper_string and fat16_get_full_relative_filename: the name and the
\* extension up to their first blank, with a dot between them if there is both
UpToBlank(in) ==
    LET blanks == {k \in DOMAIN in : in[k] = " "}
    IN  IF blanks = {} THEN in ELSE SubSeq(in, 1, Lowest(blanks) - 1)
FullName(entry) ==
    UpToBlank(entry.filename)
        \o (IF Head(entry.ext) = " " THEN <<>> ELSE <<".">> \o UpToBlank(entry.ext))

\* istrncmp
SameText(name, part) ==
    [k \in DOMAIN name |-> Lower[name[k]]] = [k \in DOMAIN part |-> Lower[part[k]]]
Named(entry, part) == SameText(FullName(entry), part)

\* the entry a name leads to
Lookup(v, dir, part) ==
    LET named == IF dir \in Directories \cup {Root}
                   THEN {k \in Listed(v, dir) : Named(v.entries[dir][k], part)} ELSE {}
    IN  IF named = {} THEN NoItem ELSE v.entries[dir][CHOOSE k \in named : TRUE].item

\* where the first n parts of a path lead
Resolve(v, text, n) ==
    LET to[m \in 0..NumberOfParts(text)] ==
            IF m = 0 THEN Root ELSE Lookup(v, to[m - 1], Part(text, m))
    IN  to[n]

\* a disk whose names are distinct in each directory, with no deleted entry before
\* another, whose root directory ends before its array, and whose other directories
\* end in their first cluster
Tidy(v) ==
    \A dir \in Directories \cup {Root} :
        LET list == v.entries[dir]
        IN  /\ Listed(v, dir) = 1..Cardinality(Listed(v, dir))
            /\ \A j, k \in Listed(v, dir) :
                  SameText(FullName(list[j]), FullName(list[k])) => j = k
            /\ dir = Root => Len(list) <= v.root_dir_entries
            /\ dir # Root => Cardinality(Listed(v, dir)) <= v.cluster_entries

Plain(text) ==
    /\ Len(text) <= MAX_PATH
    /\ Len(text) > 3 /\ text[1] = "0" /\ text[2] = ":" /\ text[3] = "/"
    /\ \A j \in 1..NumberOfParts(text) : Part(text, j) # <<>>

\* a part but the last leads to a file
ThroughFile(v, text) ==
    \E n \in 1..(NumberOfParts(text) - 1) : Resolve(v, text, n) \in Files
\* a part but the last leads nowhere
ThroughNothing(v, text) ==
    \E n \in 1..(NumberOfParts(text) - 1) : Resolve(v, text, n) = NoItem

-----------------------------------------------------------------------------
\* fopen has come to its end without a descriptor
Refuse == pc' = "idle" /\ ret' = 0
Cleared == rest' = <<>> /\ parts' = <<>> /\ current' = Nothing /\ found' = Nothing /\ at' = 1

\* a use of NULL or of freed memory: what follows is up to the memory
Wild ==
    /\ status' = "wild" /\ pc' = "idle"
    /\ UNCHANGED <<table, volume, payload, call, held, history>>

\* kernel_zalloc gives nothing and the code writes to what it got
NullWrite == starved' = TRUE /\ Wild

\* parser_path_valid_format
ValidFormat(text) ==
    Len(text) >= 3 /\ text[1] \in Digits /\ text[2] = ":" /\ text[3] = "/"

\* fopen calls the parser, which checks the length and the start of the text and
\* allocates the root of the path
CallFopen(text, mode) ==
    /\ status = "running" /\ pc = "idle" /\ held <= MaxHeld
    /\ asked' = <<text, mode, FreeSlots # {}>>
    /\ leaky' = (leaky \/ ThroughFile(volume, text) \/ ~Tidy(volume) \/ FreeSlots = {})
    /\ \/ /\ Len(text) > MAX_PATH \/ ~ValidFormat(text)
          /\ Refuse /\ UNCHANGED call
       \/ /\ Len(text) <= MAX_PATH /\ ValidFormat(text)
          /\ pc' = "parse" /\ rest' = SubSeq(text, 4, Len(text)) /\ ret' = 0
          /\ UNCHANGED <<parts, current, found, at>>
    /\ UNCHANGED <<table, volume, payload, held, status, starved>>

\* Mutant: the slash behind a part stays.
AfterPartAt(k) == SubSeq(rest, k, Len(rest))
AfterPart(k) == SubSeq(rest, k + 1, Len(rest))

\* parser_parse_path_part: the words up to the next slash; an empty part ends the
\* path, whatever is behind it.  parser_free has no caller.
ParsePart ==
    /\ status = "running" /\ pc = "parse"
    /\ LET k == IF Slashes(rest) = {} THEN Len(rest) + 1 ELSE Lowest(Slashes(rest))
       IN  IF k = 1
             THEN /\ pc' = "check"
                  /\ UNCHANGED <<rest, parts>>
             ELSE /\ parts' = Append(parts, SubSeq(rest, 1, k - 1))
                  /\ rest' = AfterPart(k)
                  /\ UNCHANGED pc
    /\ UNCHANGED <<table, volume, payload, current, found, at, held, status, history, starved>>

\* the root of the path, the text of a part or the part is not allocated
ParseFails == status = "running" /\ pc = "parse" /\ NullWrite

\* fopen: an empty path, a drive but 0, a disk without a file system, or another
\* mode than reading; else fat16_open allocates the private descriptor
CheckCall ==
    /\ status = "running" /\ pc = "check"
    /\ \/ /\ \/ parts = <<>> \/ asked[1][1] # "0" \/ ~volume.mounted \/ asked[2] # "r"
          /\ Refuse /\ Cleared
          /\ UNCHANGED <<held, starved>>
       \/ /\ parts # <<>> /\ asked[1][1] = "0" /\ volume.mounted /\ asked[2] = "r"
          /\ \/ /\ pc' = "scan" /\ held' = held + 1
                /\ UNCHANGED <<call, ret, starved>>
             \/ /\ Refuse /\ Cleared /\ starved' = TRUE
                /\ UNCHANGED held
    /\ UNCHANGED <<table, volume, payload, status, asked, leaky>>

-----------------------------------------------------------------------------
(* The lookup: the directory of `current', or the root for the first part.   *)

directory == IF current = Nothing THEN Root ELSE current.item
entries == IF directory = Root THEN volume.entries[Root] ELSE volume.loaded[directory]

\* fat16_get_total_items_for_directory
total == Cardinality(Listed(volume, directory))
ArrayLength == IF directory = Root THEN volume.root_dir_entries ELSE total

\* fat16_load_fat_directory and fat16_clone_directory_item when there is memory: a
\* directory whose read is refused is freed, and returned.  Mutant: it is freed
\* also when it was read.
LoadedAndFreed(entry) == IF entry.kind = "directory" THEN "freed" ELSE "ok"
Loaded(entry) ==
    IF entry.kind = "directory" /\ entry.item \in volume.refused THEN "freed" ELSE "ok"

\* fat16_new_fat_item_for_directory_item: the item, with or without what should be
\* behind it, or none
NewItem(entry) ==
    \/ /\ found' = [item |-> entry.item, type |-> entry.kind, data |-> Loaded(entry)]
       /\ held' = held + Objects(entry.kind, Loaded(entry))
       /\ UNCHANGED starved
    \/ /\ found' = Nothing
       /\ starved' = TRUE
       /\ UNCHANGED held
    \/ \E data \in IF entry.kind = "directory" THEN {"null", "freed"} ELSE {"null"} :
          /\ found' = [item |-> entry.item, type |-> entry.kind, data |-> data]
          /\ held' = held + Objects(entry.kind, data)
          /\ starved' = TRUE

\* fat16_find_item_in_directory, one entry
ScanEntry ==
    /\ status = "running" /\ pc = "scan" /\ at <= total /\ at <= ArrayLength
    /\ IF Named(entries[at], Head(parts)) /\ entries[at].kind # "deleted"
         THEN NewItem(entries[at])
         ELSE UNCHANGED <<found, held, starved>>
    /\ at' = at + 1
    /\ UNCHANGED <<table, volume, payload, pc, rest, parts, current, status, history>>

\* more entries were counted than the array has
ScanBehindArray ==
    /\ status = "running" /\ pc = "scan" /\ at <= total /\ at > ArrayLength
    /\ Wild /\ UNCHANGED starved

\* fat16_fat_item_free of the directory that was scanned
FreeCurrent ==
    IF current = Nothing THEN held ELSE held - Objects(current.type, current.data)

\* the loop of fat16_get_directory_entry goes on with what was found
EndScan ==
    /\ status = "running" /\ pc = "scan" /\ at > total
    /\ held' = FreeCurrent
    /\ current' = found /\ found' = Nothing /\ at' = 1
    /\ parts' = Tail(parts)
    /\ pc' = IF found = Nothing /\ current = Nothing THEN "end" ELSE "next"
    /\ UNCHANGED <<table, volume, payload, rest, status, history, starved>>

\* the next part is looked up in a directory that was loaded
NextPart ==
    /\ status = "running" /\ pc = "next"
    /\ parts # <<>> /\ current.type = "directory" /\ current.data = "ok"
    /\ pc' = "scan"
    /\ UNCHANGED <<table, volume, payload, call, held, status, history, starved>>

\* The next part needs a directory and there is a file, which is lost; or there is
\* nothing and the type read at address 4 is not a directory's.
NextPartRefused ==
    /\ status = "running" /\ pc = "next"
    /\ parts # <<>> /\ current.type # "directory"
    /\ pc' = "end"
    /\ current' = Nothing
    /\ UNCHANGED <<table, volume, payload, rest, parts, found, at, held, status, history, starved>>

\* the same with a directory's type at address 4, or a directory that could not be
\* loaded: the entries are read from NULL or from freed memory
NextPartWild ==
    /\ status = "running" /\ pc = "next"
    /\ parts # <<>>
    /\ current = Nothing \/ (current.type = "directory" /\ current.data # "ok")
    /\ Wild /\ UNCHANGED starved

LastPart ==
    /\ status = "running" /\ pc = "next" /\ parts = <<>>
    /\ pc' = "end"
    /\ UNCHANGED <<table, volume, payload, call, held, status, history, starved>>

-----------------------------------------------------------------------------
\* Mutant: the private descriptor of a failed open is kept.
KeepPrivate == UNCHANGED held
FreePrivate == held' = held - 1

\* fat16_open found nothing
NotFound ==
    /\ status = "running" /\ pc = "end" /\ current = Nothing
    /\ FreePrivate
    /\ Refuse /\ Cleared
    /\ UNCHANGED <<table, volume, payload, status, asked, leaky, starved>>

\* fat16_open returns the private descriptor, file_new_descriptor takes a slot
Install(p) ==
    /\ status = "running" /\ pc = "end" /\ current # Nothing
    /\ Fopen(current.item, p)
    /\ payload' = [payload EXCEPT ![p] = current.data]
    /\ held' = IF FreeSlots = {} THEN held ELSE held + 1
    /\ ret' = IF FreeSlots = {} THEN 0 ELSE Lowest(FreeSlots) + 1
    /\ pc' = "idle" /\ Cleared
    /\ UNCHANGED <<volume, status, asked, leaky, starved>>

\* file_new_descriptor writes to a descriptor it could not allocate
InstallFails ==
    /\ status = "running" /\ pc = "end" /\ current # Nothing /\ FreeSlots # {}
    /\ NullWrite

-----------------------------------------------------------------------------
PrivateOf(fd) == GetDescriptor(fd).private
Usable(fd) == status = "running" /\ pc = "idle" /\ GetDescriptor(fd) # Empty
TypeOf(p) == IF item[p] \in Files THEN "file" ELSE "directory"

\* fclose of an item whose data is there, or of a directory that has none
CloseOpen(fd) ==
    /\ Usable(fd)
    /\ payload[PrivateOf(fd)] = "ok"
         \/ (payload[PrivateOf(fd)] = "null" /\ TypeOf(PrivateOf(fd)) = "directory")
    /\ Fclose(fd)
    /\ held' = held - 2 - Objects(TypeOf(PrivateOf(fd)), payload[PrivateOf(fd)])
    /\ payload' = [payload EXCEPT ![PrivateOf(fd)] = "ok"]
    /\ asked' = NoCall /\ ret' = 0
    /\ UNCHANGED <<volume, pc, call, status, leaky, starved>>

\* kernel_free(NULL), or a directory freed a second time
CloseWild(fd) ==
    /\ Usable(fd)
    /\ \/ payload[PrivateOf(fd)] = "freed"
       \/ payload[PrivateOf(fd)] = "null" /\ TypeOf(PrivateOf(fd)) = "file"
    /\ Wild /\ UNCHANGED starved

\* fseek, fat16_seek
SeekOpen(fd, offset, whence) ==
    /\ Usable(fd)
    /\ payload[PrivateOf(fd)] = "ok"
    /\ Fseek(fd, offset, whence)
    /\ asked' = NoCall /\ ret' = 0
    /\ UNCHANGED <<volume, payload, pc, call, held, status, leaky, starved>>

\* fread of what has no data behind it; fseek and fstat look at the type first
UseWild(fd) ==
    /\ Usable(fd) /\ payload[PrivateOf(fd)] # "ok"
    /\ Wild /\ UNCHANGED starved

\* fread does not look at the type: the start of a directory's structure is taken
\* for the entry of a file
ReadDirectory(fd) ==
    /\ Usable(fd) /\ payload[PrivateOf(fd)] = "ok" /\ TypeOf(PrivateOf(fd)) = "directory"
    /\ status' = "misread"
    /\ UNCHANGED <<table, volume, payload, pc, call, held, history, starved>>

OpenNext ==
    \/ \E text \in Paths, mode \in {"r", "w"} : CallFopen(text, mode)
    \/ ParsePart \/ ParseFails \/ CheckCall
    \/ ScanEntry \/ ScanBehindArray \/ EndScan
    \/ NextPart \/ NextPartRefused \/ NextPartWild \/ LastPart
    \/ NotFound \/ InstallFails
    \/ \E p \in Privates : Install(p)
    \/ \E fd \in 1..MAX_FILE_DESCRIPTORS : CloseOpen(fd) \/ CloseWild(fd) \/ UseWild(fd)
                                            \/ ReadDirectory(fd)
    \/ \E fd \in 1..MAX_FILE_DESCRIPTORS, offset \in 0..(Word - 1),
          whence \in {"SEEK_SET", "SEEK_CUR"} : SeekOpen(fd, offset, whence)

OpenSpec == OpenInit /\ [][OpenNext]_openVars
-----------------------------------------------------------------------------
\* As long as no allocation fails, fopen of a well-formed path on a tidy disk hands
\* out a descriptor of the very file or directory the names lead to, whatever their
\* case, and none if there is none, the mode is not reading or the table is full:
\* the parser, the counts of entries and the loops of the lookup agree with the
\* plain meaning of a path (parser.c:39-135, fat16.c:604-647).
FindsTheFile ==
    /\ status = "running" /\ pc = "idle" /\ ~starved
    /\ asked # NoCall /\ Plain(asked[1]) /\ Tidy(volume)
    => LET there == Resolve(volume, asked[1], NumberOfParts(asked[1]))
           opens == there # NoItem /\ volume.mounted /\ asked[2] = "r" /\ asked[3]
       IN  /\ ret # 0 <=> opens
           /\ opens => /\ item[file_descriptors[ret - 1].private] = there
                       /\ payload[file_descriptors[ret - 1].private] = "ok"

\* On a tidy disk NULL and freed memory are used only once an allocation has failed,
\* or by a path that goes on behind a name that is not there.  A disk that is not
\* tidy can do more: a root directory that fills its array and goes on behind it, a
\* deleted entry or a second entry of a name, which hide what a path goes through,
\* and a directory of several clusters, which is misread or freed and returned
\* (fat16.c:237-260, 559-583, 608-616).
NoStrayAccess ==
    status = "wild" =>
        \/ starved
        \/ asked # NoCall /\ ThroughNothing(volume, asked[1])
        \/ ~Tidy(volume)

\* the sum of a number for each slot
SumOver(shares) ==
    LET upTo[n \in 0..MAX_FILE_DESCRIPTORS] ==
            IF n = 0 THEN 0 ELSE upTo[n - 1] + shares[n - 1]
    IN  upTo[MAX_FILE_DESCRIPTORS]

\* the objects a descriptor stands for, itself included
Behind(desc) ==
    IF desc = Empty THEN 0 ELSE 2 + Objects(TypeOf(desc.private), payload[desc.private])

\* But for the parsed paths, which are never freed, every object the file layer has
\* taken is behind a descriptor, whatever was opened, refused and closed, unless a
\* call met a path through a file, a disk that is not tidy or a full table; failed
\* allocations lose nothing.
MemoryAccounted ==
    status = "running" /\ pc = "idle" /\ ~leaky =>
        held = SumOver([s \in Slots |-> Behind(file_descriptors[s])])
=============================================================================
