--------------------------- MODULE FileOpenProofs ---------------------------
(***************************************************************************)
(* fopen, fclose and fseek never mix up two open files: the table of         *)
(* descriptors keeps its promise for every size of the table, every disk     *)
(* and every path.  fopen finds what a path names, strays only where it is   *)
(* said to, and loses no other memory than is said.                          *)
(***************************************************************************)
EXTENDS FileOpen, FiniteSetTheorems, SequenceTheorems, TLAPS

\* file.c:66-92: a descriptor's number is its slot's, so that closing it clears
\* the slot it is in.
Placed == \A s \in Slots : file_descriptors[s] # Empty => file_descriptors[s].index = s + 1

\* OwnPrivate is not inductive alone: fclose clears the slot the descriptor's
\* number names, which has to be the one the descriptor is in.
TableInv ==
    /\ file_descriptors = [s \in Slots |-> file_descriptors[s]]
    /\ TypeOK /\ Placed /\ OwnPrivate

\* Every set of slots has a least one.
LEMMA LeastOfSlots ==
    ASSUME NEW slots \in SUBSET Nat, slots # {}
    PROVE  \E p \in slots : \A q \in slots : p <= q
<1>1. PICK p \in slots : \A q \in slots : ~(<<q, p>> \in OpToRel(<, Nat))
  BY NatLessThanWellFounded, WFMin
<1>2. \A q \in slots : ~(q < p)
  BY <1>1 DEF OpToRel
<1> QED BY <1>2

\* file.c:74-92: with a slot free, there is a first one.
LEMMA LowestIsFree ==
    ASSUME FreeSlots # {}
    PROVE  Lowest(FreeSlots) \in FreeSlots
<1>1. FreeSlots \in SUBSET Nat
  BY FilesAssumption DEF FreeSlots, Slots
<1>2. \E p \in FreeSlots : \A q \in FreeSlots : p <= q
  BY <1>1, LeastOfSlots
<1> QED BY <1>2 DEF Lowest

LEMMA TableInitInv == Init => TableInv
<1> SUFFICES ASSUME Init PROVE TableInv
  OBVIOUS
<1>1. TypeOK
  BY FilesAssumption DEF Init, TypeOK
<1>2. OwnPrivate /\ Placed
  BY DEF Init, OwnPrivate, Placed
<1> QED BY <1>1, <1>2 DEF Init, TableInv

\* file.c:181-197: a file that is opened gets memory of its own, and a number no
\* other file has, if one is left.
LEMMA FopenInv ==
    ASSUME TableInv, NEW f \in Items, NEW p \in Privates, Fopen(f, p)
    PROVE  TableInv'
<1>1. /\ p \notin allocated /\ allocated' = allocated \cup {p}
      /\ item' = [item EXCEPT ![p] = f] /\ fpos' = [fpos EXCEPT ![p] = 0]
  BY DEF Fopen, OpenAtStart
<1>2. \A s \in Slots : file_descriptors[s] # Empty => file_descriptors[s].private # p
  BY <1>1 DEF TableInv, OwnPrivate
<1>3. p \notin orphans
  BY <1>1 DEF TableInv, OwnPrivate
<1>4. /\ item' \in [Privates -> Items \cup {NoItem}]
      /\ fpos' \in [Privates -> 0..(Word - 1)]
      /\ allocated' \subseteq Privates
  BY <1>1, FilesAssumption DEF TableInv, TypeOK
<1>5. CASE FreeSlots = {}
  <2>1. orphans' = orphans \cup {p} /\ file_descriptors' = file_descriptors
    BY <1>5 DEF Fopen
  <2>2. TypeOK'
    BY <1>4, <2>1 DEF TableInv, TypeOK
  <2>3. OwnPrivate'
    BY <1>1, <1>2, <2>1 DEF TableInv, OwnPrivate
  <2> QED BY <2>1, <2>2, <2>3 DEF TableInv, Placed
<1>6. CASE FreeSlots # {}
  <2> DEFINE s == Lowest(FreeSlots)
  <2>1. s \in Slots /\ file_descriptors[s] = Empty
    BY <1>6, LowestIsFree DEF FreeSlots
  <2>2. /\ orphans' = orphans
        /\ file_descriptors' = [file_descriptors EXCEPT ![s] = [index |-> s + 1, private |-> p]]
    BY <1>6 DEF Fopen, NewDescriptor
  <2> HIDE DEF s
  <2>3. s + 1 \in 1..MAX_FILE_DESCRIPTORS /\ s + 1 # 0
    BY <2>1, FilesAssumption DEF Slots
  <2>4. /\ DOMAIN file_descriptors' = Slots
        /\ file_descriptors'[s] = [index |-> s + 1, private |-> p]
        /\ file_descriptors'[s] # Empty
        /\ \A t \in Slots \ {s} : file_descriptors'[t] = file_descriptors[t]
    BY <2>1, <2>2, <2>3 DEF TableInv, Empty
  <2>5. TypeOK'
    BY <1>4, <2>2, <2>3, <2>4 DEF TableInv, TypeOK
  <2>6. Placed'
    BY <2>4 DEF TableInv, Placed
  <2>7. OwnPrivate'
    <3> DEFINE Used == {t \in Slots : file_descriptors[t] # Empty}
    <3>1. {t \in Slots : file_descriptors'[t] # Empty} = Used \cup {s}
      BY <2>1, <2>4
    <3>2. /\ \A t, u \in Used : t # u => file_descriptors[t].private # file_descriptors[u].private
          /\ allocated = {file_descriptors[t].private : t \in Used} \cup orphans
          /\ \A t \in Used : file_descriptors[t].private \notin orphans
      BY DEF TableInv, OwnPrivate
    <3>3. \A t \in Used : /\ t \in Slots \ {s} /\ file_descriptors[t].private # p
                          /\ file_descriptors'[t] = file_descriptors[t]
      BY <1>2, <2>1, <2>4
    <3>4. file_descriptors'[s].private = p
      BY <2>4
    <3> HIDE DEF Used
    <3>5. allocated' = {file_descriptors'[t].private : t \in Used \cup {s}} \cup orphans'
      BY <1>1, <2>2, <3>2, <3>3, <3>4
    <3> QED BY <1>3, <2>2, <3>1, <3>2, <3>3, <3>4, <3>5 DEF OwnPrivate
  <2> QED BY <2>2, <2>4, <2>5, <2>6, <2>7 DEF TableInv
<1> QED BY <1>5, <1>6

\* The slot fclose and fseek reach through a number is the one it was given for
\* (file.c:94-105).
LEMMA DescriptorOf ==
    ASSUME TableInv, NEW fd \in 0..MAX_FILE_DESCRIPTORS, GetDescriptor(fd) # Empty
    PROVE  /\ fd - 1 \in Slots /\ fd \in 1..MAX_FILE_DESCRIPTORS
           /\ GetDescriptor(fd) = file_descriptors[fd - 1]
           /\ SlotOf(GetDescriptor(fd)) = fd - 1
           /\ GetDescriptor(fd).private \in Privates
<1>1. fd > 0 /\ fd < MAX_FILE_DESCRIPTORS /\ GetDescriptor(fd) = file_descriptors[fd - 1]
  BY FilesAssumption DEF GetDescriptor
<1>2. fd - 1 \in Slots
  BY <1>1, FilesAssumption DEF Slots
<1>3. file_descriptors[fd - 1].index = fd /\ file_descriptors[fd - 1].private \in Privates
  BY <1>1, <1>2 DEF TableInv, Placed, TypeOK
<1> QED BY <1>1, <1>2, <1>3 DEF SlotOf

\* file.c:224-241: fclose frees the memory of its own file and no other.
LEMMA FcloseInv ==
    ASSUME TableInv, NEW fd \in 0..MAX_FILE_DESCRIPTORS, Fclose(fd)
    PROVE  TableInv'
<1> DEFINE s == fd - 1
           p == file_descriptors[s].private
<1>1. /\ s \in Slots /\ file_descriptors[s] # Empty /\ p \in Privates
      /\ allocated' = allocated \ {p}
      /\ file_descriptors' = [file_descriptors EXCEPT ![s] = Empty]
      /\ item' = [item EXCEPT ![p] = NoItem] /\ fpos' = [fpos EXCEPT ![p] = 0]
      /\ orphans' = orphans
  BY DescriptorOf DEF Fclose
<1> HIDE DEF s
<1>2. TypeOK'
  BY <1>1, FilesAssumption DEF TableInv, TypeOK
<1>3. /\ DOMAIN file_descriptors' = Slots /\ file_descriptors'[s] = Empty
      /\ \A t \in Slots \ {s} : file_descriptors'[t] = file_descriptors[t]
  BY <1>1 DEF TableInv
<1>4. Placed'
  BY <1>3 DEF TableInv, Placed
<1>5. OwnPrivate'
  <2> DEFINE Used == {t \in Slots : file_descriptors[t] # Empty}
  <2>1. {t \in Slots : file_descriptors'[t] # Empty} = Used \ {s}
    BY <1>1, <1>3
  <2>2. /\ \A t, u \in Used : t # u => file_descriptors[t].private # file_descriptors[u].private
        /\ allocated = {file_descriptors[t].private : t \in Used} \cup orphans
        /\ \A t \in Used : file_descriptors[t].private \notin orphans
    BY DEF TableInv, OwnPrivate
  <2>3. s \in Used
    BY <1>1
  <2>4. allocated' = {file_descriptors'[t].private : t \in Used \ {s}} \cup orphans'
    BY <1>1, <1>3, <2>2, <2>3
  <2> HIDE DEF Used
  <2>5. \A t \in Used \ {s} : t \in Slots
    BY DEF Used
  <2> QED BY <1>1, <1>3, <2>1, <2>2, <2>4, <2>5 DEF OwnPrivate
<1> QED BY <1>1, <1>2, <1>3, <1>4, <1>5 DEF TableInv

\* fat16.c:741-779: fseek moves one position and keeps it within 32 bits.
LEMMA FseekInv ==
    ASSUME TableInv, NEW fd \in 0..MAX_FILE_DESCRIPTORS, NEW dist \in 0..(Word - 1),
           NEW whence \in {"SEEK_SET", "SEEK_CUR"}, Fseek(fd, dist, whence)
    PROVE  /\ TableInv'
           /\ \E pos \in 0..(Word - 1) :
                fpos' = [fpos EXCEPT ![file_descriptors[fd - 1].private] = pos]
<1> DEFINE p == file_descriptors[fd - 1].private
<1>1. p \in Privates /\ GetDescriptor(fd).private = p
  BY DescriptorOf DEF Fseek
<1>2. fpos[p] \in 0..(Word - 1)
  BY <1>1 DEF TableInv, TypeOK
<1>3. (fpos[p] + dist) % Word \in 0..(Word - 1)
  BY <1>2, FilesAssumption
<1>4. PICK pos \in 0..(Word - 1) : fpos' = [fpos EXCEPT ![p] = pos]
  <2>1. CASE whence = "SEEK_SET" /\ fpos' = [fpos EXCEPT ![p] = dist]
    BY <2>1
  <2>2. CASE whence = "SEEK_CUR" /\ fpos' = [fpos EXCEPT ![p] = (@ + dist) % Word]
    BY <1>3, <2>2
  <2> QED BY <1>1, <2>1, <2>2 DEF Fseek
<1>5. TableInv'
  <2>1. UNCHANGED <<file_descriptors, item, allocated, orphans>>
    BY DEF Fseek
  <2>2. TypeOK'
    BY <1>4, <2>1 DEF TableInv, TypeOK
  <2> QED BY <2>1, <2>2 DEF TableInv, Placed, OwnPrivate
<1> QED BY <1>4, <1>5

LEMMA TableStepInv == TableInv /\ [Next]_vars => TableInv'
<1> SUFFICES ASSUME TableInv, [Next]_vars PROVE TableInv'
  OBVIOUS
<1>1. CASE UNCHANGED vars
  BY <1>1 DEF vars, TableInv, TypeOK, Placed, OwnPrivate
<1>2. CASE Next
  BY <1>2, FopenInv, FcloseInv, FseekInv DEF Next
<1> QED BY <1>1, <1>2

\* The invariant of the table of descriptors.
THEOREM TableInvariant == Spec => []TableInv
  BY TableInitInv, TableStepInv, PTL DEF Spec

\* Behind every descriptor there is memory of its own that is alive, so that each
\* fclose frees it once, and all that is allocated is behind a descriptor but what
\* a full table has lost (file.c:67-92, 181-241).
THEOREM DescriptorsOwnMemory == Spec => []OwnPrivate
<1>1. TableInv => OwnPrivate
  BY DEF TableInv
<1> QED BY TableInvariant, <1>1, PTL

-----------------------------------------------------------------------------
\* What a caller sees of the table.
Shown ==
    [n \in 1..MAX_FILE_DESCRIPTORS |->
        IF file_descriptors[n - 1] = Empty THEN Empty
        ELSE [item |-> item[file_descriptors[n - 1].private],
              pos |-> fpos[file_descriptors[n - 1].private]]]

\* A number with a file behind it is not a closed one.
LEMMA OpenIsNotClosed == \A f, n : [item |-> f, pos |-> n] # Empty
<1> SUFFICES ASSUME NEW f, NEW n, [item |-> f, pos |-> n] = [index |-> 0, private |-> 0]
             PROVE  FALSE
  BY DEF Empty
<1>1. DOMAIN [item |-> f, pos |-> n] = DOMAIN [index |-> 0, private |-> 0]
  OBVIOUS
<1> QED BY <1>1

\* What a number stands for is a matter of its slot and the memory behind it.
LEMMA SlotOfNumber ==
    ASSUME NEW n \in 1..MAX_FILE_DESCRIPTORS PROVE n - 1 \in Slots
  BY FilesAssumption DEF Slots

\* fopen hands out a number that stood for nothing, for a file at its start, and
\* leaves every other number's file and position alone.
LEMMA FopenIsOpen ==
    ASSUME TableInv, NEW f \in Items, NEW p \in Privates, Fopen(f, p)
    PROVE  \/ Shown' = Shown
           \/ \E n \in 1..MAX_FILE_DESCRIPTORS :
                /\ Shown[n] = Empty
                /\ Shown' = [Shown EXCEPT ![n] = [item |-> f, pos |-> 0]]
<1>1. /\ p \notin allocated
      /\ item' = [item EXCEPT ![p] = f] /\ fpos' = [fpos EXCEPT ![p] = 0]
      /\ item'[p] = f /\ fpos'[p] = 0
  BY DEF Fopen, OpenAtStart, TableInv, TypeOK
<1>2. ASSUME NEW s \in Slots, file_descriptors[s] # Empty
      PROVE  /\ file_descriptors[s].private # p
             /\ item'[file_descriptors[s].private] = item[file_descriptors[s].private]
             /\ fpos'[file_descriptors[s].private] = fpos[file_descriptors[s].private]
  <2>1. file_descriptors[s].private # p /\ file_descriptors[s].private \in Privates
    BY <1>1, <1>2 DEF TableInv, OwnPrivate, TypeOK
  <2> QED BY <1>1, <2>1 DEF TableInv, TypeOK
<1>3. CASE FreeSlots = {}
  <2>1. file_descriptors' = file_descriptors
    BY <1>3 DEF Fopen
  <2>2. Shown' = Shown
    BY <1>2, <2>1, SlotOfNumber DEF Shown
  <2> QED BY <2>2
<1>4. CASE FreeSlots # {}
  <2> DEFINE s == Lowest(FreeSlots)
  <2>1. s \in Slots /\ file_descriptors[s] = Empty
    BY <1>4, LowestIsFree DEF FreeSlots
  <2>2. file_descriptors' = [file_descriptors EXCEPT ![s] = [index |-> s + 1, private |-> p]]
    BY <1>4 DEF Fopen, NewDescriptor
  <2> HIDE DEF s
  <2>3. s + 1 \in 1..MAX_FILE_DESCRIPTORS /\ s \in Nat
    BY <2>1, FilesAssumption DEF Slots
  <2>4. /\ file_descriptors'[s] = [index |-> s + 1, private |-> p]
        /\ file_descriptors'[s] # Empty
        /\ \A t \in Slots \ {s} : file_descriptors'[t] = file_descriptors[t]
    BY <2>1, <2>2, <2>3 DEF TableInv, Empty
  <2>5. Shown[s + 1] = Empty
    BY <2>1, <2>3 DEF Shown
  <2>6. Shown' = [Shown EXCEPT ![s + 1] = [item |-> f, pos |-> 0]]
    <3>1. Shown'[s + 1] = [item |-> f, pos |-> 0]
      BY <1>1, <2>3, <2>4 DEF Shown
    <3>2. ASSUME NEW n \in 1..MAX_FILE_DESCRIPTORS, n # s + 1 PROVE Shown'[n] = Shown[n]
      <4>1. n - 1 \in Slots \ {s}
        BY <2>3, <3>2, SlotOfNumber
      <4> QED BY <1>2, <2>4, <4>1 DEF Shown
    <3>3. /\ Shown = [n \in 1..MAX_FILE_DESCRIPTORS |-> Shown[n]]
          /\ Shown' = [n \in 1..MAX_FILE_DESCRIPTORS |-> Shown'[n]]
      BY DEF Shown
    <3>4. /\ Shown' = [n \in 1..MAX_FILE_DESCRIPTORS |->
                        IF n = s + 1 THEN [item |-> f, pos |-> 0] ELSE Shown[n]]
      <4> HIDE DEF Shown
      <4> QED BY <2>3, <3>1, <3>2, <3>3
    <3> HIDE DEF Shown
    <3> QED BY <2>3, <3>3, <3>4
  <2> QED BY <2>3, <2>5, <2>6
<1> QED BY <1>3, <1>4

\* fclose closes its own number and leaves every other number's file alone.
LEMMA FcloseIsClose ==
    ASSUME TableInv, NEW fd \in 0..MAX_FILE_DESCRIPTORS, Fclose(fd)
    PROVE  fd \in 1..MAX_FILE_DESCRIPTORS /\ Shown' = [Shown EXCEPT ![fd] = Empty]
<1> DEFINE s == fd - 1
           p == file_descriptors[s].private
<1>1. /\ s \in Slots /\ file_descriptors[s] # Empty /\ p \in Privates
      /\ file_descriptors' = [file_descriptors EXCEPT ![s] = Empty]
      /\ item' = [item EXCEPT ![p] = NoItem] /\ fpos' = [fpos EXCEPT ![p] = 0]
      /\ fd \in 1..MAX_FILE_DESCRIPTORS
  BY DescriptorOf DEF Fclose
<1>2. ASSUME NEW n \in 1..MAX_FILE_DESCRIPTORS, n # fd PROVE Shown'[n] = Shown[n]
  <2>1. n - 1 \in Slots /\ n - 1 # s
    BY <1>1, <1>2, SlotOfNumber
  <2>2. file_descriptors'[n - 1] = file_descriptors[n - 1]
    BY <1>1, <2>1 DEF TableInv
  <2>3. CASE file_descriptors[n - 1] # Empty
    <3>1. file_descriptors[n - 1].private \in Privates /\ file_descriptors[n - 1].private # p
      BY <1>1, <2>1, <2>3 DEF TableInv, OwnPrivate, TypeOK
    <3>2. /\ item'[file_descriptors[n - 1].private] = item[file_descriptors[n - 1].private]
          /\ fpos'[file_descriptors[n - 1].private] = fpos[file_descriptors[n - 1].private]
      BY <1>1, <3>1 DEF TableInv, TypeOK
    <3> QED BY <2>2, <3>2 DEF Shown
  <2> QED BY <2>2, <2>3 DEF Shown
<1>3. Shown'[fd] = Empty
  <2>1. file_descriptors'[s] = Empty
    BY <1>1 DEF TableInv
  <2> QED BY <1>1, <2>1 DEF Shown
<1>4. /\ Shown = [n \in 1..MAX_FILE_DESCRIPTORS |-> Shown[n]]
      /\ Shown' = [n \in 1..MAX_FILE_DESCRIPTORS |-> Shown'[n]]
  BY DEF Shown
<1> HIDE DEF Shown, s, p
<1> QED BY <1>1, <1>2, <1>3, <1>4

\* fseek moves the position of its own number.
LEMMA FseekIsSeek ==
    ASSUME TableInv, NEW fd \in 0..MAX_FILE_DESCRIPTORS, NEW dist \in 0..(Word - 1),
           NEW whence \in {"SEEK_SET", "SEEK_CUR"}, Fseek(fd, dist, whence)
    PROVE  /\ fd \in 1..MAX_FILE_DESCRIPTORS
           /\ Shown[fd] # Empty
           /\ \E pos \in 0..(Word - 1) : Shown' = [Shown EXCEPT ![fd].pos = pos]
<1> DEFINE s == fd - 1
           p == file_descriptors[s].private
<1>1. /\ s \in Slots /\ file_descriptors[s] # Empty /\ p \in Privates
      /\ UNCHANGED <<file_descriptors, item>>
      /\ fd \in 1..MAX_FILE_DESCRIPTORS
  BY DescriptorOf DEF Fseek
<1>2. PICK pos \in 0..(Word - 1) : fpos' = [fpos EXCEPT ![p] = pos]
  <2>1. \E pos \in 0..(Word - 1) :
          fpos' = [fpos EXCEPT ![file_descriptors[fd - 1].private] = pos]
    BY FseekInv
  <2> QED BY <2>1
<1>3. Shown[fd] = [item |-> item[p], pos |-> fpos[p]]
  BY <1>1 DEF Shown
<1>4. Shown'[fd] = [item |-> item[p], pos |-> pos]
  BY <1>1, <1>2 DEF Shown, TableInv, TypeOK
<1>5. ASSUME NEW n \in 1..MAX_FILE_DESCRIPTORS, n # fd PROVE Shown'[n] = Shown[n]
  <2>1. n - 1 \in Slots /\ n - 1 # s
    BY <1>1, <1>5, SlotOfNumber
  <2>2. CASE file_descriptors[n - 1] # Empty
    <3>1. file_descriptors[n - 1].private \in Privates /\ file_descriptors[n - 1].private # p
      BY <1>1, <2>1, <2>2 DEF TableInv, OwnPrivate, TypeOK
    <3>2. fpos'[file_descriptors[n - 1].private] = fpos[file_descriptors[n - 1].private]
      BY <1>2, <3>1 DEF TableInv, TypeOK
    <3> QED BY <1>1, <3>2 DEF Shown
  <2> QED BY <1>1, <2>2 DEF Shown
<1>6. /\ Shown = [n \in 1..MAX_FILE_DESCRIPTORS |-> Shown[n]]
      /\ Shown' = [n \in 1..MAX_FILE_DESCRIPTORS |-> Shown'[n]]
  BY DEF Shown
<1>7. Shown' = [Shown EXCEPT ![fd].pos = pos]
  <2> DEFINE file == [item |-> item[p], pos |-> fpos[p]]
  <2>1. [file EXCEPT !.pos = pos] = [item |-> item[p], pos |-> pos]
    OBVIOUS
  <2> HIDE DEF Shown, s, p
  <2> QED BY <1>1, <1>3, <1>4, <1>5, <1>6, <2>1
<1> QED BY <1>1, <1>3, <1>7, OpenIsNotClosed

\* The descriptors implement the table of open files a caller expects, whatever is
\* opened, closed and sought in between.
THEOREM FilesKeepPromise == Spec => KeepsPromise
<1>1. Init => Table!Init
  BY SlotOfNumber DEF Init, Table!Init
<1>2. TableInv /\ [Next]_vars => [Table!Next]_Shown
  <2> SUFFICES ASSUME TableInv, [Next]_vars PROVE [Table!Next]_Shown
    OBVIOUS
  <2>1. ASSUME NEW f \in Items, NEW p \in Privates, Fopen(f, p) PROVE [Table!Next]_Shown
    BY <2>1, FopenIsOpen DEF Table!Next, Table!Open, Shown
  <2>2. ASSUME NEW fd \in 0..MAX_FILE_DESCRIPTORS, Fclose(fd) PROVE [Table!Next]_Shown
    BY <2>2, FcloseIsClose DEF Table!Next, Table!Close, Shown
  <2>3. ASSUME NEW fd \in 0..MAX_FILE_DESCRIPTORS, NEW dist \in 0..(Word - 1),
               NEW whence \in {"SEEK_SET", "SEEK_CUR"}, Fseek(fd, dist, whence)
        PROVE  [Table!Next]_Shown
    BY <2>3, FseekIsSeek DEF Table!Next, Table!Seek, Shown
  <2>4. CASE UNCHANGED vars
    BY <2>4 DEF vars, Shown
  <2> QED BY <2>1, <2>2, <2>3, <2>4 DEF Next
<1> QED BY <1>1, <1>2, TableInvariant, PTL DEF Spec, KeepsPromise, Table!Spec, Shown

-----------------------------------------------------------------------------
(* The parts of a path.                                                      *)

\* The slashes of a text are counted.
LEMMA SlashesFinite ==
    ASSUME NEW text \in Seq(STRING)
    PROVE  /\ Len(text) \in Nat /\ DOMAIN text = 1..Len(text)
           /\ Slashes(text) \subseteq 1..Len(text) /\ Ends(text) \subseteq Nat \ {0}
           /\ NumberOfParts(text) \in Nat
           /\ \A k : /\ IsFiniteSet(Before(text, k))
                     /\ Cardinality(Before(text, k)) \in 0..NumberOfParts(text)
<1>1. Len(text) \in Nat /\ DOMAIN text = 1..Len(text)
  OBVIOUS
<1>2. Slashes(text) \subseteq 1..Len(text) /\ Ends(text) \subseteq Nat \ {0}
  BY <1>1 DEF Slashes, Ends
<1>3. IsFiniteSet(Slashes(text))
  <2>1. IsFiniteSet(1..Len(text))
    BY <1>1, FS_Interval
  <2> QED BY <1>2, <2>1, FS_Subset
<1>4. NumberOfParts(text) \in Nat
  BY <1>3, FS_CardinalityType DEF NumberOfParts
<1>5. ASSUME NEW k
      PROVE  /\ IsFiniteSet(Before(text, k))
             /\ Cardinality(Before(text, k)) \in 0..NumberOfParts(text)
  <2>1. Before(text, k) \in SUBSET Slashes(text)
    BY DEF Before
  <2>2. IsFiniteSet(Before(text, k))
    BY <1>3, <2>1, FS_Subset
  <2>3. Cardinality(Before(text, k)) \in Nat
    BY <2>2, FS_CardinalityType
  <2>4. Cardinality(Before(text, k)) <= NumberOfParts(text)
    BY <1>3, <2>1, FS_Subset DEF NumberOfParts
  <2> QED BY <1>4, <2>2, <2>3, <2>4
<1> QED BY <1>1, <1>2, <1>4, <1>5

\* A later end has more slashes before it.
LEMMA LaterHasMore ==
    ASSUME NEW text \in Seq(STRING), NEW j \in Ends(text), NEW k \in Ends(text), j < k
    PROVE  Cardinality(Before(text, j)) < Cardinality(Before(text, k))
<1>1. j \in Slashes(text) /\ j \in Nat /\ k \in Nat
  BY SlashesFinite DEF Ends
<1>2. Before(text, j) \cup {j} \in SUBSET Before(text, k) /\ j \notin Before(text, j)
  BY <1>1, SlashesFinite DEF Before
<1>3. Cardinality(Before(text, j) \cup {j}) = Cardinality(Before(text, j)) + 1
  BY <1>2, SlashesFinite, FS_AddElement
<1>4. Cardinality(Before(text, j) \cup {j}) <= Cardinality(Before(text, k))
  BY <1>2, SlashesFinite, FS_Subset
<1>5. Cardinality(Before(text, j)) \in Nat /\ Cardinality(Before(text, k)) \in Nat
  BY SlashesFinite
<1> QED BY <1>3, <1>4, <1>5

\* A text is cut at each of its ends, by the number of slashes before it.
LEMMA CutIs ==
    ASSUME NEW text \in Seq(STRING), NEW k \in Ends(text)
    PROVE  Cut(text, Cardinality(Before(text, k)) + 1) = k
<1>1. Cardinality(Before(text, k)) \in Nat /\ k \in Nat
  BY SlashesFinite
<1> DEFINE n == Cardinality(Before(text, k)) + 1
<1>2. Cardinality(Before(text, k)) = n - 1
  BY <1>1
<1>3. ASSUME NEW j \in Ends(text), Cardinality(Before(text, j)) = n - 1 PROVE j = k
  <2>1. j \in Nat /\ ~(j < k) /\ ~(k < j)
    BY <1>1, <1>3, LaterHasMore, SlashesFinite
  <2> QED BY <1>1, <2>1
<1> HIDE DEF n
<1>4. Cut(text, n) = k
  BY <1>2, <1>3 DEF Cut
<1> QED BY <1>4 DEF n

\* parser.c:9-28: behind the drive and its slash the first part begins.
LEMMA FirstCut ==
    ASSUME NEW text \in Seq(STRING), ValidFormat(text)
    PROVE  3 \in Ends(text) /\ Before(text, 3) = {} /\ Cardinality(Before(text, 3)) = 0
<1>1. Len(text) >= 3 /\ text[1] # "/" /\ text[2] # "/" /\ text[3] = "/"
  BY OpenAssumption DEF ValidFormat
<1>2. 3 \in Slashes(text) /\ 1 \notin Slashes(text) /\ 2 \notin Slashes(text)
  BY <1>1, SlashesFinite DEF Slashes
<1>3. \A k \in Slashes(text) : k \in Nat /\ k # 0
  BY SlashesFinite
<1>4. Before(text, 3) = {}
  BY <1>2, <1>3 DEF Before
<1> QED BY <1>2, <1>4, FS_EmptySet DEF Ends

\* Between two ends that follow each other there is one part.
LEMMA NextCut ==
    ASSUME NEW text \in Seq(STRING), NEW k \in Slashes(text), NEW q \in Ends(text), k < q,
           \A j \in Slashes(text) : ~(k < j /\ j < q)
    PROVE  /\ Cardinality(Before(text, q)) = Cardinality(Before(text, k)) + 1
           /\ Part(text, Cardinality(Before(text, k)) + 1) = SubSeq(text, k + 1, q - 1)
<1>1. k \in Nat /\ q \in Nat /\ k \in Ends(text) /\ \A j \in Slashes(text) : j \in Nat
  BY SlashesFinite DEF Ends
<1>2. Before(text, q) = Before(text, k) \cup {k} /\ k \notin Before(text, k)
  <2>1. \A j \in Slashes(text) : j < q <=> (j < k \/ j = k)
    BY <1>1
  <2> QED BY <1>1, <2>1 DEF Before
<1>3. Cardinality(Before(text, q)) = Cardinality(Before(text, k)) + 1
  BY <1>2, SlashesFinite, FS_AddElement
<1> QED BY <1>1, <1>3, CutIs DEF Part

\* The first slash of a text that has one, and else its end.
FirstEnd(text) == IF Slashes(text) = {} THEN Len(text) + 1 ELSE Lowest(Slashes(text))

\* It comes before every slash.
LEMMA FirstEndIs ==
    ASSUME NEW text \in Seq(STRING)
    PROVE  /\ FirstEnd(text) \in Ends(text)
           /\ \A j \in Slashes(text) : FirstEnd(text) <= j
<1>1. CASE Slashes(text) = {}
  BY <1>1 DEF FirstEnd, Ends
<1>2. CASE Slashes(text) # {}
  <2>1. Slashes(text) \in SUBSET Nat
    BY SlashesFinite
  <2>2. \E p \in Slashes(text) : \A q \in Slashes(text) : p <= q
    BY <1>2, <2>1, LeastOfSlots
  <2>3. /\ Lowest(Slashes(text)) \in Slashes(text)
        /\ \A j \in Slashes(text) : Lowest(Slashes(text)) <= j
    BY <2>2 DEF Lowest
  <2> QED BY <1>2, <2>3 DEF FirstEnd, Ends
<1> QED BY <1>1, <1>2

\* parser.c:39-64: what the parser takes from the rest of a text is the next part.
LEMMA PartOfRest ==
    ASSUME NEW text \in Seq(STRING), NEW k \in Slashes(text), NEW tail,
           tail = SubSeq(text, k + 1, Len(text))
    PROVE  LET e == FirstEnd(tail)
               n == Cardinality(Before(text, k)) + 1
           IN  /\ e \in Nat \ {0}
               /\ k + e \in Ends(text)
               /\ Cardinality(Before(text, k + e)) = n
               /\ SubSeq(tail, 1, e - 1) = Part(text, n)
               /\ SubSeq(tail, e + 1, Len(tail)) = SubSeq(text, k + e + 1, Len(text))
               /\ e = 1 <=> Part(text, n) = <<>>
<1> DEFINE e == FirstEnd(tail)
           q == k + e
<1>1. /\ Len(text) \in Nat /\ k \in 1..Len(text)
      /\ \A j \in Slashes(text) : j \in 1..Len(text) /\ text[j] = "/"
      /\ \A j \in 1..Len(text) : text[j] \in STRING
  BY SlashesFinite DEF Slashes
<1>2. /\ tail \in Seq(STRING) /\ Len(tail) = Len(text) - k
      /\ \A j \in 1..(Len(text) - k) : tail[j] = text[k + j]
  BY <1>1
<1>3. /\ e \in Nat \ {0} /\ e <= Len(tail) + 1 /\ (e # Len(tail) + 1 => e \in Slashes(tail))
      /\ \A j \in Slashes(tail) : e <= j
  <2>1. e \in Ends(tail) /\ \A j \in Slashes(tail) : e <= j
    BY <1>2, FirstEndIs
  <2>2. Slashes(tail) \subseteq 1..Len(tail) /\ Len(tail) \in Nat
    BY <1>2, SlashesFinite
  <2> HIDE DEF e
  <2>3. e \in Slashes(tail) \/ e = Len(tail) + 1
    BY <2>1, Zenon DEF Ends
  <2>4. e \in Nat \ {0} /\ e <= Len(tail) + 1
    BY ONLY <2>2, <2>3
  <2> QED BY ONLY <2>1, <2>3, <2>4
<1>4. \A j \in 1..(Len(text) - k) : j \in Slashes(tail) <=> k + j \in Slashes(text)
  BY <1>1, <1>2, SlashesFinite DEF Slashes
<1> HIDE DEF e
<1>5. q \in Ends(text)
  <2>1. CASE e = Len(tail) + 1
    BY <1>1, <1>2, <2>1 DEF Ends
  <2>2. CASE e # Len(tail) + 1
    BY <1>2, <1>3, <1>4, <2>2, SlashesFinite DEF Ends
  <2> QED BY <2>1, <2>2
<1>6. \A j \in Slashes(text) : ~(k < j /\ j < q)
  <2> SUFFICES ASSUME NEW j \in Slashes(text), k < j, j < q PROVE FALSE
    OBVIOUS
  <2>1. j - k \in 1..(Len(text) - k) /\ k + (j - k) = j /\ ~(e <= j - k)
    BY <1>1, <1>3
  <2> QED BY <1>3, <1>4, <2>1
<1>7. /\ Cardinality(Before(text, q)) = Cardinality(Before(text, k)) + 1
      /\ Part(text, Cardinality(Before(text, k)) + 1) = SubSeq(text, k + 1, q - 1)
  BY <1>1, <1>3, <1>5, <1>6, NextCut
<1>8. SubSeq(tail, 1, e - 1) = SubSeq(text, k + 1, q - 1)
  BY <1>1, <1>2, <1>3
<1>9. SubSeq(tail, e + 1, Len(tail)) = SubSeq(text, q + 1, Len(text))
  BY <1>1, <1>2, <1>3
<1>10. e = 1 <=> SubSeq(text, k + 1, q - 1) = <<>>
  BY <1>1, <1>2, <1>3
<1> QED BY <1>3, <1>5, <1>7, <1>8, <1>9, <1>10 DEF e

-----------------------------------------------------------------------------
(* The recursive definitions of the model.                                   *)

\* g is the function defined from its value at the number before.
Follows(g, S, n, first, F) ==
    g \in [0..n -> S] /\ g[0] = first /\ \A m \in 1..n : g[m] = F[m][g[m - 1]]

HasFollower(S, n, first, F) == \E g : Follows(g, S, n, first, F)

\* There is one.
LEMMA Recursion ==
    ASSUME NEW S, NEW n \in Nat, NEW first \in S, NEW F, \A m \in 1..n : \A x \in S : F[m][x] \in S
    PROVE  HasFollower(S, n, first, F)
<1> DEFINE Defined(g, k) == g[0] = first /\ \A m \in 1..k : g[m] = F[m][g[m - 1]]
           bad == {k \in 0..n : ~\E g \in [0..k -> S] : Defined(g, k)}
<1>1. ASSUME NEW k \in bad, \A j \in bad : k <= j PROVE FALSE
  <2>1. k \in 0..n /\ ~\E g \in [0..k -> S] : Defined(g, k)
    BY <1>1
  <2>2. CASE k = 0
    <3>1. [m \in 0..k |-> first] \in [0..k -> S] /\ Defined([m \in 0..k |-> first], k)
      BY <2>2
    <3> QED BY <2>1, <3>1
  <2>3. CASE k # 0
    <3>1. k - 1 \in 0..n /\ k \in 1..n /\ ~(k <= k - 1)
      BY <2>1, <2>3
    <3>2. PICK g \in [0..(k - 1) -> S] : Defined(g, k - 1)
      BY <1>1, <3>1
    <3> DEFINE h == [m \in 0..k |-> IF m = k THEN F[k][g[k - 1]] ELSE g[m]]
    <3>3. g[k - 1] \in S
      BY <3>1
    <3>4. F[k][g[k - 1]] \in S
      BY <3>1, <3>3
    <3>5. h \in [0..k -> S]
      BY <3>1, <3>4
    <3>6. \A m \in 0..(k - 1) : h[m] = g[m]
      BY <3>1
    <3>7. h[k] = F[k][g[k - 1]]
      BY <3>1
    <3> HIDE DEF h
    <3>8. h[0] = first
      BY <3>1, <3>2, <3>6
    <3>9. ASSUME NEW m \in 1..k PROVE h[m] = F[m][h[m - 1]]
      <4>1. m - 1 \in 0..(k - 1)
        BY <3>1
      <4>2. h[m - 1] = g[m - 1]
        BY <3>6, <4>1
      <4>3. CASE m = k
        BY <3>7, <4>2, <4>3
      <4>4. CASE m # k
        <5>1. m \in 1..(k - 1) /\ m \in 0..(k - 1)
          BY <3>1, <4>4
        <5> QED BY <3>2, <3>6, <4>2, <5>1
      <4> QED BY <4>3, <4>4
    <3>10. Defined(h, k)
      BY <3>8, <3>9
    <3> QED BY <2>1, <3>5, <3>10
  <2> QED BY <2>2, <2>3
<1>2. bad \in SUBSET Nat
  OBVIOUS
<1>3. bad = {}
  <2> HIDE DEF bad
  <2> QED BY <1>1, <1>2, LeastOfSlots
<1>4. n \in 0..n
  OBVIOUS
<1> QED BY <1>3, <1>4 DEF HasFollower, Follows

-----------------------------------------------------------------------------
(* Where a path leads.                                                       *)

\* The entries of a directory of a disk.
LEMMA EntriesOf ==
    ASSUME NEW v \in Volumes, NEW dir \in Directories \cup {Root}
    PROVE  /\ Len(v.entries[dir]) \in Nat /\ DOMAIN v.entries[dir] = 1..Len(v.entries[dir])
           /\ Listed(v, dir) \subseteq 1..Len(v.entries[dir])
           /\ \A k \in DOMAIN v.entries[dir] : v.entries[dir][k].item \in Items
           /\ Cardinality(Listed(v, dir)) \in 0..Len(v.entries[dir])
<1> DEFINE list == v.entries[dir]
<1>1. list \in Seq(DirectoryItem)
  BY VolumesAssumption DEF Volume
<1>2. \A e \in DirectoryItem : e.item \in Items
  BY DEF DirectoryItem
<1> HIDE DEF list
<1>3. Len(list) \in Nat /\ DOMAIN list = 1..Len(list) /\ \A k \in DOMAIN list : list[k].item \in Items
  BY <1>1, <1>2
<1>4. Listed(v, dir) \in SUBSET (1..Len(list))
  BY <1>3 DEF Listed, list
<1>5. Cardinality(Listed(v, dir)) \in 0..Len(list)
  <2>1. IsFiniteSet(1..Len(list)) /\ Cardinality(1..Len(list)) = Len(list)
    BY <1>3, FS_Interval
  <2>2. /\ IsFiniteSet(Listed(v, dir))
        /\ Cardinality(Listed(v, dir)) <= Cardinality(1..Len(list))
    BY <1>4, <2>1, FS_Subset
  <2> QED BY <1>3, <2>1, <2>2, FS_CardinalityType
<1> QED BY <1>3, <1>4, <1>5 DEF list

\* fat16.c:541-583: what is loaded of a directory, but the root.
LEMMA LoadedOf ==
    ASSUME NEW v \in Volumes, NEW dir \in Directories
    PROVE  /\ v.loaded[dir] \in Seq(DirectoryItem)
           /\ Len(v.loaded[dir]) = Cardinality(Listed(v, dir))
           /\ DOMAIN v.loaded[dir] = 1..Cardinality(Listed(v, dir))
           /\ \A k \in 1..Cardinality(Listed(v, dir)) :
                 /\ KindFits(v.loaded[dir][k])
                 /\ k <= v.cluster_entries => v.loaded[dir][k] = v.entries[dir][k]
           /\ v.cluster_entries \in Nat /\ Cardinality(Listed(v, dir)) \in Nat
           /\ dir \in v.refused => Cardinality(Listed(v, dir)) > v.cluster_entries
<1>1. v.loaded[dir] \in Seq(DirectoryItem) /\ v.cluster_entries \in Nat
  BY VolumesAssumption DEF Volume
<1>2. Cardinality(Listed(v, dir)) \in Nat
  BY EntriesOf
<1>3. Len(v.loaded[dir]) = Cardinality(Listed(v, dir))
  BY VolumesAssumption
<1>4. DOMAIN v.loaded[dir] = 1..Cardinality(Listed(v, dir))
  BY <1>1, <1>3
<1> QED BY <1>1, <1>2, <1>3, <1>4, VolumesAssumption

\* On a tidy disk a directory is loaded as it lies there, and never refused.
LEMMA TidyLoads ==
    ASSUME NEW v \in Volumes, Tidy(v), NEW dir \in Directories
    PROVE  /\ \A k \in 1..Cardinality(Listed(v, dir)) : v.loaded[dir][k] = v.entries[dir][k]
           /\ dir \notin v.refused
<1>1. dir # Root
  BY OpenAssumption DEF Items
<1>2. Cardinality(Listed(v, dir)) <= v.cluster_entries
  BY <1>1 DEF Tidy
<1> QED BY <1>2, LoadedOf

\* A name leads to an item of the disk, or nowhere.
LEMMA LookupType ==
    ASSUME NEW v \in Volumes, NEW dir, NEW part
    PROVE  /\ Lookup(v, dir, part) \in Items \cup {NoItem}
           /\ dir \notin Directories \cup {Root} => Lookup(v, dir, part) = NoItem
<1> DEFINE named == IF dir \in Directories \cup {Root}
                      THEN {k \in Listed(v, dir) : Named(v.entries[dir][k], part)} ELSE {}
<1>1. CASE named = {}
  BY <1>1 DEF Lookup
<1>2. CASE named # {}
  <2>1. dir \in Directories \cup {Root}
    BY <1>2
  <2>2. (CHOOSE k \in named : TRUE) \in named
    BY <1>2
  <2>3. named \subseteq DOMAIN v.entries[dir]
    BY <2>1 DEF Listed
  <2>4. Lookup(v, dir, part) = v.entries[dir][CHOOSE k \in named : TRUE].item
    BY <1>2 DEF Lookup
  <2> HIDE DEF named
  <2>5. v.entries[dir][CHOOSE k \in named : TRUE].item \in Items
    BY <2>1, <2>2, <2>3, EntriesOf
  <2> QED BY <2>1, <2>4, <2>5
<1> QED BY <1>1, <1>2 DEF Lookup

\* On a tidy disk the name a directory holds leads to the entry that has it.
LEMMA LookupIs ==
    ASSUME NEW v \in Volumes, Tidy(v), NEW dir \in Directories \cup {Root}, NEW part
    PROVE  /\ \A k \in Listed(v, dir) :
                 Named(v.entries[dir][k], part) => Lookup(v, dir, part) = v.entries[dir][k].item
           /\ (\A k \in Listed(v, dir) : ~Named(v.entries[dir][k], part))
                 => Lookup(v, dir, part) = NoItem
<1> DEFINE named == {k \in Listed(v, dir) : Named(v.entries[dir][k], part)}
<1>1. Lookup(v, dir, part) =
        IF named = {} THEN NoItem ELSE v.entries[dir][CHOOSE k \in named : TRUE].item
  BY DEF Lookup
<1>2. ASSUME NEW j \in named, NEW k \in named PROVE j = k
  BY DEF Named, SameText, Tidy
<1>3. ASSUME NEW k \in named PROVE (CHOOSE j \in named : TRUE) = k
  <2> HIDE DEF named
  <2> QED BY <1>2, <1>3
<1> QED BY <1>1, <1>3

\* A path is looked up part by part, from the root.
LEMMA ResolveStep ==
    ASSUME NEW v \in Volumes, NEW text \in Seq(STRING)
    PROVE  /\ Resolve(v, text, 0) = Root
           /\ \A n \in 1..NumberOfParts(text) :
                 Resolve(v, text, n) = Lookup(v, Resolve(v, text, n - 1), Part(text, n))
<1> DEFINE n == NumberOfParts(text)
           S == Items \cup {NoItem, Root}
           F == [m \in 1..n |-> [x \in S |-> Lookup(v, x, Part(text, m))]]
           Is(g) == g = [m \in 0..n |-> IF m = 0 THEN Root ELSE Lookup(v, g[m - 1], Part(text, m))]
<1>1. n \in Nat
  BY SlashesFinite
<1> HIDE DEF n
<1>2. \A m \in 1..n : \A x \in S : F[m][x] = Lookup(v, x, Part(text, m)) /\ F[m][x] \in S
  BY LookupType
<1>3. Root \in S
  OBVIOUS
<1> HIDE DEF S, F
<1>4. PICK g : Follows(g, S, n, Root, F)
  <2>1. HasFollower(S, n, Root, F)
    BY <1>1, <1>2, <1>3, Recursion
  <2> QED BY <2>1 DEF HasFollower
<1>5. Is(g)
  <2>1. g \in [0..n -> S] /\ g[0] = Root /\ \A m \in 1..n : g[m] = F[m][g[m - 1]]
    BY <1>4 DEF Follows
  <2>2. \A m \in 1..n : m - 1 \in 0..n /\ g[m - 1] \in S
    BY <1>1, <2>1
  <2>3. \A m \in 1..n : g[m] = Lookup(v, g[m - 1], Part(text, m))
    BY <1>2, <2>1, <2>2
  <2>4. \A m \in 0..n : g[m] = IF m = 0 THEN Root ELSE Lookup(v, g[m - 1], Part(text, m))
    BY <1>1, <2>1, <2>3
  <2> QED BY <2>1, <2>4
<1> DEFINE to == CHOOSE h : Is(h)
<1>6. Is(to)
  BY <1>5
<1>7. \A m : Resolve(v, text, m) = to[m]
  BY DEF Resolve, n
<1> HIDE DEF to
<1>8. to[0] = Root /\ \A m \in 1..n : to[m] = Lookup(v, to[m - 1], Part(text, m))
  BY <1>1, <1>6
<1> HIDE DEF Is
<1> QED BY <1>7, <1>8 DEF n

\* So does every part of a path.
LEMMA ResolveType ==
    ASSUME NEW v \in Volumes, NEW text \in Seq(STRING), NEW n \in 1..NumberOfParts(text)
    PROVE  Resolve(v, text, n) \in Items \cup {NoItem}
  BY ResolveStep, LookupType

\* Behind a part that is not a directory there is nothing.
LEMMA NothingBehind ==
    ASSUME NEW v \in Volumes, NEW text \in Seq(STRING), NEW n \in 1..NumberOfParts(text),
           Resolve(v, text, n) \notin Directories
    PROVE  \A m \in (n + 1)..NumberOfParts(text) : Resolve(v, text, m) = NoItem
<1> DEFINE bad == {m \in (n + 1)..NumberOfParts(text) : Resolve(v, text, m) # NoItem}
<1>1. NumberOfParts(text) \in Nat
  BY SlashesFinite
<1>2. ASSUME NEW m \in bad, \A j \in bad : m <= j PROVE FALSE
  <2>1. m \in (n + 1)..NumberOfParts(text) /\ m \in 1..NumberOfParts(text) /\ Resolve(v, text, m) # NoItem
    BY <1>1
  <2>2. Resolve(v, text, m - 1) \notin Directories \cup {Root}
    <3>1. CASE m = n + 1
      <4>1. m - 1 = n
        BY <3>1
      <4> QED BY <4>1, ResolveType, OpenAssumption
    <3>2. CASE m # n + 1
      <4>1. m - 1 \in (n + 1)..NumberOfParts(text) /\ ~(m <= m - 1)
        BY <1>1, <2>1, <3>2
      <4>2. Resolve(v, text, m - 1) = NoItem
        BY <1>2, <4>1
      <4> QED BY <4>2, FilesAssumption, OpenAssumption
    <3> QED BY <3>1, <3>2
  <2>3. Resolve(v, text, m) = NoItem
    BY <2>1, <2>2, ResolveStep, LookupType
  <2> QED BY <2>1, <2>3
<1>3. bad \in SUBSET Nat
  BY <1>1
<1>4. bad = {}
  <2> HIDE DEF bad
  <2> QED BY <1>2, <1>3, LeastOfSlots
<1> QED BY <1>4

-----------------------------------------------------------------------------
(* Sums over the slots.                                                      *)

\* The sums up to each slot.
Sums(shares, g) ==
    /\ g \in [0..MAX_FILE_DESCRIPTORS -> Int] /\ g[0] = 0
    /\ \A m \in 1..MAX_FILE_DESCRIPTORS : g[m] = g[m - 1] + shares[m - 1]

\* They are what the sum over the slots is made of.
LEMMA SumIs ==
    ASSUME NEW shares \in [Slots -> Int]
    PROVE  \E g : Sums(shares, g) /\ SumOver(shares) = g[MAX_FILE_DESCRIPTORS]
<1> DEFINE n == MAX_FILE_DESCRIPTORS
           F == [m \in 1..n |-> [x \in Int |-> x + shares[m - 1]]]
           Is(g) == g = [m \in 0..n |-> IF m = 0 THEN 0 ELSE g[m - 1] + shares[m - 1]]
<1>1. n \in Nat /\ \A m \in 1..n : m - 1 \in Slots
  BY FilesAssumption DEF Slots
<1> HIDE DEF n
<1>2. \A m \in 1..n : \A x \in Int : F[m][x] = x + shares[m - 1] /\ F[m][x] \in Int
  BY <1>1
<1> HIDE DEF F
<1>4. PICK g : Follows(g, Int, n, 0, F)
  <2>1. HasFollower(Int, n, 0, F)
    BY <1>1, <1>2, Recursion
  <2> QED BY <2>1 DEF HasFollower
<1>5. /\ g \in [0..n -> Int] /\ g[0] = 0
      /\ \A m \in 1..n : g[m] = g[m - 1] + shares[m - 1]
  <2>1. g \in [0..n -> Int] /\ g[0] = 0 /\ \A m \in 1..n : g[m] = F[m][g[m - 1]]
    BY <1>4 DEF Follows
  <2>2. \A m \in 1..n : m - 1 \in 0..n /\ g[m - 1] \in Int
    BY <1>1, <2>1
  <2> QED BY <1>2, <2>1, <2>2
<1>6. Is(g)
  <2>1. \A m \in 0..n : g[m] = IF m = 0 THEN 0 ELSE g[m - 1] + shares[m - 1]
    BY <1>1, <1>5
  <2> QED BY <1>5, <2>1
<1> DEFINE to == CHOOSE h : Is(h)
<1>7. Is(to)
  BY <1>6
<1>8. SumOver(shares) = to[n]
  BY DEF SumOver, n
<1> HIDE DEF to
<1>9. /\ DOMAIN to = 0..n /\ to[0] = 0
      /\ \A m \in 1..n : to[m] = to[m - 1] + shares[m - 1]
  BY <1>1, <1>7
<1> HIDE DEF Is
<1>10. to \in [0..n -> Int]
  <2> DEFINE bad == {m \in 0..n : to[m] \notin Int}
  <2>1. ASSUME NEW m \in bad, \A j \in bad : m <= j PROVE FALSE
    <3>1. m \in 0..n /\ to[m] \notin Int
      OBVIOUS
    <3>2. m \in 1..n /\ m - 1 \in 0..n /\ ~(m <= m - 1)
      BY <1>1, <1>9, <3>1
    <3>3. to[m - 1] \in Int
      BY <2>1, <3>2
    <3> QED BY <1>1, <1>9, <3>1, <3>2, <3>3
  <2>2. bad \in SUBSET Nat
    BY <1>1
  <2>3. bad = {}
    <3> HIDE DEF bad
    <3> QED BY <2>1, <2>2, LeastOfSlots
  <2>4. to = [m \in 0..n |-> to[m]]
    BY <1>7 DEF Is
  <2> QED BY <2>3, <2>4
<1> QED BY <1>8, <1>9, <1>10 DEF Sums, n

\* What is changed at one slot changes the sum by as much.
LEMMA SumOfOne ==
    ASSUME NEW a \in [Slots -> Int], NEW b \in [Slots -> Int], NEW s \in Slots,
           \A t \in Slots \ {s} : b[t] = a[t]
    PROVE  /\ SumOver(a) \in Int
           /\ SumOver(b) = SumOver(a) + b[s] - a[s]
<1>1. PICK g : Sums(a, g) /\ SumOver(a) = g[MAX_FILE_DESCRIPTORS]
  BY SumIs
<1>2. PICK h : Sums(b, h) /\ SumOver(b) = h[MAX_FILE_DESCRIPTORS]
  BY SumIs
<1> DEFINE n == MAX_FILE_DESCRIPTORS
           diff == b[s] - a[s]
           bad == {m \in 0..n : h[m] # g[m] + (IF s < m THEN diff ELSE 0)}
<1>3. n \in Nat /\ s \in 0..(n - 1) /\ diff \in Int /\ Slots = 0..(n - 1)
  BY FilesAssumption DEF Slots
<1>4. /\ g \in [0..n -> Int] /\ g[0] = 0 /\ \A m \in 1..n : g[m] = g[m - 1] + a[m - 1]
      /\ h \in [0..n -> Int] /\ h[0] = 0 /\ \A m \in 1..n : h[m] = h[m - 1] + b[m - 1]
  BY <1>1, <1>2 DEF Sums
<1> HIDE DEF n
<1>5. ASSUME NEW m \in bad, \A j \in bad : m <= j PROVE FALSE
  <2>1. m \in 0..n /\ h[m] # g[m] + (IF s < m THEN diff ELSE 0)
    OBVIOUS
  <2>2. m # 0
    BY <1>3, <1>4, <2>1
  <2>3. m \in 1..n /\ m - 1 \in 0..n /\ m - 1 \in Slots /\ ~(m <= m - 1)
    BY <1>3, <2>1, <2>2
  <2>4. h[m - 1] = g[m - 1] + (IF s < m - 1 THEN diff ELSE 0)
    BY <1>5, <2>3
  <2>5. g[m - 1] \in Int /\ g[m] = g[m - 1] + a[m - 1] /\ h[m] = h[m - 1] + b[m - 1]
    BY <1>4, <2>3
  <2>6. a[m - 1] \in Int /\ b[m - 1] \in Int
    BY <2>3
  <2>7. CASE m - 1 = s
    <3>1. h[m] = g[m] + diff /\ s < m
      <4>1. h[m - 1] = g[m - 1]
        BY <1>3, <2>4, <2>5, <2>7
      <4>2. diff = b[m - 1] - a[m - 1]
        BY <2>7
      <4> HIDE DEF diff
      <4> QED BY <1>3, <2>3, <2>5, <2>6, <2>7, <4>1, <4>2
    <3> QED BY <2>1, <3>1
  <2>8. CASE m - 1 # s
    <3>1. b[m - 1] = a[m - 1] /\ (s < m - 1 <=> s < m)
      BY <1>3, <2>3, <2>8
    <3>2. h[m] = g[m] + (IF s < m THEN diff ELSE 0)
      <4> HIDE DEF diff
      <4> QED BY <1>3, <2>4, <2>5, <2>6, <3>1
    <3> QED BY <2>1, <3>2
  <2> QED BY <2>7, <2>8
<1>6. bad \in SUBSET Nat
  BY <1>3
<1>7. bad = {}
  <2> HIDE DEF bad
  <2> QED BY <1>5, <1>6, LeastOfSlots
<1>8. h[n] = g[n] + diff /\ g[n] \in Int
  <2>1. n \in 0..n /\ s < n
    BY <1>3
  <2>2. h[n] = g[n] + (IF s < n THEN diff ELSE 0)
    BY <1>7, <2>1
  <2> QED BY <1>4, <2>1, <2>2
<1> QED BY <1>1, <1>2, <1>8 DEF n

\* Nothing in any slot makes nothing.
LEMMA SumOfNone == SumOver([s \in Slots |-> 0]) = 0
<1> DEFINE a == [s \in Slots |-> 0]
           n == MAX_FILE_DESCRIPTORS
<1>1. PICK g : Sums(a, g) /\ SumOver(a) = g[n]
  BY SumIs
<1>2. n \in Nat /\ \A m \in 1..n : a[m - 1] = 0 /\ m - 1 \in 0..n
  BY FilesAssumption DEF Slots
<1> HIDE DEF a
<1>3. g \in [0..n -> Int] /\ g[0] = 0 /\ \A m \in 1..n : g[m] = g[m - 1] + a[m - 1]
  BY <1>1 DEF Sums
<1> HIDE DEF n
<1> DEFINE bad == {m \in 0..n : g[m] # 0}
<1>4. ASSUME NEW m \in bad, \A j \in bad : m <= j PROVE FALSE
  <2>1. m \in 1..n /\ m - 1 \in 0..n /\ ~(m <= m - 1)
    BY <1>2, <1>3
  <2>2. g[m - 1] = 0
    BY <1>4, <2>1
  <2>3. g[m] = g[m - 1] + a[m - 1] /\ a[m - 1] = 0
    BY <1>2, <1>3, <2>1
  <2> QED BY <2>2, <2>3
<1>5. bad \in SUBSET Nat
  BY <1>2
<1>6. bad = {}
  <2> HIDE DEF bad
  <2> QED BY <1>4, <1>5, LeastOfSlots
<1>7. g[n] = 0
  BY <1>2, <1>6
<1> QED BY <1>1, <1>7 DEF a

-----------------------------------------------------------------------------
Running == status = "running"

\* An item the lookup holds is of the disk, and of the kind its type says.
OnDisk(it) ==
    \/ it.type = "file" /\ it.item \in Files
    \/ it.type = "directory" /\ it.item \in Directories

\* What the lookup holds while it runs: the item it is at has been found on the
\* disk, and what it scans is a directory; in between two calls it holds nothing.
LookupInv ==
    /\ volume \in Volumes
    /\ at \in Nat \ {0}
    /\ pc \in {"idle", "parse", "check", "scan", "next", "end"}
    /\ current # Nothing => OnDisk(current)
    /\ found # Nothing => OnDisk(found)
    /\ Running =>
        /\ pc \in {"idle", "parse", "check"} => current = Nothing
        /\ pc = "scan" => current = Nothing \/ current.item \in Directories
        /\ pc # "scan" => found = Nothing
        /\ pc \notin {"scan", "end"} => at = 1
        /\ pc = "idle" => parts = <<>>

\* fat16.c:176-221, 604-619: an entry the scan counts is one of the directory, so that the
\* scan never looks behind the entries that were listed.
LEMMA ScannedIsEntry ==
    ASSUME LookupInv, status = "running", pc = "scan", at <= total
    PROVE  /\ at \in DOMAIN entries
           /\ entries[at].item \in Items
           /\ entries[at].kind = "directory" => entries[at].item \in Directories
           /\ entries[at].kind = "file" => entries[at].item \in Files
           /\ entries[at].kind \in {"file", "directory", "deleted"}
<1>1. directory \in Directories \cup {Root}
  BY DEF LookupInv, directory, Running
<1>2. volume \in Volume /\ volume \in Volumes
  BY VolumesAssumption DEF LookupInv
<1>3. \A x \in DirectoryItem : x.item \in Items /\ x.kind \in {"file", "directory", "deleted"}
  BY DEF DirectoryItem
<1>4. at \in Nat \ {0}
  BY DEF LookupInv
<1>5. CASE directory = Root
  <2>1. entries \in Seq(DirectoryItem)
    BY <1>2, <1>5 DEF Volume, entries
  <2>2. entries = volume.entries[Root] /\ total = Cardinality(Listed(volume, Root))
    BY <1>5 DEF entries, total
  <2>3. at \in DOMAIN entries
    BY <1>1, <1>2, <1>4, <1>5, <2>2, EntriesOf
  <2>4. KindFits(entries[at])
    BY <1>2, <2>2, <2>3, VolumesAssumption
  <2> HIDE DEF entries
  <2>5. entries[at] \in DirectoryItem
    BY <2>1, <2>3
  <2> QED BY <1>3, <2>3, <2>4, <2>5 DEF KindFits
<1>6. CASE directory # Root
  <2>1. directory \in Directories
    BY <1>1, <1>6
  <2>2. entries = volume.loaded[directory] /\ total = Cardinality(Listed(volume, directory))
    BY <1>6 DEF entries, total
  <2>3. entries \in Seq(DirectoryItem) /\ DOMAIN entries = 1..total /\ total \in Nat
    BY <1>2, <2>1, <2>2, LoadedOf
  <2>4. at \in 1..total
    BY <1>4, <2>3
  <2>5. KindFits(entries[at])
    BY <1>2, <2>1, <2>2, <2>4, LoadedOf
  <2> HIDE DEF entries, total
  <2>6. entries[at] \in DirectoryItem
    BY <2>3, <2>4
  <2> QED BY <1>3, <2>3, <2>4, <2>5, <2>6 DEF KindFits
<1> QED BY <1>5, <1>6

\* On a tidy disk it is the one that lies there.
LEMMA TidyEntry ==
    ASSUME LookupInv, status = "running", pc = "scan", at <= total, Tidy(volume)
    PROVE  entries[at] = volume.entries[directory][at]
<1>1. directory \in Directories \cup {Root} /\ volume \in Volumes /\ at \in Nat \ {0}
  BY DEF LookupInv, directory, Running
<1>2. CASE directory = Root
  BY <1>2 DEF entries
<1>3. CASE directory # Root
  <2>1. directory \in Directories /\ total = Cardinality(Listed(volume, directory))
    BY <1>1, <1>3 DEF total
  <2>2. at \in 1..total
    BY <1>1, <2>1, LoadedOf
  <2> QED BY <1>1, <1>3, <2>1, <2>2, TidyLoads DEF entries
<1> QED BY <1>2, <1>3

LEMMA LookupInitInv == OpenInit => LookupInv
  BY DEF OpenInit, LookupInv, Running

LEMMA WildInv == LookupInv /\ Wild => LookupInv' /\ UNCHANGED table
  BY DEF Wild, call, table, LookupInv, OnDisk, Nothing, Running

\* fopen ends, and holds nothing any more.
LEMMA LookupCleared ==
    ASSUME LookupInv, UNCHANGED volume, Cleared, pc' = "idle"
    PROVE  LookupInv'
  BY DEF LookupInv, Cleared, Running

\* The steps of fopen that come before the lookup and those of the lookup leave
\* the table of descriptors alone (file.c:142-186, fat16.c:604-681).
LEMMA LookupStep ==
    ASSUME LookupInv,
           \/ \E text \in Paths, mode \in {"r", "w"} : CallFopen(text, mode)
           \/ ParsePart \/ ParseFails \/ CheckCall
           \/ ScanEntry \/ ScanBehindArray \/ EndScan
           \/ NextPart \/ NextPartRefused \/ NextPartWild \/ LastPart
           \/ NotFound \/ InstallFails
    PROVE  LookupInv' /\ UNCHANGED table
<1>1. ASSUME NEW text \in Paths, NEW mode \in {"r", "w"}, CallFopen(text, mode)
      PROVE  LookupInv' /\ UNCHANGED table
  <2>1. /\ UNCHANGED <<table, volume, parts, current, found, at, status>>
        /\ status = "running" /\ pc = "idle" /\ pc' \in {"idle", "parse"}
    BY <1>1 DEF CallFopen, Refuse, call, table
  <2> QED BY <2>1 DEF LookupInv, OnDisk, Nothing, Running
<1>2. CASE ParsePart
  <2>1. /\ UNCHANGED <<table, volume, current, found, at, status>>
        /\ status = "running" /\ pc = "parse" /\ pc' \in {"parse", "check"}
    BY <1>2 DEF ParsePart, table
  <2> QED BY <2>1 DEF LookupInv, OnDisk, Nothing, Running
<1>3. CASE ParseFails \/ ScanBehindArray \/ NextPartWild \/ InstallFails
  BY <1>3, WildInv DEF ParseFails, ScanBehindArray, NextPartWild, InstallFails, NullWrite
<1>4. CASE CheckCall
  <2>1. UNCHANGED <<table, volume, status>> /\ status = "running" /\ pc = "check"
    BY <1>4 DEF CheckCall, table
  <2>2. CASE Cleared /\ pc' = "idle"
    BY <2>1, <2>2, LookupCleared
  <2>3. CASE UNCHANGED call /\ pc' = "scan"
    BY <2>1, <2>3 DEF LookupInv, OnDisk, Nothing, call, Running
  <2> QED BY <1>4, <2>1, <2>2, <2>3 DEF CheckCall, Refuse
<1>5. CASE ScanEntry
  <2>1. /\ UNCHANGED <<table, volume, pc, parts, current, status>>
        /\ at' = at + 1 /\ at \in Nat
        /\ status = "running" /\ pc = "scan" /\ at <= total
    BY <1>5 DEF ScanEntry, LookupInv, table
  <2>2. \/ found' = found \/ found' = Nothing
        \/ /\ entries[at].kind # "deleted"
           /\ \E data : found' = [item |-> entries[at].item, type |-> entries[at].kind, data |-> data]
    BY <1>5 DEF ScanEntry, NewItem
  <2>3. found' # Nothing => OnDisk(found')
    <3>1. CASE found' = found
      BY <3>1 DEF LookupInv
    <3>2. ASSUME NEW data, entries[at].kind # "deleted",
                 found' = [item |-> entries[at].item, type |-> entries[at].kind, data |-> data]
          PROVE  OnDisk(found')
      <4>1. /\ entries[at].kind = "directory" => entries[at].item \in Directories
            /\ entries[at].kind = "file" => entries[at].item \in Files
            /\ entries[at].kind \in {"file", "directory"}
        BY <2>1, <3>2, ScannedIsEntry DEF Running
      <4>2. found'.item = entries[at].item /\ found'.type = entries[at].kind
        BY <3>2
      <4> QED BY <4>1, <4>2 DEF OnDisk
    <3> QED BY <2>2, <3>1, <3>2
  <2> QED BY <2>1, <2>3 DEF LookupInv, OnDisk, Nothing, Running
<1>6. CASE EndScan
  <2>1. /\ UNCHANGED <<table, volume, status>> /\ status = "running" /\ pc = "scan"
        /\ current' = found /\ found' = Nothing /\ at' = 1 /\ pc' \in {"end", "next"}
    BY <1>6 DEF EndScan, table
  <2> QED BY <2>1 DEF LookupInv, OnDisk, Nothing, Running
<1>7. CASE NextPart
  <2>1. /\ UNCHANGED <<table, volume, parts, current, found, at, status>>
        /\ pc = "next" /\ pc' = "scan" /\ current.type = "directory" /\ status = "running"
    BY <1>7 DEF NextPart, call, table
  <2>2. current.item \in Directories
    BY <2>1 DEF LookupInv, OnDisk, Nothing
  <2> QED BY <2>1, <2>2 DEF LookupInv, OnDisk, Nothing, Running
<1>8. CASE NextPartRefused
  BY <1>8 DEF NextPartRefused, LookupInv, OnDisk, Nothing, table, Running
<1>9. CASE LastPart
  BY <1>9 DEF LastPart, LookupInv, OnDisk, Nothing, call, table, Running
<1>10. CASE NotFound
  BY <1>10, LookupCleared DEF NotFound, Refuse, table
<1> QED BY <1>1, <1>2, <1>3, <1>4, <1>5, <1>6, <1>7, <1>8, <1>9, <1>10

\* Every step of the file layer is one of the table of descriptors or leaves it
\* alone: what the lookup installs is an item of the disk.
LEMMA OpenStep ==
    ASSUME LookupInv, [OpenNext]_openVars
    PROVE  LookupInv' /\ [Next]_vars
<1>1. UNCHANGED table => UNCHANGED vars
  BY DEF table, vars
<1>2. ASSUME NEW p \in Privates, Install(p) PROVE LookupInv' /\ Next
  <2>1. current.item \in Items /\ Fopen(current.item, p)
    BY <1>2 DEF Install, LookupInv, OnDisk, Items
  <2>2. LookupInv'
    BY <1>2, LookupCleared DEF Install
  <2> QED BY <1>2, <2>1, <2>2 DEF Next
<1>3. ASSUME NEW fd \in 1..MAX_FILE_DESCRIPTORS,
             CloseOpen(fd) \/ CloseWild(fd) \/ UseWild(fd) \/ ReadDirectory(fd)
      PROVE  LookupInv' /\ [Next]_vars
  <2>1. CASE CloseOpen(fd)
    <3>1. Fclose(fd) /\ fd \in 0..MAX_FILE_DESCRIPTORS
      BY <2>1, FilesAssumption DEF CloseOpen
    <3>2. LookupInv'
      BY <2>1 DEF CloseOpen, LookupInv, OnDisk, Nothing, call, Running
    <3> QED BY <3>1, <3>2 DEF Next
  <2>2. CASE CloseWild(fd) \/ UseWild(fd)
    BY <1>1, <2>2, WildInv DEF CloseWild, UseWild
  <2>3. CASE ReadDirectory(fd)
    BY <1>1, <2>3 DEF ReadDirectory, LookupInv, OnDisk, Nothing, call, Running
  <2> QED BY <1>3, <2>1, <2>2, <2>3
<1>4. ASSUME NEW fd \in 1..MAX_FILE_DESCRIPTORS, NEW dist \in 0..(Word - 1),
             NEW whence \in {"SEEK_SET", "SEEK_CUR"}, SeekOpen(fd, dist, whence)
      PROVE  LookupInv' /\ Next
  <2>1. Fseek(fd, dist, whence) /\ fd \in 0..MAX_FILE_DESCRIPTORS
    BY <1>4, FilesAssumption DEF SeekOpen
  <2>2. LookupInv'
    BY <1>4 DEF SeekOpen, LookupInv, OnDisk, Nothing, call, Running
  <2> QED BY <2>1, <2>2 DEF Next
<1>5. CASE UNCHANGED openVars
  BY <1>5 DEF openVars, call, LookupInv, OnDisk, Nothing, Running
<1>6. ASSUME \/ \E text \in Paths, mode \in {"r", "w"} : CallFopen(text, mode)
             \/ ParsePart \/ ParseFails \/ CheckCall
             \/ ScanEntry \/ ScanBehindArray \/ EndScan
             \/ NextPart \/ NextPartRefused \/ NextPartWild \/ LastPart
             \/ NotFound \/ InstallFails
      PROVE  LookupInv' /\ UNCHANGED vars
  BY <1>1, <1>6, LookupStep
<1> QED BY <1>2, <1>3, <1>4, <1>5, <1>6 DEF OpenNext

\* fopen down to the directories of the disk, with every allocation that may fail
\* and every stray access, implements the table of descriptors.
THEOREM OpenRefinesTable == OpenSpec => Spec
<1>1. OpenInit => Init /\ LookupInv
  BY LookupInitInv DEF OpenInit
<1>2. LookupInv /\ [OpenNext]_openVars => LookupInv' /\ [Next]_vars
  BY OpenStep
<1> QED BY <1>1, <1>2, PTL DEF OpenSpec, Spec

\* What stands behind a descriptor is its own and alive, whatever fopen met on its
\* way down the path (file.c:142-205).
THEOREM OpenOwnsMemory == OpenSpec => []OwnPrivate
  BY OpenRefinesTable, DescriptorsOwnMemory, PTL

\* A caller sees a table of open files, whatever fopen met on its way.
THEOREM OpenKeepsPromise == OpenSpec => KeepsPromise
  BY OpenRefinesTable, FilesKeepPromise, PTL

-----------------------------------------------------------------------------
(* What fopen knows on its way.                                              *)

Asked == asked[1]
N == NumberOfParts(Asked)
LeadsTo(k) == Resolve(volume, Asked, k)

\* What was found to hold of the call before the step fopen is at.
Checked ==
    Running /\ pc # "idle" =>
        /\ asked # NoCall /\ Asked \in Paths /\ ValidFormat(Asked)
        /\ asked[3] <=> FreeSlots # {}
        /\ pc \in {"scan", "next", "end"} => volume.mounted /\ asked[2] = "r"

\* The parser is behind the end at k of the parts before it.
ParsedTo(k) ==
    /\ rest = SubSeq(Asked, k + 1, Len(Asked))
    /\ parts = [j \in 1..Cardinality(Before(Asked, k)) |-> Part(Asked, j)]
ParserFollows == Running /\ pc = "parse" => \E k \in Ends(Asked) : ParsedTo(k)

\* The entries of the directory scanned so far that have the name of a part.
Lies == volume.entries[directory]
Met(k) == {j \in 1..(at - 1) : /\ j \in Listed(volume, directory)
                               /\ Named(Lies[j], Part(Asked, k))}

\* The lookup is where the first k parts lead, and scans for the part behind them.
ScanFollows(k) ==
    /\ directory = LeadsTo(k)
    /\ found # Nothing => \E j \in Met(k + 1) : found.item = Lies[j].item
    /\ ~starved /\ found = Nothing => Met(k + 1) = {}

\* The lookup has found what the first k parts lead to.
FoundIs(k) ==
    /\ current # Nothing => current.item = LeadsTo(k)
    /\ ~starved /\ current = Nothing => LeadsTo(k) = NoItem

\* Of the n parts of the path that were parsed the first k are looked up.
LookedUp(k, n) ==
    /\ Plain(Asked) => n = N
    /\ parts = [j \in 1..(n - k) |-> Part(Asked, k + j)]
    /\ pc = "check" => k = 0
    /\ pc = "scan" => k < n /\ (Tidy(volume) => ScanFollows(k))
    /\ pc = "next" => k > 0 /\ (Tidy(volume) => FoundIs(k))
    /\ pc = "end" => (Tidy(volume) => FoundIs(n))
LookupFollows ==
    Running /\ pc \in {"check", "scan", "next", "end"} =>
        \E n \in 0..N : \E k \in 0..n : LookedUp(k, n)

\* On a tidy disk only a failed allocation leaves an item without its data.
DataThere ==
    /\ payload = [p \in Privates |-> payload[p]]
    /\ ~starved /\ Tidy(volume) =>
        /\ \A p \in Privates : payload[p] = "ok"
        /\ current # Nothing => current.data = "ok"
        /\ found # Nothing => found.data = "ok"

\* The objects of the call that is under way.
ObjectsOf(it) == IF it = Nothing THEN 0 ELSE Objects(it.type, it.data)
Taken ==
    IF pc \in {"idle", "parse", "check"} THEN 0 ELSE 1 + ObjectsOf(current) + ObjectsOf(found)

Shares == [s \in Slots |-> Behind(file_descriptors[s])]
AllAccounted ==
    /\ held \in Int
    /\ Running /\ ~leaky =>
        /\ held = SumOver(Shares) + Taken
        /\ pc # "idle" => /\ Tidy(volume) /\ ~ThroughFile(volume, Asked)
                          /\ FreeSlots # {}

OpenInv ==
    /\ TableInv /\ LookupInv /\ Checked /\ ParserFollows /\ LookupFollows
    /\ DataThere /\ AllAccounted /\ FindsTheFile /\ NoStrayAccess

\* At the start fopen knows nothing and holds nothing.
LEMMA OpenInitInv == OpenInit => Checked /\ ParserFollows /\ LookupFollows /\ DataThere
                                   /\ AllAccounted /\ FindsTheFile /\ NoStrayAccess
<1> SUFFICES ASSUME OpenInit
             PROVE  Checked /\ ParserFollows /\ LookupFollows /\ DataThere
                      /\ AllAccounted /\ FindsTheFile /\ NoStrayAccess
  OBVIOUS
<1>1. /\ pc = "idle" /\ current = Nothing /\ found = Nothing /\ asked = NoCall /\ held = 0
      /\ status = "running" /\ payload = [p \in Privates |-> "ok"]
      /\ \A s \in Slots : file_descriptors[s] = Empty
  BY DEF OpenInit, Init
<1>2. Checked /\ ParserFollows /\ LookupFollows /\ FindsTheFile /\ NoStrayAccess
  BY <1>1 DEF Checked, ParserFollows, LookupFollows, FindsTheFile, NoStrayAccess
<1>3. DataThere
  BY <1>1 DEF DataThere
<1>4. AllAccounted
  <2>1. Shares = [s \in Slots |-> 0]
    BY <1>1 DEF Shares, Behind
  <2>2. Taken = 0
    BY <1>1 DEF Taken
  <2> QED BY <1>1, <2>1, <2>2, SumOfNone DEF AllAccounted
<1> QED BY <1>2, <1>3, <1>4

\* A stray access ends what is known of a call; what is left are its causes.
LEMMA WildKeeps ==
    ASSUME OpenInv, Wild, starved => starved', NoStrayAccess',
           TableInv', LookupInv'
    PROVE  OpenInv'
<1>1. /\ UNCHANGED <<volume, payload, current, found, held>> /\ status' = "wild"
  BY DEF Wild, call
<1>2. ~Running'
  BY <1>1 DEF Running
<1>3. DataThere'
  BY <1>1 DEF OpenInv, DataThere, Nothing
<1>4. AllAccounted' /\ FindsTheFile' /\ Checked' /\ ParserFollows' /\ LookupFollows'
  BY <1>1, <1>2 DEF OpenInv, AllAccounted, FindsTheFile, Checked, ParserFollows, LookupFollows
<1> QED BY <1>3, <1>4 DEF OpenInv

\* A failed allocation accounts for the write to NULL that follows.
LEMMA NullWriteKeeps ==
    ASSUME OpenInv, NullWrite, TableInv', LookupInv'
    PROVE  OpenInv'
<1>1. starved' = TRUE /\ Wild
  BY DEF NullWrite
<1>2. NoStrayAccess'
  BY <1>1 DEF NoStrayAccess
<1> QED BY <1>1, <1>2, WildKeeps

\* parser.c:102-123: a call that is not refused at once is at the start of its parts.
LEMMA CallFopenInv ==
    ASSUME OpenInv, NEW text \in Paths, NEW mode \in {"r", "w"}, CallFopen(text, mode),
           TableInv', LookupInv'
    PROVE  OpenInv'
<1>1. /\ UNCHANGED <<table, volume, payload, held, status, starved, parts, current, found, at>>
      /\ status = "running" /\ pc = "idle" /\ pc' \in {"idle", "parse"}
      /\ asked' = <<text, mode, FreeSlots # {}>>
      /\ leaky' = (leaky \/ ThroughFile(volume, text) \/ ~Tidy(volume) \/ FreeSlots = {})
  BY DEF CallFopen, Refuse, call
<1>2. UNCHANGED <<file_descriptors, item, orphans, allocated, fpos>>
  BY <1>1 DEF table
<1>3. asked'[1] = text /\ asked'[2] = mode /\ asked'[3] = (FreeSlots # {}) /\ asked' # NoCall
  BY <1>1 DEF NoCall
<1>4. /\ current = Nothing /\ found = Nothing /\ parts = <<>> /\ at = 1
  BY <1>1 DEF OpenInv, LookupInv, Running
<1>5. FreeSlots' = FreeSlots
  BY <1>2 DEF FreeSlots
<1>6. DataThere'
  BY <1>1 DEF OpenInv, DataThere, Nothing
<1>7. NoStrayAccess'
  BY <1>1 DEF NoStrayAccess
<1>8. AllAccounted'
  <2>1. Shares' = Shares
    BY <1>1, <1>2 DEF Shares, Behind, Slots, TypeOf
  <2>2. Taken = 0 /\ Taken' = 0
    BY <1>1 DEF Taken
  <2>3. held \in Int /\ (~leaky => held = SumOver(Shares) + 0)
    BY <1>1, <2>2 DEF OpenInv, AllAccounted, Running
  <2>4. ~leaky' => /\ ~leaky /\ Tidy(volume') /\ ~ThroughFile(volume', Asked') /\ FreeSlots' # {}
    BY <1>1, <1>3, <1>5 DEF Asked
  <2> QED BY <1>1, <2>1, <2>2, <2>3, <2>4 DEF AllAccounted
<1>9. CASE pc' = "parse"
  <2>1. ValidFormat(text) /\ Len(text) <= MAX_PATH /\ rest' = SubSeq(text, 4, Len(text))
    BY <1>9 DEF CallFopen, Refuse
  <2>2. Checked'
    BY <1>1, <1>3, <1>5, <1>9, <2>1 DEF Checked, Asked
  <2>3. ParserFollows'
    <3>1. text \in Seq(STRING)
      BY OpenAssumption
    <3>2. 3 \in Ends(text) /\ Cardinality(Before(text, 3)) = 0 /\ 3 + 1 = 4
      BY <2>1, <3>1, FirstCut
    <3>3. parts' = [j \in 1..Cardinality(Before(text, 3)) |-> Part(text, j)]
      BY <1>1, <1>4, <3>2
    <3>4. ParsedTo(3)' /\ 3 \in Ends(Asked')
      BY <1>3, <2>1, <3>2, <3>3 DEF ParsedTo, Asked
    <3> QED BY <3>4 DEF ParserFollows
  <2>4. LookupFollows' /\ FindsTheFile'
    BY <1>9 DEF LookupFollows, FindsTheFile
  <2> QED BY <1>6, <1>7, <1>8, <2>2, <2>3, <2>4 DEF OpenInv
<1>10. CASE pc' # "parse"
  <2>1. Len(text) > MAX_PATH \/ ~ValidFormat(text)
    BY <1>10 DEF CallFopen
  <2>2. Checked' /\ ParserFollows' /\ LookupFollows'
    BY <1>1, <1>10 DEF Checked, ParserFollows, LookupFollows
  <2>3. ~Plain(text)
    <3>1. Len(text) \in Nat /\ MAX_PATH \in Nat
      BY OpenAssumption
    <3> QED BY <2>1, <3>1, OpenAssumption DEF Plain, ValidFormat
  <2>4. FindsTheFile'
    BY <1>3, <2>3 DEF FindsTheFile
  <2> QED BY <1>6, <1>7, <1>8, <2>2, <2>4 DEF OpenInv
<1> QED BY <1>9, <1>10

\* What stands behind the descriptors is theirs until fopen ends or fclose begins.
LEMMA TableLeft ==
    ASSUME UNCHANGED <<table, payload>>
    PROVE  Shares' = Shares /\ FreeSlots' = FreeSlots
  BY DEF table, Shares, Behind, Slots, TypeOf, FreeSlots

\* The objects behind the descriptors are counted.
LEMMA SumsToInt == SumOver(Shares) \in Int
<1>1. Shares \in [Slots -> Int]
  BY DEF Shares, Behind, Objects
<1> HIDE DEF Shares
<1>2. PICK g : Sums(Shares, g) /\ SumOver(Shares) = g[MAX_FILE_DESCRIPTORS]
  BY <1>1, SumIs
<1> QED BY <1>2, FilesAssumption DEF Sums

\* parser.c:39-86: the parser goes on by one part, or has come to its end.
LEMMA ParsePartInv ==
    ASSUME OpenInv, ParsePart, TableInv', LookupInv'
    PROVE  OpenInv'
<1>1. /\ UNCHANGED <<table, volume, payload, current, found, at, held, status, asked, ret, leaky, starved>>
      /\ status = "running" /\ pc = "parse" /\ pc' \in {"parse", "check"}
  BY DEF ParsePart, history
<1>2. /\ asked # NoCall /\ Asked \in Paths /\ ValidFormat(Asked)
      /\ asked[3] <=> FreeSlots # {}
  BY <1>1 DEF OpenInv, Checked, Running
<1>3. Asked' = Asked /\ N' = N /\ Shares' = Shares /\ FreeSlots' = FreeSlots
  BY <1>1, TableLeft DEF Asked, N
<1>4. PICK k \in Ends(Asked) : ParsedTo(k)
  BY <1>1 DEF OpenInv, ParserFollows, Running
<1>5. Checked'
  BY <1>1, <1>2, <1>3 DEF Checked
<1>6. DataThere' /\ NoStrayAccess'
  BY <1>1 DEF OpenInv, DataThere, Nothing, NoStrayAccess
<1>7. AllAccounted'
  <2>1. Taken = 0 /\ Taken' = 0
    BY <1>1 DEF Taken
  <2> QED BY <1>1, <1>3, <2>1 DEF OpenInv, AllAccounted, Running
<1>8. FindsTheFile'
  BY <1>1 DEF FindsTheFile
<1>t. PICK text \in Seq(STRING) : text = Asked
  BY <1>2, OpenAssumption
<1>m. PICK m \in 0..NumberOfParts(text) : m = Cardinality(Before(text, k))
  BY SlashesFinite
<1>e. PICK e : e = FirstEnd(rest)
  OBVIOUS
<1>9. m \in Nat /\ NumberOfParts(text) \in Nat /\ k \in Ends(text)
  BY <1>t, SlashesFinite
<1>10. rest = SubSeq(text, k + 1, Len(text)) /\ parts = [j \in 1..m |-> Part(text, j)]
  BY <1>4, <1>t, <1>m DEF ParsedTo
<1>11. IF e = 1 THEN pc' = "check" /\ UNCHANGED <<rest, parts>>
       ELSE /\ parts' = Append(parts, SubSeq(rest, 1, e - 1))
            /\ rest' = SubSeq(rest, e + 1, Len(rest))
            /\ UNCHANGED pc
  BY <1>e DEF ParsePart, FirstEnd, AfterPart
<1>12. ASSUME e = 1, Plain(text) => m = NumberOfParts(text) PROVE OpenInv'
  <2>1. pc' = "check" /\ parts' = parts
    BY <1>11, <1>12
  <2>2. m \in 0..N' /\ 0 \in 0..m
    BY <1>3, <1>9, <1>t DEF N
  <2>3. parts' = [j \in 1..(m - 0) |-> Part(text, 0 + j)]
    BY <1>9, <1>10, <2>1
  <2>4. LookedUp(0, m)'
    BY <1>3, <1>12, <1>t, <2>1, <2>3 DEF LookedUp, N
  <2>5. LookupFollows' /\ ParserFollows'
    BY <2>1, <2>2, <2>4 DEF LookupFollows, ParserFollows
  <2> QED BY <1>5, <1>6, <1>7, <1>8, <2>5 DEF OpenInv
<1>13. CASE k \in Slashes(text)
  <2>1. /\ e \in Nat \ {0} /\ k + e \in Ends(text) /\ Cardinality(Before(text, k + e)) = m + 1
        /\ SubSeq(rest, 1, e - 1) = Part(text, m + 1)
        /\ SubSeq(rest, e + 1, Len(rest)) = SubSeq(text, k + e + 1, Len(text))
        /\ e = 1 <=> Part(text, m + 1) = <<>>
    BY <1>9, <1>10, <1>13, <1>m, <1>e, PartOfRest
  <2>2. m + 1 \in 1..NumberOfParts(text)
    <3>1. Cardinality(Before(text, k + e)) \in 0..NumberOfParts(text)
      BY SlashesFinite
    <3> QED BY <1>9, <2>1, <3>1
  <2>3. CASE e # 1
    <3>1. parts' = Append(parts, Part(text, m + 1)) /\ rest' = SubSeq(text, k + e + 1, Len(text)) /\ pc' = "parse"
      BY <1>1, <1>11, <2>1, <2>3
    <3>2. parts' = [j \in 1..(m + 1) |-> Part(text, j)]
      BY <1>9, <1>10, <3>1
    <3>3. ParsedTo(k + e)' /\ k + e \in Ends(Asked')
      BY <1>3, <1>t, <2>1, <3>1, <3>2 DEF ParsedTo
    <3>4. ParserFollows'
      BY <3>3 DEF ParserFollows
    <3>5. LookupFollows'
      BY <3>1 DEF LookupFollows
    <3> QED BY <1>5, <1>6, <1>7, <1>8, <3>4, <3>5 DEF OpenInv
  <2>4. CASE e = 1
    <3>1. ~Plain(text)
      BY <2>1, <2>2, <2>4 DEF Plain
    <3> QED BY <1>12, <2>4, <3>1
  <2> QED BY <2>3, <2>4
<1>14. CASE k = Len(text) + 1
  <2>1. rest = <<>>
    BY <1>9, <1>10, <1>14
  <2>2. e = 1
    <3>1. Slashes(<<>>) = {} /\ Len(<<>>) = 0
      BY DEF Slashes
    <3> QED BY <1>e, <2>1, <3>1 DEF FirstEnd
  <2>3. m = NumberOfParts(text)
    <3>1. Before(text, k) = Slashes(text)
      BY <1>9, <1>14, SlashesFinite DEF Before
    <3> QED BY <1>m, <3>1 DEF NumberOfParts
  <2> QED BY <1>12, <2>2, <2>3
<1> QED BY <1>9, <1>13, <1>14 DEF Ends

\* A call that is given up before it has anything.
LEMMA RefusedKeeps ==
    ASSUME OpenInv, UNCHANGED <<table, volume, payload, held, status, asked, leaky>>,
           starved => starved', Running,
           pc \in {"parse", "check"}, Refuse, Cleared, FindsTheFile', TableInv', LookupInv'
    PROVE  OpenInv'
<1>1. pc' = "idle" /\ current' = Nothing /\ found' = Nothing
  BY DEF Refuse, Cleared
<1>2. Checked' /\ ParserFollows' /\ LookupFollows'
  BY <1>1 DEF Checked, ParserFollows, LookupFollows
<1>3. DataThere'
  BY <1>1 DEF OpenInv, DataThere
<1>4. NoStrayAccess'
  BY DEF NoStrayAccess, Running
<1>5. AllAccounted'
  <2>1. Taken = 0 /\ Taken' = 0
    BY <1>1 DEF Taken
  <2> QED BY <1>1, <2>1, TableLeft DEF OpenInv, AllAccounted, Running
<1> QED BY <1>2, <1>3, <1>4, <1>5 DEF OpenInv

\* file.c:153-186 and fat16.c:649-664: what is refused before the lookup is no path
\* that could be opened; the lookup begins at the root with nothing found.
LEMMA CheckCallInv ==
    ASSUME OpenInv, CheckCall, TableInv', LookupInv'
    PROVE  OpenInv'
<1>1. /\ UNCHANGED <<table, volume, payload, status, asked, leaky>>
      /\ status = "running" /\ pc = "check" /\ Running
  BY DEF CheckCall, Running
<1>2. /\ asked # NoCall /\ Asked \in Paths /\ ValidFormat(Asked)
      /\ asked[3] <=> FreeSlots # {}
  BY <1>1 DEF OpenInv, Checked
<1>3. PICK text \in Seq(STRING) : text = Asked /\ ValidFormat(text)
  BY <1>2, OpenAssumption
<1>4. PICK n \in 0..NumberOfParts(text) : \E k \in 0..n : LookedUp(k, n)
  BY <1>1, <1>3 DEF OpenInv, LookupFollows, N
<1>5. NumberOfParts(text) \in Nat
  BY SlashesFinite
<1>6. (Plain(text) => n = NumberOfParts(text)) /\ parts = [j \in 1..n |-> Part(text, j)]
  <2>1. LookedUp(0, n)
    BY <1>1, <1>4 DEF LookedUp
  <2>2. parts = [j \in 1..(n - 0) |-> Part(Asked, 0 + j)]
    BY <2>1 DEF LookedUp
  <2>3. parts = [j \in 1..n |-> Part(text, j)]
    BY <1>3, <1>5, <2>2
  <2> QED BY <1>3, <2>1, <2>3 DEF LookedUp, N
<1>7. Plain(text) => n > 0
  <2>1. 3 \in Slashes(text)
    BY <1>3 DEF Slashes, ValidFormat
  <2>2. NumberOfParts(text) # 0
    <3>1. IsFiniteSet(Slashes(text))
      <4>1. IsFiniteSet(1..Len(text))
        BY FS_Interval
      <4> QED BY <4>1, SlashesFinite, FS_Subset
    <3> QED BY <2>1, <3>1, FS_EmptySet DEF NumberOfParts
  <2> QED BY <1>5, <1>6, <2>2
<1>8. CASE /\ parts = <<>> \/ asked[1][1] # "0" \/ ~volume.mounted \/ asked[2] # "r"
           /\ Refuse /\ Cleared /\ UNCHANGED <<held, starved>>
  <2>1. parts = <<>> => ~Plain(text)
    BY <1>5, <1>6, <1>7
  <2>2. asked[1][1] # "0" => ~Plain(text)
    BY <1>3 DEF Asked, Plain
  <2>3. FindsTheFile'
    BY <1>1, <1>3, <1>8, <2>1, <2>2 DEF FindsTheFile, Refuse, Asked
  <2> QED BY <1>1, <1>8, <2>3, RefusedKeeps
<1>9. CASE Refuse /\ Cleared /\ starved' = TRUE /\ UNCHANGED held
  <2>1. FindsTheFile'
    BY <1>9 DEF FindsTheFile
  <2> QED BY <1>1, <1>9, <2>1, RefusedKeeps
<1>10. CASE /\ parts # <<>> /\ asked[1][1] = "0" /\ volume.mounted /\ asked[2] = "r"
            /\ pc' = "scan" /\ held' = held + 1
            /\ UNCHANGED <<call, ret, starved>>
  <2>1. /\ UNCHANGED <<parts, current, found, at>> /\ at = 1 /\ current = Nothing /\ found = Nothing
    BY <1>1, <1>10 DEF call, OpenInv, LookupInv
  <2>2. Asked' = Asked /\ N' = N /\ Shares' = Shares /\ FreeSlots' = FreeSlots
    BY <1>1, TableLeft DEF Asked, N
  <2>3. Checked'
    BY <1>1, <1>2, <1>10, <2>2 DEF Checked
  <2>4. ParserFollows' /\ FindsTheFile' /\ NoStrayAccess'
    BY <1>1, <1>10 DEF ParserFollows, FindsTheFile, NoStrayAccess
  <2>5. DataThere'
    BY <1>1, <1>10, <2>1 DEF OpenInv, DataThere, Nothing
  <2>6. AllAccounted'
    <3>1. Taken = 0
      BY <1>1 DEF Taken
    <3>2. Taken' = 1
      BY <1>10, <2>1 DEF Taken, ObjectsOf
    <3>3. held \in Int /\ (~leaky => held = SumOver(Shares) + 0 /\ SumOver(Shares) \in Int)
      BY <1>1, <3>1, SumsToInt DEF OpenInv, AllAccounted
    <3>4. ~leaky => Tidy(volume) /\ ~ThroughFile(volume, Asked) /\ FreeSlots # {}
      BY <1>1 DEF OpenInv, AllAccounted
    <3> QED BY <1>1, <1>10, <2>2, <3>2, <3>3, <3>4 DEF AllAccounted
  <2>7. LookupFollows'
    <3>1. n > 0
      BY <1>6, <1>10
    <3>2. parts' = [j \in 1..(n - 0) |-> Part(text, 0 + j)]
      BY <1>5, <1>6, <2>1
    <3>3. ScanFollows(0)'
      <4>1. directory' = Root
        BY <2>1 DEF directory
      <4>2. LeadsTo(0)' = Root
        <5>1. volume \in Volumes
          BY DEF OpenInv, LookupInv
        <5> QED BY <1>1, <1>3, <2>2, <5>1, ResolveStep DEF LeadsTo
      <4>3. Met(0 + 1)' = {}
        BY <2>1 DEF Met
      <4> QED BY <2>1, <4>1, <4>2, <4>3 DEF ScanFollows
    <3>4. LookedUp(0, n)'
      BY <1>3, <1>6, <1>10, <2>2, <3>1, <3>2, <3>3 DEF LookedUp, N
    <3>5. n \in 0..N' /\ 0 \in 0..n
      BY <1>3, <1>5, <2>2 DEF N
    <3> QED BY <3>4, <3>5 DEF LookupFollows
  <2> QED BY <2>3, <2>4, <2>5, <2>6, <2>7 DEF OpenInv
<1> QED BY <1>8, <1>9, <1>10 DEF CheckCall

\* Where the lookup is: k of the n parts of the text are looked up.
At(text, n, k) ==
    /\ text = Asked /\ text \in Seq(STRING)
    /\ NumberOfParts(text) \in Nat /\ n \in 0..NumberOfParts(text) /\ k \in 0..n
    /\ LookedUp(k, n)

\* There is such a place.
LEMMA LookupAt ==
    ASSUME OpenInv, Running, pc \in {"check", "scan", "next", "end"}
    PROVE  \E text, n, k : At(text, n, k)
<1>1. Asked \in Seq(STRING)
  BY OpenAssumption DEF OpenInv, Checked
<1>2. NumberOfParts(Asked) \in Nat
  BY <1>1, SlashesFinite
<1>3. PICK n \in 0..N : \E k \in 0..n : LookedUp(k, n)
  BY DEF OpenInv, LookupFollows
<1>4. PICK k \in 0..n : LookedUp(k, n)
  BY <1>3
<1> QED BY <1>1, <1>2, <1>4 DEF At, N

\* fat16.c:604-619: an entry that has the name of the part is the only
\* one met on a tidy disk.
LEMMA ScanEntryInv ==
    ASSUME OpenInv, ScanEntry, TableInv', LookupInv'
    PROVE  OpenInv'
<1>1. /\ UNCHANGED <<table, volume, payload, pc, rest, parts, current, status, asked, ret, leaky>>
      /\ at' = at + 1 /\ at <= total
      /\ status = "running" /\ pc = "scan" /\ Running
  BY DEF ScanEntry, Running, history
<1>2. /\ at \in Nat \ {0} /\ volume \in Volumes
      /\ directory \in Directories \cup {Root}
      /\ at \in DOMAIN entries /\ entries[at].item \in Items
  BY <1>1, ScannedIsEntry DEF OpenInv, LookupInv, directory
<1>3. PICK text, n, k : At(text, n, k)
  BY <1>1, LookupAt
<1>4. /\ text = Asked /\ NumberOfParts(text) \in Nat /\ n \in 0..NumberOfParts(text) /\ k \in 0..n
      /\ Plain(text) => n = NumberOfParts(text)
      /\ parts = [j \in 1..(n - k) |-> Part(text, k + j)]
      /\ k < n /\ (Tidy(volume) => ScanFollows(k))
  BY <1>1, <1>3 DEF At, LookedUp, N
<1>5. Head(parts) = Part(text, k + 1)
  BY <1>4
<1> DEFINE entry == entries[at]
           hit == Named(entry, Head(parts)) /\ entry.kind # "deleted"
<1>6. /\ directory' = directory /\ Lies' = Lies /\ Asked' = Asked /\ N' = N
      /\ Shares' = Shares /\ FreeSlots' = FreeSlots
  BY <1>1, TableLeft DEF directory, Lies, Asked, N
<1>7. ASSUME Tidy(volume)
      PROVE  /\ hit <=> at \in Listed(volume, directory) /\ Named(Lies[at], Part(Asked, k + 1))
             /\ entry = Lies[at]
  <2>1. entry = Lies[at]
    BY <1>1, <1>7, TidyEntry DEF OpenInv, Lies
  <2>2. at \in DOMAIN Lies
    <3>1. Listed(volume, directory) = 1..total
      BY <1>2, <1>7 DEF Tidy, total
    <3>2. total \in Nat
      BY <1>2, EntriesOf DEF total
    <3>3. at \in Listed(volume, directory)
      BY <1>1, <1>2, <3>1, <3>2
    <3> QED BY <3>3 DEF Listed, Lies
  <2>3. at \in Listed(volume, directory) <=> Lies[at].kind # "deleted"
    BY <2>2 DEF Listed, Lies
  <2> QED BY <1>4, <1>5, <2>1, <2>3
<1>8. ASSUME Tidy(volume) PROVE Met(k + 1)' = IF hit THEN Met(k + 1) \cup {at} ELSE Met(k + 1)
  <2>1. at' - 1 = at /\ 1..at = 1..(at - 1) \cup {at}
    BY <1>1, <1>2
  <2> HIDE DEF hit
  <2>2. Met(k + 1)' = {j \in 1..at : /\ j \in Listed(volume, directory)
                                     /\ Named(Lies[j], Part(Asked, k + 1))}
    BY <1>1, <1>6, <2>1 DEF Met
  <2> QED BY <1>7, <1>8, <2>1, <2>2 DEF Met
<1>9. ASSUME hit, Tidy(volume) PROVE found = Nothing
  <2>1. ASSUME NEW j \in Met(k + 1) PROVE FALSE
    <3>1. j \in 1..(at - 1) /\ j \in Listed(volume, directory) /\ Named(Lies[j], Part(Asked, k + 1))
      BY DEF Met
    <3>2. at \in Listed(volume, directory) /\ Named(Lies[at], Part(Asked, k + 1))
      BY <1>7, <1>9
    <3>3. j = at
      BY <1>2, <1>9, <3>1, <3>2 DEF Tidy, Named, SameText, Lies
    <3> QED BY <1>2, <3>1, <3>3
  <2> QED BY <1>4, <1>9, <2>1 DEF ScanFollows
<1>10. \/ ~hit /\ UNCHANGED <<found, held, starved>>
       \/ hit /\ found' = Nothing /\ starved' = TRUE /\ held' = held
       \/ /\ hit
          /\ \E data : /\ found' = [item |-> entry.item, type |-> entry.kind, data |-> data]
                       /\ held' = held + Objects(entry.kind, data)
                       /\ starved' = TRUE \/ (starved' = starved /\ data = Loaded(entry))
  BY DEF ScanEntry, NewItem
<1>11. Checked' /\ ParserFollows' /\ FindsTheFile' /\ NoStrayAccess'
  BY <1>1, <1>6 DEF OpenInv, Checked, ParserFollows, FindsTheFile, NoStrayAccess, Running
<1> HIDE DEF hit
<1>12. ASSUME Tidy(volume) => ScanFollows(k)' PROVE LookupFollows'
  <2>1. LookedUp(k, n)'
    BY <1>1, <1>4, <1>6, <1>12 DEF LookedUp, N
  <2> QED BY <1>4, <1>6, <2>1 DEF LookupFollows, N
<1>13. CASE ~hit
  <2>1. UNCHANGED <<found, held, starved>>
    BY <1>10, <1>13
  <2>2. Tidy(volume) => ScanFollows(k)'
    BY <1>1, <1>4, <1>6, <1>8, <1>13, <2>1 DEF ScanFollows, LeadsTo, Nothing, Lies
  <2>3. DataThere' /\ AllAccounted'
    BY <1>1, <1>6, <2>1 DEF OpenInv, DataThere, AllAccounted, Taken, ObjectsOf, Nothing, Running
  <2> QED BY <1>11, <1>12, <2>2, <2>3 DEF OpenInv
<1>14. CASE hit /\ found' = Nothing /\ starved' = TRUE /\ held' = held
  <2>1. Tidy(volume) => ScanFollows(k)'
    BY <1>1, <1>4, <1>6, <1>14 DEF ScanFollows, LeadsTo, Nothing
  <2>2. DataThere'
    BY <1>1, <1>14 DEF OpenInv, DataThere
  <2>3. AllAccounted'
    <3>1. ~leaky => Tidy(volume)
      BY <1>1 DEF OpenInv, AllAccounted
    <3>2. ~leaky => found' = found
      BY <1>9, <1>14, <3>1
    <3>3. ~leaky => Taken' = Taken
      BY <1>1, <3>2 DEF Taken, ObjectsOf, Nothing
    <3> QED BY <1>1, <1>6, <1>14, <3>3 DEF OpenInv, AllAccounted, Running
  <2> QED BY <1>11, <1>12, <2>1, <2>2, <2>3 DEF OpenInv
<1>15. ASSUME hit, NEW data, found' = [item |-> entry.item, type |-> entry.kind, data |-> data],
              held' = held + Objects(entry.kind, data),
              starved' = TRUE \/ (starved' = starved /\ data = Loaded(entry))
       PROVE  OpenInv'
  <2>1. found'.item = entry.item /\ found'.type = entry.kind /\ found'.data = data
    BY <1>15
  <2>2. found' # Nothing
    BY <1>2, <2>1, FilesAssumption DEF Nothing, Items
  <2>3. Tidy(volume) => ScanFollows(k)'
    <3> SUFFICES ASSUME Tidy(volume) PROVE ScanFollows(k)'
      OBVIOUS
    <3>1. at \in Met(k + 1)'
      BY <1>8, <1>15
    <3>2. \E j \in Met(k + 1)' : found'.item = Lies'[j].item
      BY <1>6, <1>7, <2>1, <3>1
    <3> QED BY <1>1, <1>4, <1>6, <2>2, <3>2 DEF ScanFollows, LeadsTo, Nothing
  <2>4. DataThere'
    <3>1. Tidy(volume) => Loaded(entry) = "ok"
      <4>1. entry.kind = "directory" => entry.item \in Directories
        BY <1>1, ScannedIsEntry DEF OpenInv
      <4> QED BY <1>2, <4>1, TidyLoads DEF Loaded
    <3> QED BY <1>1, <1>15, <2>1, <3>1 DEF OpenInv, DataThere, Nothing
  <2>5. AllAccounted'
    <3>1. ~leaky => Tidy(volume)
      BY <1>1 DEF OpenInv, AllAccounted
    <3>2. Objects(entry.kind, data) \in Int
      BY DEF Objects
    <3>3. ObjectsOf(found)' = Objects(entry.kind, data)
      BY <2>1, <2>2 DEF ObjectsOf, Nothing
    <3>4. ~leaky => ObjectsOf(found) = 0
      BY <1>9, <1>15, <3>1 DEF ObjectsOf
    <3>5. ObjectsOf(current)' = ObjectsOf(current) /\ ObjectsOf(current) \in Int
      BY <1>1 DEF ObjectsOf, Objects, Nothing
    <3>6. ~leaky => Taken' = Taken + Objects(entry.kind, data)
      BY <1>1, <3>2, <3>3, <3>4, <3>5 DEF Taken
    <3>7. Taken \in Int
      BY <1>1 DEF Taken, ObjectsOf, Objects
    <3>8. held \in Int /\ SumOver(Shares) \in Int
      BY SumsToInt DEF OpenInv, AllAccounted
    <3>9. ~leaky => held = SumOver(Shares) + Taken /\ ~ThroughFile(volume, Asked) /\ FreeSlots # {}
      BY <1>1 DEF OpenInv, AllAccounted
    <3> QED BY <1>1, <1>6, <1>15, <3>1, <3>2, <3>6, <3>7, <3>8, <3>9 DEF AllAccounted
  <2> QED BY <1>11, <1>12, <2>3, <2>4, <2>5 DEF OpenInv
<1> QED BY <1>10, <1>13, <1>14, <1>15

\* fat16.c:237-260: only a root directory without an end is read behind its array.
LEMMA ScanBehindArrayInv ==
    ASSUME OpenInv, ScanBehindArray, TableInv', LookupInv'
    PROVE  OpenInv'
<1>1. Wild /\ UNCHANGED starved /\ Running /\ pc = "scan" /\ at <= total /\ at > ArrayLength
  BY DEF ScanBehindArray, Running
<1>2. /\ at \in Nat \ {0} /\ volume \in Volumes /\ directory \in Directories \cup {Root}
  BY <1>1 DEF OpenInv, LookupInv, directory
<1>3. total \in 0..Len(Lies) /\ Len(Lies) \in Nat
  BY <1>2, EntriesOf DEF total, Lies
<1>4. directory = Root /\ at > volume.root_dir_entries
  BY <1>1, <1>2, <1>3 DEF ArrayLength
<1>5. volume.root_dir_entries \in Nat
  BY <1>2, VolumesAssumption DEF Volume
<1>6. ~(Len(Lies) <= volume.root_dir_entries)
  BY <1>1, <1>2, <1>3, <1>4, <1>5
<1>7. ~Tidy(volume)
  BY <1>4, <1>6 DEF Tidy, Lies
<1>8. NoStrayAccess'
  BY <1>1, <1>7 DEF NoStrayAccess, Wild
<1> QED BY <1>1, <1>8, WildKeeps

\* fat16.c:604-644: at the end of a tidy directory every entry was met.
LEMMA EndScanInv ==
    ASSUME OpenInv, EndScan, TableInv', LookupInv'
    PROVE  OpenInv'
<1>1. /\ UNCHANGED <<table, volume, payload, rest, status, asked, ret, leaky, starved>>
      /\ status = "running" /\ pc = "scan" /\ Running /\ at > total
      /\ current' = found /\ found' = Nothing /\ at' = 1
      /\ parts' = Tail(parts) /\ held' = FreeCurrent
      /\ pc' = IF found = Nothing /\ current = Nothing THEN "end" ELSE "next"
  BY DEF EndScan, Running, history
<1>2. /\ at \in Nat \ {0} /\ volume \in Volumes /\ directory \in Directories \cup {Root}
  BY <1>1 DEF OpenInv, LookupInv, directory
<1>3. PICK text, n, k : At(text, n, k)
  BY <1>1, LookupAt
<1>4. /\ text = Asked /\ text \in Seq(STRING)
      /\ NumberOfParts(text) \in Nat /\ n \in 0..NumberOfParts(text) /\ k \in 0..n
      /\ Plain(text) => n = NumberOfParts(text)
      /\ parts = [j \in 1..(n - k) |-> Part(text, k + j)]
      /\ k < n /\ (Tidy(volume) => ScanFollows(k))
  BY <1>1, <1>3 DEF At, LookedUp, N
<1>5. Asked' = Asked /\ N' = N /\ Shares' = Shares /\ FreeSlots' = FreeSlots
  BY <1>1, TableLeft DEF Asked, N
<1>6. k + 1 \in 0..n /\ k + 1 \in 1..NumberOfParts(text) /\ n \in 0..N' /\ k + 1 > 0
  BY <1>4, <1>5 DEF N
<1>7. parts' = [j \in 1..(n - (k + 1)) |-> Part(text, k + 1 + j)]
  <2>1. parts # <<>> /\ Len(parts) = n - k
    BY <1>4
  <2>2. Tail(parts) = [j \in 1..(n - (k + 1)) |-> parts[j + 1]]
    BY <1>4, <2>1
  <2>3. \A j \in 1..(n - (k + 1)) : parts[j + 1] = Part(text, k + 1 + j)
    <3> SUFFICES ASSUME NEW j \in 1..(n - (k + 1)) PROVE parts[j + 1] = Part(text, k + 1 + j)
      OBVIOUS
    <3>1. j + 1 \in 1..(n - k) /\ k + (j + 1) = k + 1 + j
      BY <1>4
    <3> QED BY <1>4, <3>1
  <2> QED BY <1>1, <2>2, <2>3
<1>8. LeadsTo(k + 1) = Lookup(volume, LeadsTo(k), Part(text, k + 1))
  <2>1. k + 1 - 1 = k
    BY <1>4
  <2> QED BY <1>2, <1>4, <1>6, <2>1, ResolveStep DEF LeadsTo
<1>9. ASSUME Tidy(volume) PROVE FoundIs(k + 1)'
  <2>1. directory = LeadsTo(k)
    BY <1>4, <1>9 DEF ScanFollows
  <2>2. LeadsTo(k + 1)' = LeadsTo(k + 1)
    BY <1>1, <1>5 DEF LeadsTo
  <2>3. Listed(volume, directory) \subseteq 1..(at - 1)
    <3>1. Listed(volume, directory) = 1..total
      BY <1>2, <1>9 DEF Tidy, total
    <3>2. total \in Nat
      BY <1>2, EntriesOf DEF total
    <3> QED BY <1>1, <1>2, <3>1, <3>2
  <2>4. CASE found # Nothing
    <3>1. PICK j \in Met(k + 1) : found.item = Lies[j].item
      BY <1>4, <1>9, <2>4 DEF ScanFollows
    <3>2. j \in Listed(volume, directory) /\ Named(Lies[j], Part(text, k + 1))
      BY <1>4, <3>1 DEF Met
    <3>3. LeadsTo(k + 1) = Lies[j].item
      BY <1>2, <1>8, <1>9, <2>1, <3>2, LookupIs DEF Lies
    <3> QED BY <1>1, <2>2, <2>4, <3>1, <3>3 DEF FoundIs, Nothing
  <2>5. CASE ~starved /\ found = Nothing
    <3>1. Met(k + 1) = {}
      BY <1>4, <1>9, <2>5 DEF ScanFollows
    <3>2. \A j \in Listed(volume, directory) : ~Named(Lies[j], Part(text, k + 1))
      BY <1>4, <2>3, <3>1 DEF Met
    <3>3. LeadsTo(k + 1) = NoItem
      BY <1>2, <1>8, <1>9, <2>1, <3>2, LookupIs DEF Lies
    <3> QED BY <1>1, <2>2, <2>5, <3>3 DEF FoundIs, Nothing
  <2>6. CASE starved /\ found = Nothing
    BY <1>1, <2>6 DEF FoundIs, Nothing
  <2> QED BY <2>4, <2>5, <2>6
<1>10. LookupFollows'
  <2>1. CASE pc' = "next"
    <3>1. LookedUp(k + 1, n)'
      BY <1>4, <1>5, <1>1, <1>6, <1>7, <1>9, <2>1 DEF LookedUp, N
    <3> QED BY <1>6, <3>1 DEF LookupFollows
  <2>2. CASE pc' = "end"
    <3>1. ASSUME Tidy(volume) PROVE FoundIs(n)'
      <4>1. current' = Nothing /\ FoundIs(k + 1)'
        BY <1>1, <1>9, <2>2, <3>1
      <4>2. CASE ~starved
        <5>1. Resolve(volume, text, k + 1) = NoItem
          BY <1>1, <1>4, <1>5, <4>1, <4>2 DEF FoundIs, LeadsTo
        <5>2. Resolve(volume, text, n) = NoItem
          <6>1. CASE n = k + 1
            BY <5>1, <6>1
          <6>2. CASE n # k + 1
            <7>1. n \in (k + 1 + 1)..NumberOfParts(text)
              BY <1>4, <6>2
            <7>2. NoItem \notin Directories
              BY FilesAssumption
            <7> QED BY <1>2, <1>4, <1>6, <5>1, <7>1, <7>2, NothingBehind
          <6> QED BY <6>1, <6>2
        <5> QED BY <1>1, <1>4, <1>5, <4>1, <5>2 DEF FoundIs, LeadsTo
      <4>3. CASE starved
        BY <1>1, <4>1, <4>3 DEF FoundIs
      <4> QED BY <4>2, <4>3
    <3>2. LookedUp(k + 1, n)'
      BY <1>1, <1>4, <1>5, <1>6, <1>7, <2>2, <3>1 DEF LookedUp, N
    <3> QED BY <1>6, <3>2 DEF LookupFollows
  <2> QED BY <1>1, <2>1, <2>2
<1>11. Checked' /\ ParserFollows' /\ FindsTheFile' /\ NoStrayAccess'
  BY <1>1, <1>5 DEF OpenInv, Checked, ParserFollows, FindsTheFile, NoStrayAccess, Running
<1>12. DataThere'
  BY <1>1 DEF OpenInv, DataThere, Nothing
<1>13. AllAccounted'
  <2>1. Taken = 1 + ObjectsOf(current) + ObjectsOf(found)
    BY <1>1 DEF Taken
  <2>2. Taken' = 1 + ObjectsOf(found) + 0
    BY <1>1 DEF Taken, ObjectsOf, Nothing
  <2>3. held' = held - ObjectsOf(current)
    BY <1>1 DEF FreeCurrent, ObjectsOf, OpenInv, AllAccounted
  <2>4. ObjectsOf(current) \in Int /\ ObjectsOf(found) \in Int
    BY DEF ObjectsOf, Objects
  <2>5. held \in Int /\ SumOver(Shares) \in Int
    BY SumsToInt DEF OpenInv, AllAccounted
  <2>6. ~leaky => /\ held = SumOver(Shares) + Taken
                  /\ Tidy(volume) /\ ~ThroughFile(volume, Asked) /\ FreeSlots # {}
    BY <1>1 DEF OpenInv, AllAccounted
  <2>7. held' \in Int /\ (~leaky => held' = SumOver(Shares) + Taken')
    BY <2>1, <2>2, <2>3, <2>4, <2>5, <2>6
  <2> QED BY <1>1, <1>5, <2>6, <2>7 DEF AllAccounted
<1> QED BY <1>10, <1>11, <1>12, <1>13 DEF OpenInv

\* fat16.c:632-640: the next part is looked up where the ones before it lead.
LEMMA NextPartInv ==
    ASSUME OpenInv, NextPart, TableInv', LookupInv'
    PROVE  OpenInv'
<1>1. /\ UNCHANGED <<table, volume, payload, rest, parts, current, found, at, held, status, asked, ret, leaky, starved>>
      /\ status = "running" /\ pc = "next" /\ Running /\ pc' = "scan"
      /\ parts # <<>> /\ current.type = "directory"
  BY DEF NextPart, Running, history, call
<1>2. at = 1 /\ found = Nothing /\ current # Nothing
  BY <1>1 DEF OpenInv, LookupInv, Nothing
<1>3. PICK text, n, k : At(text, n, k)
  BY <1>1, LookupAt
<1>4. /\ text = Asked /\ NumberOfParts(text) \in Nat /\ n \in 0..NumberOfParts(text) /\ k \in 0..n
      /\ Plain(text) => n = NumberOfParts(text)
      /\ parts = [j \in 1..(n - k) |-> Part(text, k + j)]
      /\ Tidy(volume) => FoundIs(k)
  BY <1>1, <1>3 DEF At, LookedUp, N
<1>5. k < n
  BY <1>1, <1>4
<1>6. Asked' = Asked /\ N' = N /\ Shares' = Shares /\ FreeSlots' = FreeSlots
  BY <1>1, TableLeft DEF Asked, N
<1>7. ASSUME Tidy(volume) PROVE ScanFollows(k)'
  <2>1. directory' = current.item
    BY <1>1, <1>2 DEF directory, Nothing
  <2>2. LeadsTo(k)' = current.item
    BY <1>1, <1>2, <1>4, <1>6, <1>7 DEF FoundIs, LeadsTo
  <2>3. Met(k + 1)' = {}
    BY <1>1, <1>2 DEF Met
  <2> QED BY <1>1, <1>2, <2>1, <2>2, <2>3 DEF ScanFollows, Nothing
<1>8. LookupFollows'
  <2>1. LookedUp(k, n)'
    BY <1>1, <1>4, <1>5, <1>6, <1>7 DEF LookedUp, N
  <2> QED BY <1>4, <1>6, <2>1 DEF LookupFollows, N
<1>9. Checked' /\ ParserFollows' /\ FindsTheFile' /\ NoStrayAccess'
  BY <1>1, <1>6 DEF OpenInv, Checked, ParserFollows, FindsTheFile, NoStrayAccess, Running
<1>10. DataThere' /\ AllAccounted'
  BY <1>1, <1>6 DEF OpenInv, DataThere, AllAccounted, Taken, ObjectsOf, Nothing, Running
<1> QED BY <1>8, <1>9, <1>10 DEF OpenInv

\* fat16.c:632-647: with no part left the lookup has come to its end.
LEMMA LastPartInv ==
    ASSUME OpenInv, LastPart, TableInv', LookupInv'
    PROVE  OpenInv'
<1>1. /\ UNCHANGED <<table, volume, payload, rest, parts, current, found, at, held, status, asked, ret, leaky, starved>>
      /\ status = "running" /\ pc = "next" /\ Running /\ pc' = "end" /\ parts = <<>>
  BY DEF LastPart, Running, history, call
<1>2. PICK text, n, k : At(text, n, k)
  BY <1>1, LookupAt
<1>3. /\ text = Asked /\ NumberOfParts(text) \in Nat /\ n \in 0..NumberOfParts(text) /\ k \in 0..n
      /\ Plain(text) => n = NumberOfParts(text)
      /\ parts = [j \in 1..(n - k) |-> Part(text, k + j)]
      /\ Tidy(volume) => FoundIs(k)
  BY <1>1, <1>2 DEF At, LookedUp, N
<1>4. k = n
  BY <1>1, <1>3
<1>5. Asked' = Asked /\ N' = N /\ Shares' = Shares /\ FreeSlots' = FreeSlots
  BY <1>1, TableLeft DEF Asked, N
<1>6. LookupFollows'
  <2>1. Tidy(volume) => FoundIs(n)'
    BY <1>1, <1>3, <1>4, <1>5 DEF FoundIs, LeadsTo, Nothing
  <2>2. LookedUp(k, n)'
    BY <1>1, <1>3, <1>5, <2>1 DEF LookedUp, N
  <2> QED BY <1>3, <1>5, <2>2 DEF LookupFollows, N
<1>7. Checked' /\ ParserFollows' /\ FindsTheFile' /\ NoStrayAccess'
  BY <1>1, <1>5 DEF OpenInv, Checked, ParserFollows, FindsTheFile, NoStrayAccess, Running
<1>8. DataThere' /\ AllAccounted'
  BY <1>1, <1>5 DEF OpenInv, DataThere, AllAccounted, Taken, ObjectsOf, Nothing, Running
<1> QED BY <1>6, <1>7, <1>8 DEF OpenInv

\* fat16.c:634-638: a part that is not a directory, with more behind it, is where the
\* lookup gives up; on the way it loses the item, if there was one.
LEMMA NextPartRefusedInv ==
    ASSUME OpenInv, NextPartRefused, TableInv', LookupInv'
    PROVE  OpenInv'
<1>1. /\ UNCHANGED <<table, volume, payload, rest, parts, found, at, held, status, asked, ret, leaky, starved>>
      /\ status = "running" /\ pc = "next" /\ Running /\ pc' = "end"
      /\ parts # <<>> /\ current.type # "directory" /\ current' = Nothing
  BY DEF NextPartRefused, Running, history
<1>2. /\ volume \in Volumes /\ found = Nothing
      /\ current # Nothing => current.item \in Files
  BY <1>1 DEF OpenInv, LookupInv, OnDisk
<1>3. PICK text, n, k : At(text, n, k)
  BY <1>1, LookupAt
<1>4. /\ text = Asked /\ text \in Seq(STRING)
      /\ NumberOfParts(text) \in Nat /\ n \in 0..NumberOfParts(text) /\ k \in 0..n
      /\ Plain(text) => n = NumberOfParts(text)
      /\ parts = [j \in 1..(n - k) |-> Part(text, k + j)]
      /\ k > 0 /\ (Tidy(volume) => FoundIs(k))
  BY <1>1, <1>3 DEF At, LookedUp, N
<1>5. k < n /\ k \in 1..NumberOfParts(text) /\ k \in 1..(NumberOfParts(text) - 1)
      /\ n \in (k + 1)..NumberOfParts(text)
  BY <1>1, <1>4
<1>6. Asked' = Asked /\ N' = N /\ Shares' = Shares /\ FreeSlots' = FreeSlots
  BY <1>1, TableLeft DEF Asked, N
<1>7. ASSUME Tidy(volume), ~starved PROVE LeadsTo(n) = NoItem
  <2>1. Resolve(volume, text, k) \notin Directories
    BY <1>2, <1>4, <1>7, FilesAssumption DEF FoundIs, LeadsTo
  <2> QED BY <1>2, <1>4, <1>5, <2>1, NothingBehind DEF LeadsTo
<1>8. LookupFollows'
  <2>1. Tidy(volume) => FoundIs(n)'
    BY <1>1, <1>6, <1>7 DEF FoundIs, LeadsTo
  <2>2. LookedUp(k, n)'
    BY <1>1, <1>4, <1>6, <2>1 DEF LookedUp, N
  <2> QED BY <1>4, <1>6, <2>2 DEF LookupFollows, N
<1>9. Checked' /\ ParserFollows' /\ FindsTheFile' /\ NoStrayAccess'
  BY <1>1, <1>6 DEF OpenInv, Checked, ParserFollows, FindsTheFile, NoStrayAccess, Running
<1>10. DataThere'
  BY <1>1 DEF OpenInv, DataThere, Nothing
<1>11. AllAccounted'
  <2>1. ASSUME ~leaky PROVE current = Nothing
    <3>1. Tidy(volume) /\ ~ThroughFile(volume, text)
      BY <1>1, <1>4, <2>1 DEF OpenInv, AllAccounted
    <3>2. Resolve(volume, text, k) \notin Files
      BY <1>5, <3>1 DEF ThroughFile
    <3> QED BY <1>2, <1>4, <3>1, <3>2 DEF FoundIs, LeadsTo
  <2>2. ~leaky => Taken' = Taken
    BY <1>1, <2>1 DEF Taken, ObjectsOf, Nothing
  <2> QED BY <1>1, <1>6, <2>2 DEF OpenInv, AllAccounted, Running
<1> QED BY <1>8, <1>9, <1>10, <1>11 DEF OpenInv

\* On a tidy disk, with no allocation failed, the lookup is without an item only
\* where the path leads nowhere.
LEMMA NextPartWildInv ==
    ASSUME OpenInv, NextPartWild, TableInv', LookupInv'
    PROVE  OpenInv'
<1>1. /\ Wild /\ UNCHANGED starved /\ Running /\ pc = "next" /\ parts # <<>>
      /\ current = Nothing \/ (current # Nothing /\ current.data # "ok")
  BY DEF NextPartWild, Running
<1>2. UNCHANGED <<volume, asked>>
  BY <1>1 DEF Wild, history
<1>3. PICK text, n, k : At(text, n, k)
  BY <1>1, LookupAt
<1>4. /\ text = Asked /\ NumberOfParts(text) \in Nat /\ n \in 0..NumberOfParts(text) /\ k \in 0..n
      /\ parts = [j \in 1..(n - k) |-> Part(text, k + j)]
      /\ k > 0 /\ (Tidy(volume) => FoundIs(k))
  BY <1>1, <1>3 DEF At, LookedUp, N
<1>5. k \in 1..(NumberOfParts(text) - 1)
  BY <1>1, <1>4
<1>6. ASSUME ~starved, Tidy(volume) PROVE asked # NoCall /\ ThroughNothing(volume, asked[1])
  <2>1. current = Nothing
    BY <1>1, <1>6 DEF OpenInv, DataThere
  <2>2. Resolve(volume, text, k) = NoItem
    BY <1>4, <1>6, <2>1 DEF FoundIs, LeadsTo
  <2>3. ThroughNothing(volume, asked[1])
    BY <1>4, <1>5, <2>2 DEF ThroughNothing, Asked
  <2> QED BY <1>1, <2>3 DEF OpenInv, Checked
<1>7. NoStrayAccess'
  BY <1>1, <1>2, <1>6 DEF NoStrayAccess
<1> QED BY <1>1, <1>7, WildKeeps

\* fat16.c:666-680: a failed lookup gives back the private descriptor.
LEMMA NotFoundInv ==
    ASSUME OpenInv, NotFound, TableInv', LookupInv'
    PROVE  OpenInv'
<1>1. /\ UNCHANGED <<table, volume, payload, status, asked, leaky, starved>>
      /\ status = "running" /\ pc = "end" /\ Running /\ current = Nothing
      /\ held' = held - 1 /\ pc' = "idle" /\ ret' = 0
      /\ current' = Nothing /\ found' = Nothing
  BY DEF NotFound, Running, FreePrivate, Refuse, Cleared
<1>2. found = Nothing
  BY <1>1 DEF OpenInv, LookupInv
<1>3. PICK text, n, k : At(text, n, k)
  BY <1>1, LookupAt
<1>4. /\ text = Asked
      /\ Plain(text) => n = NumberOfParts(text)
      /\ Tidy(volume) => FoundIs(n)
  BY <1>1, <1>3 DEF At, LookedUp, N
<1>5. Shares' = Shares
  BY <1>1, TableLeft
<1>6. FindsTheFile'
  <2>1. ~starved /\ Plain(text) /\ Tidy(volume) => Resolve(volume, text, NumberOfParts(text)) = NoItem
    BY <1>1, <1>4 DEF FoundIs, LeadsTo
  <2> QED BY <1>1, <1>4, <2>1 DEF FindsTheFile, Asked
<1>7. Checked' /\ ParserFollows' /\ LookupFollows' /\ NoStrayAccess'
  BY <1>1 DEF Checked, ParserFollows, LookupFollows, NoStrayAccess
<1>8. DataThere'
  BY <1>1 DEF OpenInv, DataThere
<1>9. AllAccounted'
  <2>1. Taken = 1 /\ Taken' = 0
    BY <1>1, <1>2 DEF Taken, ObjectsOf
  <2>2. held \in Int /\ SumOver(Shares) \in Int
    BY SumsToInt DEF OpenInv, AllAccounted
  <2>3. ~leaky => held = SumOver(Shares) + Taken
    BY <1>1 DEF OpenInv, AllAccounted
  <2>4. held' \in Int /\ (~leaky => held' = SumOver(Shares) + Taken')
    BY <1>1, <2>1, <2>2, <2>3
  <2> QED BY <1>1, <1>5, <2>4 DEF AllAccounted
<1> QED BY <1>6, <1>7, <1>8, <1>9 DEF OpenInv

\* fat16.c:673-674 and file.c:188-197: the descriptor stands for what was found, and
\* the objects of the call are behind it.
LEMMA InstallInv ==
    ASSUME OpenInv, NEW p \in Privates, Install(p), TableInv', LookupInv'
    PROVE  OpenInv'
<1>1. /\ UNCHANGED <<volume, status, asked, leaky, starved>>
      /\ status = "running" /\ pc = "end" /\ Running /\ current # Nothing
      /\ Fopen(current.item, p)
      /\ payload' = [payload EXCEPT ![p] = current.data]
      /\ held' = IF FreeSlots = {} THEN held ELSE held + 1
      /\ ret' = IF FreeSlots = {} THEN 0 ELSE Lowest(FreeSlots) + 1
      /\ pc' = "idle" /\ current' = Nothing /\ found' = Nothing
  BY DEF Install, Running, Cleared
<1>2. found = Nothing /\ OnDisk(current) /\ volume \in Volumes
  BY <1>1 DEF OpenInv, LookupInv
<1>3. /\ p \notin allocated /\ item' = [item EXCEPT ![p] = current.item]
      /\ DOMAIN item = Privates /\ DOMAIN payload = Privates
      /\ item'[p] = current.item /\ payload'[p] = current.data
      /\ \A q \in Privates \ {p} : item'[q] = item[q] /\ payload'[q] = payload[q]
  BY <1>1 DEF Fopen, OpenAtStart, OpenInv, TableInv, TypeOK, DataThere
<1>4. PICK text, n, k : At(text, n, k)
  BY <1>1, LookupAt
<1>5. /\ text = Asked
      /\ Plain(text) => n = NumberOfParts(text)
      /\ Tidy(volume) => FoundIs(n)
      /\ asked[3] <=> FreeSlots # {}
      /\ volume.mounted /\ asked[2] = "r"
  BY <1>1, <1>4 DEF At, LookedUp, N, OpenInv, Checked
<1>6. Checked' /\ ParserFollows' /\ LookupFollows' /\ NoStrayAccess'
  BY <1>1 DEF Checked, ParserFollows, LookupFollows, NoStrayAccess
<1>7. current.item # NoItem
  BY <1>2, FilesAssumption DEF OnDisk
<1>8. DataThere'
  <2>1. payload' = [q \in Privates |-> payload'[q]]
    BY <1>1, <1>3
  <2>2. ~starved /\ Tidy(volume) => /\ current.data = "ok"
                                    /\ \A q \in Privates : payload[q] = "ok"
    BY <1>1 DEF OpenInv, DataThere
  <2>3. ~starved /\ Tidy(volume) => \A q \in Privates : payload'[q] = "ok"
    BY <1>3, <2>2
  <2> QED BY <1>1, <2>1, <2>3 DEF DataThere
<1>9. CASE FreeSlots = {}
  <2>1. ret' = 0 /\ held' = held
    BY <1>1, <1>9
  <2>2. FindsTheFile'
    BY <1>1, <1>5, <1>9, <2>1 DEF FindsTheFile
  <2>3. leaky
    BY <1>1, <1>9 DEF OpenInv, AllAccounted
  <2>4. AllAccounted'
    BY <1>1, <2>1, <2>3 DEF OpenInv, AllAccounted
  <2> QED BY <1>6, <1>8, <2>2, <2>4 DEF OpenInv
<1>10. CASE FreeSlots # {}
  <2> DEFINE s == Lowest(FreeSlots)
  <2>1. s \in Slots /\ file_descriptors[s] = Empty
    BY <1>10, LowestIsFree DEF FreeSlots
  <2>2. /\ ret' = s + 1 /\ held' = held + 1
        /\ file_descriptors' = [file_descriptors EXCEPT ![s] = [index |-> s + 1, private |-> p]]
    BY <1>1, <1>10 DEF Fopen, NewDescriptor
  <2> HIDE DEF s
  <2>3. s \in Nat
    BY <2>1, FilesAssumption DEF Slots
  <2>4. /\ file_descriptors'[s].private = p /\ file_descriptors'[s] # Empty
        /\ \A t \in Slots \ {s} : file_descriptors'[t] = file_descriptors[t]
    <3>1. file_descriptors'[s] = [index |-> s + 1, private |-> p]
      BY <2>1, <2>2 DEF OpenInv, TableInv
    <3>2. s + 1 # 0
      BY <2>3
    <3> QED BY <2>1, <2>2, <3>1, <3>2 DEF OpenInv, TableInv, Empty
  <2>5. FindsTheFile'
    <3>1. ret' # 0 /\ ret' - 1 = s
      BY <2>2, <2>3
    <3>2. /\ item'[file_descriptors'[ret' - 1].private] = current.item
          /\ payload'[file_descriptors'[ret' - 1].private] = current.data
      BY <1>3, <2>4, <3>1
    <3>3. ~starved /\ Tidy(volume) => current.data = "ok"
      BY <1>1 DEF OpenInv, DataThere
    <3>4. Plain(text) /\ Tidy(volume) => current.item = Resolve(volume, text, NumberOfParts(text))
      BY <1>1, <1>5 DEF FoundIs, LeadsTo
    <3> QED BY <1>1, <1>5, <1>7, <1>10, <3>1, <3>2, <3>3, <3>4 DEF FindsTheFile, Asked
  <2>6. AllAccounted'
    <3>1. ASSUME NEW t \in Slots \ {s} PROVE Shares'[t] = Shares[t]
      <4>1. CASE file_descriptors[t] = Empty
        BY <2>4, <4>1 DEF Shares, Behind, Slots
      <4>2. CASE file_descriptors[t] # Empty
        <5>1. file_descriptors[t].private \in Privates /\ file_descriptors[t].private # p
          BY <1>3, <4>2 DEF OpenInv, TableInv, TypeOK, OwnPrivate
        <5>2. /\ item'[file_descriptors[t].private] = item[file_descriptors[t].private]
              /\ payload'[file_descriptors[t].private] = payload[file_descriptors[t].private]
          BY <1>3, <5>1
        <5> QED BY <2>4, <5>2 DEF Shares, Behind, Slots, TypeOf
      <4> QED BY <4>1, <4>2
    <3>2. Shares[s] = 0 /\ Shares'[s] = 2 + Objects(current.type, current.data)
      <4>1. Shares[s] = 0
        BY <2>1 DEF Shares, Behind
      <4>2. Shares'[s] = 2 + Objects(IF current.item \in Files THEN "file" ELSE "directory", current.data)
        BY <1>3, <2>1, <2>4 DEF Shares, Behind, Slots, TypeOf
      <4>3. current.type = IF current.item \in Files THEN "file" ELSE "directory"
        BY <1>2, FilesAssumption DEF OnDisk
      <4> QED BY <4>1, <4>2, <4>3
    <3>3. Shares \in [Slots -> Int] /\ Shares' \in [Slots -> Int]
      BY DEF Shares, Behind, Objects, Slots
    <3>4. SumOver(Shares) \in Int /\ SumOver(Shares') = SumOver(Shares) + Shares'[s] - Shares[s]
      <4> HIDE DEF Shares
      <4> QED BY <2>1, <3>1, <3>3, SumOfOne
    <3>5. Taken = 1 + Objects(current.type, current.data) /\ Taken' = 0
      BY <1>1, <1>2 DEF Taken, ObjectsOf, Objects
    <3>6. Objects(current.type, current.data) \in Int /\ held \in Int
      BY DEF Objects, OpenInv, AllAccounted
    <3>7. ~leaky => held = SumOver(Shares) + Taken
      BY <1>1 DEF OpenInv, AllAccounted
    <3>8. held' \in Int /\ (~leaky => held' = SumOver(Shares') + Taken')
      BY <2>2, <3>2, <3>4, <3>5, <3>6, <3>7
    <3> QED BY <1>1, <3>8 DEF AllAccounted
  <2> QED BY <1>6, <1>8, <2>5, <2>6 DEF OpenInv
<1> QED BY <1>9, <1>10

\* file.c:224-241 and fat16.c:683-693: fclose gives back what is behind its own
\* descriptor.
LEMMA CloseOpenInv ==
    ASSUME OpenInv, NEW fd \in 1..MAX_FILE_DESCRIPTORS, CloseOpen(fd), TableInv', LookupInv'
    PROVE  OpenInv'
<1> DEFINE s == fd - 1
           p == file_descriptors[s].private
<1>1. /\ UNCHANGED <<volume, pc, current, found, status, leaky, starved>>
      /\ status = "running" /\ pc = "idle" /\ Running /\ asked' = NoCall
      /\ GetDescriptor(fd) # Empty /\ Fclose(fd)
      /\ held' = held - 2 - Objects(TypeOf(PrivateOf(fd)), payload[PrivateOf(fd)])
      /\ payload' = [payload EXCEPT ![PrivateOf(fd)] = "ok"]
  BY DEF CloseOpen, Usable, Running, call
<1>2. /\ s \in Slots /\ file_descriptors[s] # Empty /\ p \in Privates
      /\ GetDescriptor(fd) = file_descriptors[s] /\ SlotOf(GetDescriptor(fd)) = s
      /\ PrivateOf(fd) = p
  <2>1. fd \in 0..MAX_FILE_DESCRIPTORS /\ TableInv
    BY FilesAssumption DEF OpenInv
  <2> QED BY <1>1, <2>1, DescriptorOf DEF PrivateOf
<1>3. /\ file_descriptors' = [file_descriptors EXCEPT ![s] = Empty]
      /\ item' = [item EXCEPT ![p] = NoItem]
      /\ payload' = [payload EXCEPT ![p] = "ok"]
      /\ held' = held - 2 - Objects(TypeOf(p), payload[p])
  BY <1>1, <1>2 DEF Fclose
<1> HIDE DEF s, p
<1>4. Checked' /\ ParserFollows' /\ LookupFollows' /\ NoStrayAccess' /\ FindsTheFile'
  BY <1>1 DEF Checked, ParserFollows, LookupFollows, NoStrayAccess, FindsTheFile
<1>5. DataThere'
  BY <1>1, <1>3 DEF OpenInv, DataThere, Nothing
<1>6. /\ file_descriptors'[s] = Empty
      /\ \A t \in Slots \ {s} : file_descriptors'[t] = file_descriptors[t]
      /\ \A q \in Privates \ {p} : item'[q] = item[q] /\ payload'[q] = payload[q]
  BY <1>2, <1>3 DEF OpenInv, TableInv, TypeOK, DataThere
<1>7. AllAccounted'
  <2>1. ASSUME NEW t \in Slots \ {s} PROVE Shares'[t] = Shares[t]
    <3>1. CASE file_descriptors[t] = Empty
      BY <1>6, <3>1 DEF Shares, Behind, Slots
    <3>2. CASE file_descriptors[t] # Empty
      <4>1. file_descriptors[t].private \in Privates /\ file_descriptors[t].private # p
        BY <1>2, <3>2 DEF OpenInv, TableInv, TypeOK, OwnPrivate, p
      <4>2. /\ item'[file_descriptors[t].private] = item[file_descriptors[t].private]
            /\ payload'[file_descriptors[t].private] = payload[file_descriptors[t].private]
        BY <1>6, <4>1
      <4> QED BY <1>6, <4>2 DEF Shares, Behind, Slots, TypeOf
    <3> QED BY <3>1, <3>2
  <2>2. Shares[s] = 2 + Objects(TypeOf(p), payload[p]) /\ Shares'[s] = 0
    BY <1>2, <1>6 DEF Shares, Behind, Slots, p
  <2>3. Shares \in [Slots -> Int] /\ Shares' \in [Slots -> Int]
    BY DEF Shares, Behind, Objects, Slots
  <2>4. SumOver(Shares) \in Int /\ SumOver(Shares') = SumOver(Shares) + Shares'[s] - Shares[s]
    <3> HIDE DEF Shares
    <3> QED BY <1>2, <2>1, <2>3, SumOfOne
  <2>5. Taken = 0 /\ Taken' = 0
    BY <1>1 DEF Taken
  <2>6. Objects(TypeOf(p), payload[p]) \in Int /\ held \in Int
    BY DEF Objects, OpenInv, AllAccounted
  <2>7. ~leaky => held = SumOver(Shares) + Taken
    BY <1>1 DEF OpenInv, AllAccounted
  <2>8. held' \in Int /\ (~leaky => held' = SumOver(Shares') + Taken')
    BY <1>3, <2>2, <2>4, <2>5, <2>6, <2>7
  <2> QED BY <1>1, <2>8 DEF AllAccounted
<1> QED BY <1>4, <1>5, <1>7 DEF OpenInv

\* On a tidy disk only what a failed allocation left without its data is used
\* without it.
LEMMA UseWildInv ==
    ASSUME OpenInv, NEW fd \in 1..MAX_FILE_DESCRIPTORS, CloseWild(fd) \/ UseWild(fd),
           TableInv', LookupInv'
    PROVE  OpenInv'
<1>1. Wild /\ UNCHANGED starved /\ GetDescriptor(fd) # Empty /\ payload[PrivateOf(fd)] # "ok"
  BY DEF CloseWild, UseWild, Usable
<1>2. PrivateOf(fd) \in Privates
  <2>1. fd \in 0..MAX_FILE_DESCRIPTORS /\ TableInv
    BY FilesAssumption DEF OpenInv
  <2> QED BY <1>1, <2>1, DescriptorOf DEF PrivateOf
<1>3. starved' \/ ~Tidy(volume')
  BY <1>1, <1>2 DEF OpenInv, DataThere, Wild
<1>4. NoStrayAccess'
  BY <1>3 DEF NoStrayAccess
<1> QED BY <1>1, <1>4, WildKeeps

\* fat16.c:741-779: fseek moves a position, which nothing here depends on.
LEMMA SeekOpenInv ==
    ASSUME OpenInv, NEW fd \in 1..MAX_FILE_DESCRIPTORS, NEW dist \in 0..(Word - 1),
           NEW whence \in {"SEEK_SET", "SEEK_CUR"}, SeekOpen(fd, dist, whence),
           TableInv', LookupInv'
    PROVE  OpenInv'
<1>1. /\ UNCHANGED <<file_descriptors, item, volume, payload, pc, current, found, held, status, leaky, starved>>
      /\ pc = "idle" /\ Running /\ asked' = NoCall
  BY DEF SeekOpen, Usable, Running, call, Fseek
<1>2. Checked' /\ ParserFollows' /\ LookupFollows' /\ NoStrayAccess' /\ FindsTheFile'
  BY <1>1 DEF Checked, ParserFollows, LookupFollows, NoStrayAccess, FindsTheFile, Running
<1>3. Shares' = Shares
  BY <1>1 DEF Shares, Behind, Slots, TypeOf
<1>4. DataThere' /\ AllAccounted'
  BY <1>1, <1>3 DEF OpenInv, DataThere, AllAccounted, Taken, Nothing, Running
<1> QED BY <1>2, <1>4 DEF OpenInv

\* fat16.c:718-739: what fread makes of a directory ends what is known.
LEMMA ReadDirectoryInv ==
    ASSUME OpenInv, NEW fd \in 1..MAX_FILE_DESCRIPTORS, ReadDirectory(fd), TableInv', LookupInv'
    PROVE  OpenInv'
<1>1. /\ UNCHANGED <<volume, payload, current, found, held, starved>> /\ status' = "misread"
  BY DEF ReadDirectory, call
<1>2. ~Running' /\ status' # "running" /\ status' # "wild"
  BY <1>1 DEF Running
<1>3. /\ Checked' /\ ParserFollows' /\ LookupFollows' /\ NoStrayAccess' /\ FindsTheFile'
  BY <1>2 DEF Checked, ParserFollows, LookupFollows, NoStrayAccess, FindsTheFile
<1>4. DataThere' /\ AllAccounted'
  BY <1>1, <1>2 DEF OpenInv, DataThere, AllAccounted, Nothing
<1> QED BY <1>3, <1>4 DEF OpenInv

\* What is known of a call is a matter of the variables.
LEMMA OpenStutterInv ==
    ASSUME OpenInv, UNCHANGED openVars, TableInv', LookupInv'
    PROVE  OpenInv'
<1>1. /\ UNCHANGED <<table, volume, payload, pc, rest, parts, current, found, at, held, status>>
      /\ UNCHANGED <<asked, ret, leaky, starved>>
  BY DEF openVars, vars, table, call, history
<1>2. /\ Asked' = Asked /\ N' = N /\ Shares' = Shares /\ FreeSlots' = FreeSlots
      /\ directory' = directory /\ Lies' = Lies
  BY <1>1, TableLeft DEF Asked, N, directory, Lies
<1>3. Checked'
  BY <1>1, <1>2 DEF OpenInv, Checked, Running
<1>4. ParserFollows'
  BY <1>1, <1>2 DEF OpenInv, ParserFollows, ParsedTo, Running
<1>5. LookupFollows'
  BY <1>1, <1>2 DEF OpenInv, LookupFollows, LookedUp, ScanFollows, FoundIs, Met, LeadsTo, Running, Nothing
<1>6. DataThere' /\ AllAccounted'
  BY <1>1, <1>2 DEF OpenInv, DataThere, AllAccounted, Taken, ObjectsOf, Running, Nothing
<1>7. FindsTheFile' /\ NoStrayAccess'
  BY <1>1 DEF OpenInv, FindsTheFile, NoStrayAccess, table
<1> QED BY <1>3, <1>4, <1>5, <1>6, <1>7 DEF OpenInv

\* Every step of fopen, fclose and fseek keeps the invariant.
LEMMA OpenNextInv == OpenInv /\ [OpenNext]_openVars => OpenInv'
<1> SUFFICES ASSUME OpenInv, [OpenNext]_openVars PROVE OpenInv'
  OBVIOUS
<1>1. TableInv' /\ LookupInv'
  BY OpenStep, TableStepInv DEF OpenInv
<1>2. CASE UNCHANGED openVars
  BY <1>1, <1>2, OpenStutterInv
<1>3. CASE ParseFails \/ InstallFails
  BY <1>1, <1>3, NullWriteKeeps DEF ParseFails, InstallFails
<1>4. CASE ParsePart \/ CheckCall \/ ScanEntry \/ ScanBehindArray \/ EndScan
  BY <1>1, <1>4, ParsePartInv, CheckCallInv, ScanEntryInv, ScanBehindArrayInv, EndScanInv
<1>5. CASE NextPart \/ NextPartRefused \/ NextPartWild \/ LastPart \/ NotFound
  BY <1>1, <1>5, NextPartInv, NextPartRefusedInv, NextPartWildInv, LastPartInv, NotFoundInv
<1>6. CASE \E text \in Paths, mode \in {"r", "w"} : CallFopen(text, mode)
  BY <1>1, <1>6, CallFopenInv
<1>7. CASE \E p \in Privates : Install(p)
  BY <1>1, <1>7, InstallInv
<1>8. CASE \E fd \in 1..MAX_FILE_DESCRIPTORS :
              CloseOpen(fd) \/ CloseWild(fd) \/ UseWild(fd) \/ ReadDirectory(fd)
  BY <1>1, <1>8, CloseOpenInv, UseWildInv, ReadDirectoryInv
<1>9. CASE \E fd \in 1..MAX_FILE_DESCRIPTORS, offset \in 0..(Word - 1),
              whence \in {"SEEK_SET", "SEEK_CUR"} : SeekOpen(fd, offset, whence)
  BY <1>1, <1>9, SeekOpenInv
<1> QED BY <1>2, <1>3, <1>4, <1>5, <1>6, <1>7, <1>8, <1>9 DEF OpenNext

\* The invariant of fopen, from the text of a path to a descriptor.
THEOREM OpenInvariant == OpenSpec => []OpenInv
<1>1. OpenInit => OpenInv
  BY OpenInitInv, LookupInitInv, TableInitInv DEF OpenInit, OpenInv
<1> QED BY <1>1, OpenNextInv, PTL DEF OpenSpec

\* As long as no allocation fails, fopen of a well-formed path on a tidy disk opens
\* what the names lead to and nothing else, for every path and every disk
\* (parser.c:39-135, fat16.c:604-647).
THEOREM OpenFindsTheFile == OpenSpec => []FindsTheFile
<1>1. OpenInv => FindsTheFile
  BY DEF OpenInv
<1> QED BY OpenInvariant, <1>1, PTL

\* On a tidy disk NULL and freed memory are used only after an allocation has
\* failed, or on a path that goes through a name that is not there
\* (fat16.c:632-643).
THEOREM OpenStraysOnly == OpenSpec => []NoStrayAccess
<1>1. OpenInv => NoStrayAccess
  BY DEF OpenInv
<1> QED BY OpenInvariant, <1>1, PTL

\* Whatever is opened, refused and closed, every object the file layer has taken
\* is behind a descriptor but for the cases in which fopen loses them
\* (file.c:142-241, fat16.c:604-693).
THEOREM OpenAccountsMemory == OpenSpec => []MemoryAccounted
<1>1. OpenInv => MemoryAccounted
  <2> SUFFICES ASSUME OpenInv, status = "running", pc = "idle", ~leaky
               PROVE  held = SumOver([s \in Slots |-> Behind(file_descriptors[s])])
    BY DEF MemoryAccounted
  <2>1. held = SumOver(Shares) + Taken /\ Taken = 0
    BY DEF OpenInv, AllAccounted, Running, Taken
  <2> QED BY <2>1, SumsToInt DEF Shares
<1> QED BY OpenInvariant, <1>1, PTL
=============================================================================
