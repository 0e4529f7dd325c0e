----------------------------- MODULE HeapProofs -----------------------------
(* The search loop of the heap computes IsStartBlock; and the heap, which     *)
(* uses that answer, keeps its table and its allocations in agreement, for    *)
(* every number of blocks, of pointers and of request sizes, until a block is  *)
(* freed through the pointer of an empty request while it is somebody else's.  *)
EXTENDS Heap, HeapSearch, TLAPS

-----------------------------------------------------------------------------
(* The search: the loop computes IsStartBlock, for every table and request.  *)

\* What the proof carries: types, and what holds while the loop runs and after.
SearchInv == SearchTypeOK /\ LoopInv /\ SearchCorrect

\* Before the loop the window is empty and nothing has been examined.
LEMMA SearchInitInv == SearchInit => SearchInv
  BY TotalAssumption, MaxRequestAssumption
  DEF SearchInit, SearchInv, SearchTypeOK, LoopInv, Window, SearchCorrect, Blocks, NoBlock

\* heap.c:80-85: a used block ends every window that would contain it.
LEMMA SkipTakenInv == SearchInv /\ SkipTaken => SearchInv'
<1> SUFFICES ASSUME SearchInv, SkipTaken PROVE SearchInv'
    OBVIOUS
<1> USE TotalAssumption, MaxRequestAssumption
<1>1. SearchTypeOK'
    BY DEF SearchInv, SearchTypeOK, SkipTaken, Blocks, NoBlock
<1>2. Window'
    BY DEF SearchInv, SearchTypeOK, SkipTaken, Window, NoBlock
<1>3. ASSUME NEW s \in 0..i, s + total_blocks <= i + 1, total_blocks > 0
      PROVE  ~Fits(free, s, total_blocks)
  <2>1. CASE s + total_blocks <= i
      BY <1>3, <2>1 DEF SearchInv, SearchTypeOK, SkipTaken, LoopInv
  <2>2. CASE s + total_blocks = i + 1
      BY <1>3, <2>2 DEF SearchInv, SearchTypeOK, SkipTaken, Fits
  <2> QED BY <1>3, <2>1, <2>2 DEF SearchInv, SearchTypeOK
<1>4. LoopInv'
    BY <1>2, <1>3 DEF SearchInv, SearchTypeOK, SkipTaken, LoopInv
<1> QED
    BY <1>1, <1>4 DEF SearchInv, SkipTaken, SearchCorrect

\* heap.c:86-100: a free block extends the window, and the first window to
\* reach the request is the first one that fits.
LEMMA ExpandWindowInv == SearchInv /\ ExpandWindow => SearchInv'
<1> SUFFICES ASSUME SearchInv, ExpandWindow PROVE SearchInv'
    OBVIOUS
<1> USE TotalAssumption, MaxRequestAssumption
<1> DEFINE start == IF window_start = NoBlock THEN i ELSE window_start
<1>0. /\ start \in 0..i
      /\ start + window_size = i
      /\ start..i \subseteq free
      /\ start > 0 => (start - 1) \notin free
      /\ window_size \in Nat
    BY DEF SearchInv, SearchTypeOK, LoopInv, Window, ExpandWindow, NoBlock, Blocks
<1>t. i \in Nat /\ total_blocks \in Nat
    BY DEF SearchInv, SearchTypeOK
<1>1. SearchTypeOK'
    BY <1>0 DEF SearchInv, SearchTypeOK, ExpandWindow, Blocks, NoBlock
<1>2. CASE window_size + 1 = total_blocks
  <2>1. Fits(free, start, total_blocks)
      BY <1>0, <1>2 DEF Fits, ExpandWindow, SearchInv, SearchTypeOK
  <2>2. ASSUME NEW t \in 0..(start - 1) PROVE ~Fits(free, t, total_blocks)
    <3>1. CASE t + total_blocks <= i
        BY <3>1, <2>2, <1>0, <1>2 DEF SearchInv, SearchTypeOK, LoopInv, ExpandWindow
    <3>2. CASE t + total_blocks > i
        BY <3>2, <2>2, <1>0, <1>2 DEF Fits, SearchInv, SearchTypeOK
    <3> QED BY <3>1, <3>2, <2>2, <1>0 DEF SearchInv, SearchTypeOK
  <2>3. FirstFit(free, total_blocks, start)
      BY <1>0, <1>2, <2>1, <2>2 DEF FirstFit, SearchInv, SearchTypeOK, ExpandWindow, Blocks
  <2>4. pc' = "done" /\ window_start' = start /\ UNCHANGED <<free, total_blocks>>
      BY <1>2 DEF ExpandWindow
  <2>5. LoopInv' /\ SearchCorrect'
      BY <2>3, <2>4 DEF LoopInv, SearchCorrect, IsStartBlock
  <2> QED BY <1>1, <2>5 DEF SearchInv
<1>3. CASE window_size + 1 # total_blocks
  <2>1. /\ window_start' = start /\ window_size' = window_size + 1
        /\ i' = i + 1 /\ pc' = "loop" /\ UNCHANGED <<free, total_blocks>>
      BY <1>3 DEF ExpandWindow
  <2>2. Window'
    <3> HIDE DEF start
    <3>1. start # NoBlock
        BY <1>0, <1>t DEF NoBlock
    <3>2. start..(i' - 1) = start..i
        BY <2>1, <1>t, <1>0
    <3>3. start + (window_size + 1) = i + 1
        BY <1>0, <1>t
    <3> QED BY <1>0, <1>t, <2>1, <3>1, <3>2, <3>3 DEF Window
  <2>3. ASSUME NEW s \in 0..i, s + total_blocks <= i + 1, total_blocks > 0
        PROVE  ~Fits(free, s, total_blocks)
    <3>1. CASE s + total_blocks <= i
        BY <2>3, <3>1 DEF SearchInv, SearchTypeOK, LoopInv, ExpandWindow
    <3>2. CASE s + total_blocks = i + 1 /\ s > start
      <4>1. start + total_blocks <= i
          BY <3>2, <2>3, <1>0 DEF SearchInv, SearchTypeOK
      <4>2. ~Fits(free, start, total_blocks)
          BY <4>1, <2>3, <1>0 DEF SearchInv, SearchTypeOK, LoopInv, ExpandWindow
      <4>3. Fits(free, start, total_blocks)
        <5> HIDE DEF start
        <5>1. start + total_blocks <= Total
            BY <4>1, <1>0, <1>t DEF SearchInv, SearchTypeOK
        <5>2. start..(start + total_blocks - 1) \subseteq start..i
            BY <4>1, <1>0, <1>t
        <5> QED BY <5>1, <5>2, <1>0 DEF Fits
      <4> QED BY <4>2, <4>3
    <3>3. CASE s + total_blocks = i + 1 /\ s < start
        BY <3>3, <2>3, <1>0 DEF Fits, SearchInv, SearchTypeOK
    <3>4. CASE s + total_blocks = i + 1 /\ s = start
        BY <3>4, <2>3, <1>0, <1>3 DEF SearchInv, SearchTypeOK
    <3> QED BY <3>1, <3>2, <3>3, <3>4, <2>3, <1>0 DEF SearchInv, SearchTypeOK
  <2>4. LoopInv' /\ SearchCorrect'
      BY <2>1, <2>2, <2>3 DEF LoopInv, SearchCorrect, SearchInv, SearchTypeOK
  <2> QED BY <1>1, <2>4 DEF SearchInv
<1> QED BY <1>2, <1>3

\* heap.c:104-109: at the end of the table no window fits, and what is left in
\* window_start is the trailing run of free blocks, or no block.
LEMMA ExhaustedInv == SearchInv /\ Exhausted => SearchInv'
<1> SUFFICES ASSUME SearchInv, Exhausted PROVE SearchInv'
    OBVIOUS
<1> USE TotalAssumption, MaxRequestAssumption
<1>1. SearchTypeOK' /\ LoopInv'
    BY DEF SearchInv, SearchTypeOK, LoopInv, Exhausted
<1>t. /\ i = Total /\ total_blocks \in Nat /\ Window
      /\ window_start \in Blocks \cup {NoBlock}
      /\ \A s \in 0..(Total - 1) :
            s + total_blocks <= Total /\ total_blocks > 0
              => ~Fits(free, s, total_blocks)
    BY DEF SearchInv, SearchTypeOK, LoopInv, Exhausted
<1>2. ~HasWindow(free, total_blocks)
    BY <1>t DEF HasWindow, Fits, Blocks
<1>5. IsStartBlock(free, total_blocks, window_start)
  <2>1. CASE window_start = NoBlock
    <3>1. (Total - 1) \notin free
        BY <2>1, <1>t DEF Window
    <3> QED BY <1>2, <2>1, <3>1 DEF IsStartBlock
  <2>2. CASE window_start # NoBlock
    <3>1. TrailingRun(free, window_start)
        BY <2>2, <1>t DEF Window, TrailingRun
    <3> QED BY <1>2, <3>1 DEF IsStartBlock
  <2> QED BY <2>1, <2>2
<1> QED
    BY <1>1, <1>5 DEF SearchInv, Exhausted, SearchCorrect

\* The inductive invariant of the search.
THEOREM SearchInvariant == SearchSpec => []SearchInv
<1>1. SearchInit => SearchInv
    BY SearchInitInv
<1>2. SearchInv /\ [SearchNext]_searchVars => SearchInv'
  <2>1. SearchInv /\ UNCHANGED searchVars => SearchInv'
      BY DEF searchVars, SearchInv, SearchTypeOK, LoopInv, Window, SearchCorrect
  <2> QED BY <2>1, SkipTakenInv, ExpandWindowInv, ExhaustedInv DEF SearchNext
<1> QED BY <1>1, <1>2, PTL DEF SearchSpec

\* At every entry of the table the window of the loop is the run of free blocks
\* just before it, and no window that would have done lies behind (heap.c:78-101).
THEOREM WindowIsMaximal == SearchSpec => []LoopInv
<1>1. SearchInv => LoopInv
    BY DEF SearchInv
<1> QED BY SearchInvariant, <1>1, PTL

\* The search of the code (heap.c:72-110) returns what IsStartBlock says,
\* whatever the table and the request.
THEOREM SearchIsCorrect == SearchSpec => []SearchCorrect
<1>1. SearchInv => SearchCorrect
    BY DEF SearchInv
<1> QED BY SearchInvariant, <1>1, PTL

\* The answer is unique: the search is a function of the table and the request.
THEOREM StartBlockIsUnique ==
    ASSUME NEW avail \in SUBSET Blocks, NEW n \in Nat,
           NEW s, IsStartBlock(avail, n, s),
           NEW t, IsStartBlock(avail, n, t)
    PROVE  s = t
<1> USE TotalAssumption
<1>1. CASE FirstFit(avail, n, s) /\ FirstFit(avail, n, t)
    BY <1>1 DEF FirstFit, Blocks
<1>2. CASE ~HasWindow(avail, n)
  <2>1. ~FirstFit(avail, n, s) /\ ~FirstFit(avail, n, t)
      BY <1>2 DEF HasWindow, FirstFit
  <2>2. CASE TrailingRun(avail, s) /\ TrailingRun(avail, t)
      BY <2>2 DEF TrailingRun, Blocks
  <2>3. ASSUME NEW u, TrailingRun(avail, u) PROVE (Total - 1) \in avail
      BY <2>3 DEF TrailingRun, Blocks
  <2> QED BY <1>2, <2>1, <2>2, <2>3 DEF IsStartBlock
<1>3. HasWindow(avail, n) => FirstFit(avail, n, s) /\ FirstFit(avail, n, t)
    BY DEF IsStartBlock
<1> QED BY <1>1, <1>2, <1>3

-----------------------------------------------------------------------------
(* The heap, which uses the answer of the search.                            *)

\* Nothing is owned through NULL.
Lengths == \A h \in Holders : ptr[h] = NoBlock => len[h] = 0

\* TableMatches is not inductive alone: a free walks the chain of its own
\* pointer only if no other allocation shares a block with it.
IInv == TypeOK /\ Lengths /\ Disjoint /\ TableMatches

\* heap.c:55-65, 176-181: a size becomes a natural number of blocks.
LEMMA BlocksForType ==
    ASSUME NEW bytes \in Sizes PROVE BlocksFor(bytes) \in Nat
<1>1. bytes \in Nat
    BY SizesAssumption, WordAssumption
<1>2. bytes % BlockSize \in Nat /\ bytes % BlockSize <= bytes
    BY <1>1, SizesAssumption, WordAssumption
<1>3. AlignUp(bytes) \in Nat
  <2>1. CASE bytes % BlockSize = 0
      BY <1>1, <2>1 DEF AlignUp
  <2>2. CASE bytes % BlockSize # 0
    <3>1. bytes - (bytes % BlockSize) + BlockSize \in Nat
        BY <1>1, <1>2, SizesAssumption, WordAssumption
    <3> QED BY <3>1, <2>2, SizesAssumption, WordAssumption DEF AlignUp
  <2> QED BY <2>1, <2>2
<1> QED BY <1>3, SizesAssumption, WordAssumption DEF BlocksFor

\* heap.c:72-110: the blocks of the returned window that the table has are free.
LEMMA WindowIsFree ==
    ASSUME NEW avail \in SUBSET Blocks, NEW n \in Nat,
           NEW s \in Blocks, IsStartBlock(avail, n, s),
           NEW b \in Blocks, b \in s..(s + n - 1)
    PROVE  b \in avail
<1> USE TotalAssumption
<1>1. CASE FirstFit(avail, n, s)
    BY <1>1 DEF FirstFit, Fits
<1>2. CASE TrailingRun(avail, s)
    BY <1>2 DEF TrailingRun, Blocks
<1> QED BY <1>1, <1>2 DEF IsStartBlock, NoBlock, Blocks

\* heap.c:157-169: the entries a free resets are those of the freed allocation.
LEMMA ChainIsOwned ==
    ASSUME IInv, ~stray, NEW h \in Holders, ptr[h] # NoBlock, len[h] > 0,
           NEW b \in Blocks
    PROVE  (b >= ptr[h] /\ \A c \in ptr[h]..(b - 1) : entries[c].next)
              <=> b \in Owned(h)
<1> USE TotalAssumption
<1> DEFINE s == ptr[h]
<1>1. /\ s \in 0..(Total - 1) /\ len[h] \in Nat /\ len[h] > 0
      /\ b \in 0..(Total - 1)
    BY DEF IInv, TypeOK, Blocks, NoBlock
<1>2. ASSUME NEW c \in Owned(h) PROVE entries[c].next <=> c # ptr[h] + len[h] - 1
  <2>1. PICK g \in Holders : c \in Owned(g) /\ entries[c] = ChainEntry(c, ptr[g], len[g])
      BY <1>2 DEF IInv, TableMatches, Owned
  <2>2. g = h
      BY <1>2, <2>1 DEF IInv, Disjoint
  <2>3. entries[c].next = ChainEntry(c, ptr[h], len[h]).next
      BY <2>1, <2>2
  <2>4. ChainEntry(c, ptr[h], len[h]).next = (c # ptr[h] + len[h] - 1)
      BY Zenon DEF ChainEntry
  <2> QED BY <2>3, <2>4, Zenon
<1>3. ASSUME b \in Owned(h), NEW c \in s..(b - 1) PROVE entries[c].next
  <2>1. c \in Owned(h) /\ c # ptr[h] + len[h] - 1
      BY <1>1, <1>3 DEF Owned, Blocks
  <2> QED BY <1>2, <2>1, Zenon
<1>4. ASSUME b >= s, b \notin Owned(h) PROVE ~(\A c \in s..(b - 1) : entries[c].next)
  <2>1. PICK c \in s..(b - 1) : c = ptr[h] + len[h] - 1
      BY <1>1, <1>4 DEF Owned, Blocks
  <2>2. c \in Owned(h)
      BY <1>1, <2>1 DEF Owned, Blocks
  <2>3. ~entries[c].next
      BY <1>2, <2>1, <2>2, Zenon
  <2> QED BY <2>3, Zenon
<1>5. b \in Owned(h) => b >= s
    BY DEF Owned
<1> QED BY <1>3, <1>4, <1>5

\* heap.c:157-169: freeing a free block, the only one an empty request has a
\* pointer to, leaves the table as it is.
LEMMA EmptyChain ==
    ASSUME IInv, ~stray, NEW s \in Blocks, ~entries[s].taken
    PROVE  MarkFree(entries, s) = entries
<1> USE TotalAssumption
<1>1. entries[s] = FreeEntry
  <2>1. ASSUME NEW h \in Holders PROVE ChainEntry(s, ptr[h], len[h]).taken
      BY DEF ChainEntry
  <2> QED BY <2>1 DEF IInv, TableMatches
<1>2. ~entries[s].next
    BY <1>1 DEF FreeEntry
<1>3. ASSUME NEW b \in Blocks, b >= s, \A c \in s..(b - 1) : entries[c].next
      PROVE  b = s
    BY <1>2, <1>3 DEF Blocks
<1>4. \A b \in Blocks : MarkFree(entries, s)[b] = entries[b]
    BY <1>1, <1>3 DEF MarkFree
<1>5. MarkFree(entries, s) = [b \in Blocks |-> MarkFree(entries, s)[b]]
    BY DEF MarkFree
<1> QED BY <1>4, <1>5 DEF IInv, TypeOK

LEMMA InitInv == Init => IInv
<1> SUFFICES ASSUME Init PROVE IInv
    OBVIOUS
<1>1. \A h \in Holders : ptr[h] = NoBlock /\ len[h] = 0 /\ Owned(h) = {}
    BY DEF Init, Owned
<1>2. TypeOK
    BY DEF Init, TypeOK, Entry, FreeEntry
<1>3. TableMatches
    BY <1>1 DEF Init, TableMatches
<1> QED BY <1>1, <1>2, <1>3 DEF IInv, Lengths, Disjoint

LEMMA MallocInv ==
    ASSUME IInv, NEW h \in Holders, NEW bytes \in Sizes, Malloc(h, bytes)
    PROVE  IInv'
<1> USE TotalAssumption
<1> DEFINE n == BlocksFor(bytes)
<1>1. n \in Nat
    BY BlocksForType
<1>2. PICK s \in Blocks :
          /\ IsStartBlock(FreeBlocks(entries), n, s)
          /\ entries' = MarkTaken(entries, s, n)
          /\ ptr' = [ptr EXCEPT ![h] = s]
    BY DEF Malloc
<1>3. ptr[h] = NoBlock /\ len' = [len EXCEPT ![h] = n] /\ stray' = stray
    BY DEF Malloc
<1> HIDE DEF n
<1>4. ptr'[h] = s /\ len'[h] = n /\ s \in 0..(Total - 1)
    BY <1>2, <1>3 DEF IInv, TypeOK, Blocks
<1>5. \A g \in Holders \ {h} : Owned(g)' = Owned(g) /\ ptr'[g] = ptr[g] /\ len'[g] = len[g]
    BY <1>2, <1>3 DEF IInv, TypeOK, Owned
<1>6. Owned(h)' = {b \in Blocks : b \in s..(s + n - 1)}
    BY <1>1, <1>4 DEF Owned, Blocks, NoBlock
<1>7. Owned(h) = {}
    BY <1>3 DEF Owned
<1>8. \A b \in Owned(h)' : ~entries[b].taken
  <2>1. \A b \in Owned(h)' : b \in FreeBlocks(entries)
      BY <1>1, <1>2, <1>6, WindowIsFree DEF FreeBlocks
  <2> QED BY <2>1 DEF FreeBlocks
<1>9. ASSUME ~stray PROVE \A g \in Holders : \A b \in Owned(g) : entries[b].taken
  <2> SUFFICES ASSUME NEW g \in Holders, NEW b \in Owned(g) PROVE entries[b].taken
      OBVIOUS
  <2>1. PICK f \in Holders : entries[b] = ChainEntry(b, ptr[f], len[f])
      BY <1>9 DEF IInv, TableMatches, Owned
  <2> QED BY <2>1 DEF ChainEntry
<1>10. ~stray => \A g \in Holders : Owned(g) \cap Owned(h)' = {}
    BY <1>8, <1>9
<1>11. TypeOK'
  <2>1. entries' \in [Blocks -> Entry]
      BY <1>2 DEF MarkTaken, ChainEntry, IInv, TypeOK, Entry
  <2>2. ptr' \in [Holders -> Blocks \cup {NoBlock}]
      BY <1>2 DEF IInv, TypeOK
  <2>3. len' \in [Holders -> Nat] /\ stray' \in BOOLEAN
      BY <1>1, <1>3 DEF IInv, TypeOK
  <2> QED BY <2>1, <2>2, <2>3 DEF TypeOK
<1>12. Lengths'
    BY <1>4, <1>5 DEF Lengths, IInv, NoBlock
<1>13. Disjoint'
    BY <1>3, <1>5, <1>7, <1>10 DEF Disjoint, IInv
<1>14. TableMatches'
  <2> SUFFICES ASSUME ~stray, NEW b \in Blocks
               PROVE  \/ /\ entries'[b] = FreeEntry
                         /\ \A g \in Holders : b \notin Owned(g)'
                      \/ \E g \in Holders :
                            b \in Owned(g)' /\ entries'[b] = ChainEntry(b, ptr'[g], len'[g])
      BY <1>3 DEF TableMatches, ChainEntry
  <2>1. CASE b \in Owned(h)'
      BY <1>2, <1>4, <1>6, <2>1 DEF MarkTaken
  <2>2. CASE b \notin Owned(h)'
    <3>1. entries'[b] = entries[b]
        BY <1>2, <1>6, <2>2 DEF MarkTaken
    <3>2. CASE entries[b] = FreeEntry /\ \A g \in Holders : b \notin Owned(g)
        BY <1>5, <2>2, <3>1, <3>2
    <3>3. ASSUME NEW g \in Holders, b \in Owned(g),
                 entries[b] = ChainEntry(b, ptr[g], len[g])
          PROVE  b \in Owned(g)' /\ entries'[b] = ChainEntry(b, ptr'[g], len'[g])
        BY <1>5, <1>7, <3>1, <3>3
    <3> QED BY <3>2, <3>3 DEF IInv, TableMatches
  <2> QED BY <2>1, <2>2
<1> QED BY <1>11, <1>12, <1>13, <1>14 DEF IInv

LEMMA FreeInv ==
    ASSUME IInv, NEW h \in Holders, Free(h)
    PROVE  IInv'
<1> USE TotalAssumption
<1>1. /\ ptr[h] # NoBlock
      /\ entries' = MarkFree(entries, ptr[h])
      /\ ptr' = [ptr EXCEPT ![h] = NoBlock]
      /\ len' = [len EXCEPT ![h] = 0]
      /\ stray' = (stray \/ (len[h] = 0 /\ entries[ptr[h]].taken))
    BY DEF Free
<1>2. ptr'[h] = NoBlock /\ len'[h] = 0
    BY <1>1 DEF IInv, TypeOK
<1>3. \A g \in Holders \ {h} : Owned(g)' = Owned(g) /\ ptr'[g] = ptr[g] /\ len'[g] = len[g]
    BY <1>1 DEF IInv, TypeOK, Owned
<1>4. Owned(h)' = {}
    BY <1>2 DEF Owned
<1>5. ASSUME ~stray'
      PROVE  \A b \in Blocks : entries'[b] = IF b \in Owned(h) THEN FreeEntry ELSE entries[b]
  <2>1. ~stray
      BY <1>1, <1>5
  <2>2. CASE len[h] = 0
    <3>1. Owned(h) = {}
        BY <2>2 DEF Owned, IInv, TypeOK, Blocks, NoBlock
    <3>2. ptr[h] \in Blocks /\ ~entries[ptr[h]].taken
        BY <1>1, <1>5, <2>2 DEF IInv, TypeOK
    <3>3. entries' = entries
        BY <1>1, <2>1, <3>2, EmptyChain
    <3> QED BY <3>1, <3>3
  <2>3. CASE len[h] # 0
    <3>1. len[h] > 0
        BY <2>3 DEF IInv, TypeOK
    <3> QED BY <1>1, <2>1, <3>1, ChainIsOwned DEF MarkFree
  <2> QED BY <2>2, <2>3
<1>6. stray => stray'
    BY <1>1
<1>7. TypeOK'
  <2>1. entries' \in [Blocks -> Entry]
      BY <1>1 DEF MarkFree, FreeEntry, IInv, TypeOK, Entry
  <2>2. ptr' \in [Holders -> Blocks \cup {NoBlock}]
      BY <1>1 DEF IInv, TypeOK
  <2>3. len' \in [Holders -> Nat] /\ stray' \in BOOLEAN
      BY <1>1 DEF IInv, TypeOK, Entry, Blocks
  <2> QED BY <2>1, <2>2, <2>3 DEF TypeOK
<1>8. Lengths'
    BY <1>2, <1>3 DEF Lengths, IInv
<1>9. Disjoint'
    BY <1>3, <1>4, <1>6 DEF Disjoint, IInv
<1>10. TableMatches'
  <2> SUFFICES ASSUME ~stray', NEW b \in Blocks
               PROVE  \/ /\ entries'[b] = FreeEntry
                         /\ \A g \in Holders : b \notin Owned(g)'
                      \/ \E g \in Holders :
                            b \in Owned(g)' /\ entries'[b] = ChainEntry(b, ptr'[g], len'[g])
      BY DEF TableMatches, ChainEntry
  <2>0. ~stray
      BY <1>6
  <2>1. CASE b \in Owned(h)
      BY <1>3, <1>4, <1>5, <2>0, <2>1 DEF IInv, Disjoint
  <2>2. CASE b \notin Owned(h)
    <3>1. entries'[b] = entries[b]
        BY <1>5, <2>2
    <3>2. CASE entries[b] = FreeEntry /\ \A g \in Holders : b \notin Owned(g)
        BY <1>3, <1>4, <3>1, <3>2
    <3>3. ASSUME NEW g \in Holders, b \in Owned(g),
                 entries[b] = ChainEntry(b, ptr[g], len[g])
          PROVE  b \in Owned(g)' /\ entries'[b] = ChainEntry(b, ptr'[g], len'[g])
        BY <1>3, <2>2, <3>1, <3>3
    <3> QED BY <2>0, <3>2, <3>3 DEF IInv, TableMatches
  <2> QED BY <2>1, <2>2
<1> QED BY <1>7, <1>8, <1>9, <1>10 DEF IInv

LEMMA StutterInv == IInv /\ UNCHANGED vars => IInv'
  BY DEF vars, IInv, TypeOK, Lengths, Disjoint, TableMatches, Owned

\* The inductive invariant of the heap.
THEOREM HeapInvariant == Spec => []IInv
<1>1. IInv /\ [Next]_vars => IInv'
    BY MallocInv, FreeInv, StutterInv DEF Next
<1> QED BY InitInv, <1>1, PTL DEF Spec

\* Types, for every heap: heap.c never leaves its own table's entries malformed.
THEOREM HeapTypeCorrect == Spec => []TypeOK
<1>1. IInv => TypeOK
    BY DEF IInv
<1> QED BY HeapInvariant, <1>1, PTL

\* No two live allocations share a block (heap.c:138-169), until a block is freed
\* through the pointer of an empty request while it is somebody else's.
THEOREM AllocationsDisjoint == Spec => []Disjoint
<1>1. IInv => Disjoint
    BY DEF IInv
<1> QED BY HeapInvariant, <1>1, PTL

\* As long, the table is exactly the chains of the live allocations
\* (heap.c:117-169).
THEOREM TableIsExact == Spec => []TableMatches
<1>1. IInv => TableMatches
    BY DEF IInv
<1> QED BY HeapInvariant, <1>1, PTL

\* As long, at most one live allocation reaches past the end of the heap: both
\* would own the last block of the table (heap.c:104).
THEOREM AtMostOneOverrun == Spec => []OneOverrun
<1>1. ASSUME IInv, NEW g \in Holders, ptr[g] # NoBlock, ptr[g] + len[g] > Total
      PROVE  (Total - 1) \in Owned(g)
    BY <1>1, TotalAssumption DEF IInv, TypeOK, Owned, Blocks, NoBlock
<1>2. IInv => OneOverrun
    BY <1>1 DEF IInv, Disjoint, OneOverrun
<1> QED BY HeapInvariant, <1>2, PTL
=============================================================================
