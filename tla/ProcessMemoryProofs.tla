------------------------- MODULE ProcessMemoryProofs -------------------------
(***************************************************************************)
(* Until the free of an empty object frees somebody's block, the objects of *)
(* processes do not overlap, the heap's table is theirs and the lost        *)
(* blocks', and the pages a process can write are those it was given: for   *)
(* every number of processes, slots and blocks, and sizes of parts, files   *)
(* and requests.                                                            *)
(***************************************************************************)
EXTENDS ProcessMemory, SequenceTheorems, WellFoundedInduction, TLAPS

-----------------------------------------------------------------------------
(* The answer of heap_get_start_block (heap.c:72-110).                       *)

\* A set of numbers that is not empty has a least member.
LEMMA Least ==
    ASSUME NEW S \in SUBSET Nat, S # {}
    PROVE  \E k \in S : \A j \in S : k <= j
<1>1. PICK k \in S : \A j \in S : ~(<<j, k>> \in OpToRel(<, Nat))
  BY NatLessThanWellFounded, WFMin
<1>2. \A j \in S : ~(j < k)
  BY <1>1 DEF OpToRel
<1> QED BY <1>2

\* There always is an answer.
LEMMA HasStartBlock ==
    ASSUME NEW free \in SUBSET Blocks, NEW n \in Nat
    PROVE  \E s \in Blocks \cup {NoBlock} : IsStartBlock(free, n, s)
<1> USE TotalAssumption
<1>1. CASE HasWindow(free, n)
  <2> DEFINE S == {s \in Blocks : Fits(free, s, n)}
  <2>1. S \in SUBSET Nat /\ S # {}
    BY <1>1 DEF HasWindow, Blocks
  <2>2. PICK s \in S : \A t \in S : s <= t
    BY <2>1, Least
  <2>3. ASSUME NEW t \in 0..(s - 1) PROVE ~Fits(free, t, n)
    BY <2>2, <2>3 DEF Blocks
  <2> QED BY <1>1, <2>2, <2>3 DEF IsStartBlock, FirstFit, HasWindow
<1>2. CASE ~HasWindow(free, n) /\ (Total - 1) \in free
  <2> DEFINE S == {s \in Blocks : s..(Total - 1) \subseteq free}
  <2>1. (Total - 1) \in S /\ S \in SUBSET Nat
    BY <1>2 DEF Blocks
  <2>2. PICK s \in S : \A t \in S : s <= t
    BY <2>1, Least
  <2>3. ASSUME s > 0, (s - 1) \in free PROVE FALSE
    <3>1. s - 1 \in S
      BY <2>2, <2>3 DEF Blocks
    <3> QED BY <2>2, <3>1 DEF Blocks
  <2> QED BY <1>2, <2>2, <2>3 DEF IsStartBlock, TrailingRun
<1>3. CASE ~HasWindow(free, n) /\ (Total - 1) \notin free
  BY <1>3 DEF IsStartBlock
<1> QED BY <1>1, <1>2, <1>3

\* The blocks of the answer that the table has are free, and its first one is
\* also where none is asked for.
LEMMA WindowIsFree ==
    ASSUME NEW free \in SUBSET Blocks, NEW n \in Nat,
           NEW s \in Blocks, IsStartBlock(free, n, s),
           NEW b \in Blocks, b = s \/ b \in s..(s + n - 1)
    PROVE  b \in free
<1> USE TotalAssumption
<1>1. CASE FirstFit(free, n, s)
  <2>1. s \in s..(s + n - 1)
    BY <1>1 DEF FirstFit, Blocks
  <2> QED BY <1>1, <2>1 DEF FirstFit, Fits
<1>2. CASE TrailingRun(free, s)
  BY <1>2 DEF TrailingRun, Blocks
<1> QED BY <1>1, <1>2 DEF IsStartBlock, NoBlock, Blocks

Tables == [Blocks -> Entry]

LEMMA StartBlockIsFree ==
    ASSUME NEW table \in Tables, NEW n \in Nat, StartBlock(table, n) # NoBlock
    PROVE  /\ StartBlock(table, n) \in Blocks
           /\ ~table[StartBlock(table, n)].taken
           /\ \A b \in Blocks :
                b \in StartBlock(table, n)..(StartBlock(table, n) + n - 1) => ~table[b].taken
<1> DEFINE s == StartBlock(table, n)
           free == FreeBlocks(table)
<1>1. free \in SUBSET Blocks
  BY DEF FreeBlocks
<1>2. s \in Blocks \cup {NoBlock} /\ IsStartBlock(free, n, s)
  BY <1>1, HasStartBlock DEF StartBlock
<1>3. \A b \in Blocks : b = s \/ b \in s..(s + n - 1) => b \in free
  BY <1>1, <1>2, WindowIsFree
<1> QED BY <1>2, <1>3 DEF FreeBlocks

-----------------------------------------------------------------------------
(* A table and the objects it is made of.  The objects have names: obj is a  *)
(* function from them.                                                       *)

Valid(o) == o \in Object /\ (o.ptr = NoBlock => o.len = 0)

\* The table is that of these objects and of the blocks that are gone.
Partition(table, obj, gone) ==
    /\ table \in Tables
    /\ \A b \in Blocks : table[b].next => table[b].taken
    /\ \A n \in DOMAIN obj : Valid(obj[n])
    /\ \A m, n \in DOMAIN obj : m # n => Span(obj[m]) \cap Span(obj[n]) = {}
    /\ \A n \in DOMAIN obj : Span(obj[n]) \cap gone = {}
    /\ \A n \in DOMAIN obj : \A b \in Span(obj[n]) :
            table[b].next <=> b # obj[n].ptr + obj[n].len - 1
    /\ \A b \in Blocks :
            table[b].taken <=> b \in gone \/ \E n \in DOMAIN obj : b \in Span(obj[n])

LEMMA NothingThere == Valid(Nothing) /\ Pages(Nothing) = {} /\ Span(Nothing) = {}
  BY DEF Valid, Nothing, Object, Span, Pages

\* An object of no blocks has no pages.
LEMMA EmptyThere ==
    ASSUME NEW o, Valid(o), o.len = 0
    PROVE  Pages(o) = {} /\ Span(o) = {}
<1>1. o.ptr \in Int
  BY TotalAssumption DEF Valid, Object, Blocks, NoBlock
<1>2. o.ptr..(o.ptr + 0 - 1) = {}
  BY <1>1
<1> QED BY <1>2 DEF Pages, Span

\* A grant turns a name without an object into one with it (heap.c:117-148).
LEMMA GrantOne ==
    ASSUME NEW table, NEW N, NEW obj, obj = [m \in N |-> obj[m]], NEW gone,
           Partition(table, obj, gone),
           NEW k \in N, obj[k] = Nothing, NEW n \in Nat,
           StartBlock(table, n) # NoBlock
    PROVE  LET s == StartBlock(table, n)
               o == [ptr |-> s, len |-> n]
           IN  /\ Valid(o)
               /\ n = 0 => ~MarkTaken(table, s, n)[s].taken
               /\ Partition(MarkTaken(table, s, n), [obj EXCEPT ![k] = o], gone)
<1> USE TotalAssumption
<1> DEFINE s == StartBlock(table, n)
           o == [ptr |-> s, len |-> n]
           new == [obj EXCEPT ![k] = o]
           t == MarkTaken(table, s, n)
<1>1. table \in Tables /\ DOMAIN obj = N
  BY DEF Partition
<1>2. s \in Blocks /\ s \in Nat /\ s # NoBlock
      /\ ~table[s].taken
      /\ \A b \in Blocks : b \in s..(s + n - 1) => ~table[b].taken
  BY <1>1, StartBlockIsFree DEF Blocks
<1> HIDE DEF s
<1>3. Valid(o) /\ Span(o) = {b \in Blocks : b \in s..(s + n - 1)}
  BY <1>2 DEF Valid, Object, Span, Pages, Blocks
<1>4. DOMAIN new = N /\ new[k] = o /\ \A m \in N \ {k} : new[m] = obj[m]
  BY <1>1
<1> HIDE DEF o, new
<1>5. \A m \in N : Span(obj[m]) \cap Span(o) = {}
  BY <1>1, <1>2, <1>3 DEF Partition
<1>6. gone \cap Span(o) = {}
  BY <1>2, <1>3 DEF Partition
<1>7. \A b \in Blocks : t[b] = IF b \in Span(o) THEN ChainEntry(b, s, n) ELSE table[b]
  BY <1>3 DEF MarkTaken
<1>8. t \in Tables
  BY <1>1 DEF MarkTaken, ChainEntry, Tables, Entry
<1>9. \A b \in Blocks : ChainEntry(b, s, n).taken /\ (ChainEntry(b, s, n).next <=> b # s + n - 1)
  BY Zenon DEF ChainEntry
<1> HIDE DEF t
<1>n. \A b \in Blocks : t[b].next => t[b].taken
  BY <1>1, <1>7, <1>9 DEF Partition
<1>e. n = 0 => ~t[s].taken
  <2> SUFFICES ASSUME n = 0 PROVE ~t[s].taken
    OBVIOUS
  <2>1. s \notin s..(s + n - 1)
    BY <1>2
  <2> QED BY <1>2, <1>3, <1>7, <2>1
<1>10. \A m \in N : Valid(new[m])
  BY <1>1, <1>3, <1>4 DEF Partition
<1>11. \A l, m \in N : l # m => Span(new[l]) \cap Span(new[m]) = {}
  BY <1>1, <1>4, <1>5 DEF Partition
<1>12. \A m \in N : Span(new[m]) \cap gone = {}
  BY <1>1, <1>4, <1>6 DEF Partition
<1>13. ASSUME NEW m \in N, NEW b \in Span(new[m])
       PROVE  t[b].next <=> b # new[m].ptr + new[m].len - 1
  <2>1. b \in Blocks
    BY DEF Span
  <2>2. CASE m = k
    BY <1>3, <1>4, <1>7, <1>9, <2>1, <2>2 DEF o
  <2>3. CASE m # k
    BY <1>1, <1>4, <1>5, <1>7, <2>1, <2>3 DEF Partition
  <2> QED BY <2>2, <2>3
<1>14. ASSUME NEW b \in Blocks
       PROVE  t[b].taken <=> b \in gone \/ \E m \in N : b \in Span(new[m])
  <2>1. CASE b \in Span(o)
    BY <1>4, <1>7, <1>9, <2>1
  <2>2. CASE b \notin Span(o)
    <3>1. t[b].taken <=> b \in gone \/ \E m \in N : b \in Span(obj[m])
      BY <1>1, <1>7, <2>2 DEF Partition
    <3>2. \A m \in N : b \in Span(new[m]) <=> b \in Span(obj[m])
      <4>1. Span(obj[k]) = {}
        BY NothingThere
      <4> QED BY <1>4, <2>2, <4>1
    <3> QED BY <3>1, <3>2
  <2> QED BY <2>1, <2>2
<1>15. Partition(t, new, gone)
  BY <1>4, <1>8, <1>n, <1>10, <1>11, <1>12, <1>13, <1>14 DEF Partition
<1> QED BY <1>3, <1>e, <1>15 DEF s, o, new, t

\* The objects without those of some names.
Without(obj, names) == [m \in DOMAIN obj |-> IF m \in names THEN Nothing ELSE obj[m]]

\* Objects that are forgotten stay taken.
LEMMA LoseAll ==
    ASSUME NEW table, NEW obj, NEW gone, Partition(table, obj, gone),
           NEW names \in SUBSET DOMAIN obj
    PROVE  Partition(table, Without(obj, names), gone \cup UNION {Span(obj[m]) : m \in names})
<1> DEFINE N == DOMAIN obj
           new == Without(obj, names)
           more == gone \cup UNION {Span(obj[m]) : m \in names}
<1>1. /\ DOMAIN new = N
      /\ \A m \in N : new[m] = IF m \in names THEN Nothing ELSE obj[m]
  BY DEF Without
<1>2. \A m \in N : Valid(new[m]) /\ Span(new[m]) = IF m \in names THEN {} ELSE Span(obj[m])
  BY <1>1, NothingThere DEF Partition
<1> HIDE DEF new
<1>3. \A l, m \in N : l # m => Span(new[l]) \cap Span(new[m]) = {}
  BY <1>2 DEF Partition
<1>4. \A m \in N : Span(new[m]) \cap more = {}
  BY <1>2 DEF Partition
<1>5. \A m \in N : \A b \in Span(new[m]) : table[b].next <=> b # new[m].ptr + new[m].len - 1
  BY <1>1, <1>2 DEF Partition
<1>6. \A b \in Blocks : table[b].taken <=> b \in more \/ \E m \in N : b \in Span(new[m])
  BY <1>2 DEF Partition
<1>7. Partition(table, new, more)
  BY <1>1, <1>2, <1>3, <1>4, <1>5, <1>6 DEF Partition
<1> QED BY <1>7 DEF new

\* A free takes the object away from its name and touches no other: its chain
\* ends where the object does (heap.c:157-169).
LEMMA FreeChain ==
    ASSUME NEW table, NEW N, NEW obj, obj = [m \in N |-> obj[m]], NEW gone,
           Partition(table, obj, gone),
           NEW k \in N, obj[k].len # 0
    PROVE  Partition(MarkFree(table, obj[k].ptr), Without(obj, {k}), gone)
<1> USE TotalAssumption
<1> DEFINE s == obj[k].ptr
           n == obj[k].len
           new == Without(obj, {k})
           t == MarkFree(table, s)
<1>1. table \in Tables /\ DOMAIN obj = N
  BY DEF Partition
<1>2. s \in 0..(Total - 1) /\ n \in Nat /\ n > 0
  BY <1>1 DEF Partition, Valid, Object, Blocks, NoBlock
<1>3. \A b \in Blocks : b \in Span(obj[k]) <=> s <= b /\ b < s + n
  BY <1>2 DEF Span, Pages, Blocks, NoBlock
<1>4. \A b \in Span(obj[k]) : table[b].next <=> b # s + n - 1
  BY <1>1 DEF Partition
<1>5. DOMAIN new = N /\ new[k] = Nothing /\ \A m \in N \ {k} : new[m] = obj[m]
  BY <1>1 DEF Without
<1>6. Valid(new[k]) /\ Span(new[k]) = {}
  BY <1>5, NothingThere
<1>7. \A m \in N : m # k => Span(obj[m]) \cap Span(obj[k]) = {}
  BY <1>1 DEF Partition
<1>8. Span(obj[k]) \cap gone = {}
  BY <1>1 DEF Partition
<1> HIDE DEF s, n, new
<1>9. ASSUME NEW b \in Blocks
      PROVE  (b >= s /\ \A c \in s..(b - 1) : table[c].next) <=> b \in Span(obj[k])
  <2>1. b \in 0..(Total - 1)
    BY DEF Blocks
  <2>2. ASSUME b \in Span(obj[k]), NEW c \in s..(b - 1) PROVE table[c].next
    <3>1. c \in Blocks /\ c >= s /\ c < s + n - 1
      BY <1>2, <1>3, <2>1, <2>2 DEF Blocks
    <3> QED BY <1>2, <1>3, <1>4, <3>1
  <2>3. ASSUME b >= s, b \notin Span(obj[k])
        PROVE  ~(\A c \in s..(b - 1) : table[c].next)
    <3> DEFINE c == s + n - 1
    <3>1. c \in Blocks /\ c >= s /\ c < s + n /\ c \in s..(b - 1)
      BY <1>2, <1>3, <2>1, <2>3 DEF Blocks
    <3>2. ~table[c].next
      BY <1>3, <1>4, <3>1
    <3> QED BY <3>1, <3>2, Zenon
  <2> QED BY <1>3, <2>2, <2>3
<1>10. \A b \in Blocks : t[b] = IF b \in Span(obj[k]) THEN FreeEntry ELSE table[b]
  BY <1>9 DEF MarkFree
<1>11. t \in Tables
  BY <1>1 DEF MarkFree, FreeEntry, Tables, Entry
<1>n. \A b \in Blocks : t[b].next => t[b].taken
  BY <1>1, <1>10 DEF Partition, FreeEntry
<1> HIDE DEF t
<1>12. \A m \in N : Valid(new[m])
  BY <1>1, <1>5, <1>6 DEF Partition
<1>13. \A l, m \in N : l # m => Span(new[l]) \cap Span(new[m]) = {}
  BY <1>1, <1>5, <1>6 DEF Partition
<1>14. \A m \in N : Span(new[m]) \cap gone = {}
  BY <1>1, <1>5, <1>6 DEF Partition
<1>15. ASSUME NEW m \in N, NEW b \in Span(new[m])
       PROVE  t[b].next <=> b # new[m].ptr + new[m].len - 1
  <2>1. b \in Blocks /\ m # k /\ new[m] = obj[m]
    BY <1>5, <1>6 DEF Span
  <2>2. t[b] = table[b]
    BY <1>7, <1>10, <2>1
  <2> QED BY <1>1, <2>1, <2>2 DEF Partition
<1>16. ASSUME NEW b \in Blocks
       PROVE  t[b].taken <=> b \in gone \/ \E m \in N : b \in Span(new[m])
  <2>1. CASE b \in Span(obj[k])
    <3>1. b \notin gone /\ \A m \in N : b \notin Span(new[m])
      BY <1>5, <1>6, <1>7, <1>8, <2>1
    <3>2. ~t[b].taken
      BY <1>10, <2>1 DEF FreeEntry
    <3> QED BY <3>1, <3>2
  <2>2. CASE b \notin Span(obj[k])
    <3>1. t[b].taken <=> b \in gone \/ \E m \in N : b \in Span(obj[m])
      BY <1>1, <1>10, <2>2 DEF Partition
    <3>2. \A m \in N : b \in Span(new[m]) <=> b \in Span(obj[m])
      BY <1>5, <1>6, <2>2
    <3> QED BY <3>1, <3>2
  <2> QED BY <2>1, <2>2
<1>17. Partition(t, new, gone)
  BY <1>5, <1>11, <1>n, <1>12, <1>13, <1>14, <1>15, <1>16 DEF Partition
<1> QED BY <1>17 DEF s, new, t

\* The free of an object that has no block changes nothing where its block is
\* free: no entry is taken that was not.
LEMMA FreeEmpty ==
    ASSUME NEW table, NEW obj, NEW gone, Partition(table, obj, gone),
           NEW s \in Blocks, ~table[s].taken
    PROVE  Partition(MarkFree(table, s), obj, gone)
<1> DEFINE t == MarkFree(table, s)
<1>1. table \in Tables /\ ~table[s].next
  BY DEF Partition
<1>2. \A b \in Blocks \ {s} : t[b] = table[b]
  <2> SUFFICES ASSUME NEW b \in Blocks \ {s} PROVE t[b] = table[b]
    OBVIOUS
  <2>1. b >= s => s \in s..(b - 1)
    BY TotalAssumption DEF Blocks
  <2> QED BY <1>1, <2>1 DEF MarkFree
<1>3. t[s] = FreeEntry \/ t[s] = table[s]
  BY DEF MarkFree
<1>4. ~t[s].taken /\ ~t[s].next
  BY <1>1, <1>3 DEF FreeEntry
<1>5. t \in Tables
  BY <1>1 DEF MarkFree, FreeEntry, Tables, Entry
<1> HIDE DEF t
<1>6. \A n \in DOMAIN obj : s \notin Span(obj[n])
  BY DEF Partition
<1>7. \A n \in DOMAIN obj : \A b \in Span(obj[n]) : b \in Blocks /\ t[b] = table[b]
  BY <1>2, <1>6 DEF Span
<1>8. \A b \in Blocks : (t[b].taken <=> table[b].taken) /\ (t[b].next => t[b].taken)
  BY <1>1, <1>2, <1>4 DEF Partition
<1> QED BY <1>5, <1>7, <1>8 DEF Partition, t

\* Either way; an object of no blocks must point to a free one.
LEMMA FreeOne ==
    ASSUME NEW table, NEW obj, NEW gone, Partition(table, obj, gone),
           NEW k \in DOMAIN obj, obj = [m \in DOMAIN obj |-> obj[m]],
           obj[k].ptr # NoBlock, ~Strays(table, obj[k])
    PROVE  Partition(MarkFree(table, obj[k].ptr), Without(obj, {k}), gone)
<1>1. CASE obj[k].len = 0
  <2>1. Valid(obj[k]) /\ Span(obj[k]) = {}
    BY <1>1, EmptyThere DEF Partition
  <2>2. obj[k].ptr \in Blocks /\ ~table[obj[k].ptr].taken
    BY <1>1, <2>1 DEF Valid, Object, Strays
  <2>3. Partition(MarkFree(table, obj[k].ptr), obj, gone)
    BY <2>2, FreeEmpty
  <2>4. gone \cup UNION {Span(obj[m]) : m \in {k}} = gone
    BY <2>1
  <2> QED BY <2>3, <2>4, LoseAll
<1>2. CASE obj[k].len # 0
  BY <1>2, FreeChain
<1> QED BY <1>1, <1>2

\* What a free does to an entry.
LEMMA FreeTakes ==
    ASSUME NEW table \in Tables, NEW s, NEW b \in Blocks, MarkFree(table, s)[b].taken
    PROVE  table[b].taken
  BY DEF MarkFree, FreeEntry

-----------------------------------------------------------------------------
(* Loading and terminating: grants and frees one after the other.            *)

\* g is the function defined from its value at the number before.
Follows(g, S, n, base, F) ==
    g \in [0..n -> S] /\ g[0] = base /\ \A i \in 1..n : g[i] = F[i][g[i - 1]]

HasFollower(S, n, base, F) == \E g : Follows(g, S, n, base, F)

\* There is one.
LEMMA Recursion ==
    ASSUME NEW S, NEW n \in Nat, NEW base \in S, NEW F, \A i \in 1..n : \A x \in S : F[i][x] \in S
    PROVE  HasFollower(S, n, base, F)
<1> DEFINE Defined(g, k) == g[0] = base /\ \A i \in 1..k : g[i] = F[i][g[i - 1]]
           bad == {k \in 0..n : ~\E g \in [0..k -> S] : Defined(g, k)}
<1>1. ASSUME NEW k \in bad, \A j \in bad : k <= j PROVE FALSE
  <2>1. k \in 0..n /\ ~\E g \in [0..k -> S] : Defined(g, k)
    BY <1>1
  <2>2. CASE k = 0
    <3>1. [i \in 0..k |-> base] \in [0..k -> S] /\ Defined([i \in 0..k |-> base], k)
      BY <2>2
    <3> QED BY <2>1, <3>1
  <2>3. CASE k # 0
    <3>1. k - 1 \in 0..n /\ k \in 1..n /\ ~(k <= k - 1)
      BY <2>1, <2>3
    <3>2. PICK g \in [0..(k - 1) -> S] : Defined(g, k - 1)
      BY <1>1, <3>1
    <3> DEFINE h == [i \in 0..k |-> IF i = k THEN F[k][g[k - 1]] ELSE g[i]]
    <3>3. g[k - 1] \in S
      BY <3>1
    <3>4. F[k][g[k - 1]] \in S
      BY <3>1, <3>3
    <3>5. h \in [0..k -> S]
      BY <3>1, <3>4
    <3>6. \A i \in 0..(k - 1) : h[i] = g[i]
      BY <3>1
    <3>7. h[k] = F[k][g[k - 1]]
      BY <3>1
    <3> HIDE DEF h
    <3>8. h[0] = base
      BY <3>1, <3>2, <3>6
    <3>9. ASSUME NEW i \in 1..k PROVE h[i] = F[i][h[i - 1]]
      <4>1. i - 1 \in 0..(k - 1)
        BY <3>1
      <4>2. h[i - 1] = g[i - 1]
        BY <3>6, <4>1
      <4>3. CASE i = k
        BY <3>7, <4>2, <4>3
      <4>4. CASE i # k
        <5>1. i \in 1..(k - 1) /\ i \in 0..(k - 1)
          BY <3>1, <4>4
        <5> QED BY <3>2, <3>6, <4>2, <5>1
      <4> QED BY <4>3, <4>4
    <3>10. Defined(h, k)
      BY <3>8, <3>9
    <3> QED BY <2>1, <3>5, <3>10
  <2> QED BY <2>2, <2>3
<1>2. bad \in SUBSET Nat
  OBVIOUS
<1>3. bad = {}
  <2> HIDE DEF bad
  <2> QED BY <1>1, <1>2, Least
<1>4. n \in 0..n
  OBVIOUS
<1>5. n \notin bad
  BY <1>3
<1>6. \E g \in [0..n -> S] : Defined(g, n)
  BY <1>4, <1>5
<1>7. PICK g \in [0..n -> S] : Defined(g, n)
  <2> HIDE DEF Defined
  <2> QED BY <1>6
<1>8. g[0] = base /\ \A i \in 1..n : g[i] = F[i][g[i - 1]]
  BY <1>7
<1>9. Follows(g, S, n, base, F)
  BY <1>7, <1>8, Zenon DEF Follows
<1> QED BY <1>9, Zenon DEF HasFollower

LEMMA MarkFreeType ==
    ASSUME NEW table \in Tables, NEW s PROVE MarkFree(table, s) \in Tables
  BY DEF MarkFree, FreeEntry, Tables, Entry

FreeNext(table, o) == IF o.ptr = NoBlock THEN table ELSE MarkFree(table, o.ptr)

\* The tables between the frees of FreeAll.
LEMMA FreeTurns ==
    ASSUME NEW table \in Tables, NEW objs, Len(objs) \in Nat
    PROVE  \E after \in [0..Len(objs) -> Tables] :
              /\ after[0] = table
              /\ \A i \in 1..Len(objs) : after[i] = FreeNext(after[i - 1], objs[i])
              /\ FreeAll(table, objs) = after[Len(objs)]
<1> DEFINE n == Len(objs)
           Turn(g, i) == IF i = 0 THEN table
                         ELSE IF objs[i].ptr = NoBlock THEN g[i - 1]
                         ELSE MarkFree(g[i - 1], objs[i].ptr)
           after == CHOOSE g : g = [i \in 0..n |-> Turn(g, i)]
           F == [i \in 1..n |-> [t \in Tables |-> FreeNext(t, objs[i])]]
<1>1. FreeAll(table, objs) = after[n]
  BY DEF FreeAll
<1>2. \A i \in 1..n : \A t \in Tables : F[i][t] \in Tables
  BY MarkFreeType DEF FreeNext
<1>3. n \in Nat
  OBVIOUS
<1> HIDE DEF n
<1>4. PICK g \in [0..n -> Tables] :
          g[0] = table /\ \A i \in 1..n : g[i] = F[i][g[i - 1]]
  <2> HIDE DEF F, Turn, after
  <2>1. HasFollower(Tables, n, table, F)
    BY <1>2, <1>3, Recursion
  <2> QED BY <2>1 DEF HasFollower, Follows
<1>5. ASSUME NEW i \in 0..n PROVE g[i] = Turn(g, i)
  <2>1. CASE i = 0
    BY <1>4, <2>1
  <2>2. CASE i # 0
    <3>1. i \in 1..n /\ i - 1 \in 0..n
      BY <1>3, <2>2
    <3>2. g[i] = F[i][g[i - 1]] /\ g[i - 1] \in Tables
      BY <1>4, <3>1
    <3>3. F[i][g[i - 1]] = FreeNext(g[i - 1], objs[i])
      BY <3>1, <3>2
    <3> QED BY <2>2, <3>2, <3>3 DEF FreeNext
  <2> QED BY <2>1, <2>2
<1>6. g = [i \in 0..n |-> Turn(g, i)]
  <2>1. g = [i \in 0..n |-> g[i]]
    OBVIOUS
  <2> HIDE DEF Turn
  <2> QED BY <1>5, <2>1
<1>7. after = [i \in 0..n |-> Turn(after, i)]
  <2> HIDE DEF Turn
  <2> QED BY <1>6
<1> HIDE DEF after
<1>8. after[0] = table
  BY <1>3, <1>7
<1>9. \A i \in 1..n : after[i] = FreeNext(after[i - 1], objs[i])
  <2> SUFFICES ASSUME NEW i \in 1..n PROVE after[i] = FreeNext(after[i - 1], objs[i])
    OBVIOUS
  <2>1. i \in 0..n /\ i # 0
    BY <1>3
  <2>2. after[i] = Turn(after, i)
    <3> HIDE DEF Turn
    <3> QED BY <1>7, <2>1
  <2> QED BY <2>1, <2>2 DEF FreeNext
<1>10. \A i \in 0..n : after[i] \in Tables
  <2> DEFINE bad == {i \in 0..n : after[i] \notin Tables}
  <2>1. ASSUME NEW i \in bad, \A j \in bad : i <= j PROVE FALSE
    <3>1. i \in 0..n /\ after[i] \notin Tables
      BY <2>1
    <3>2. i # 0
      BY <1>8, <3>1
    <3>3. i - 1 \in 0..n /\ i \in 1..n /\ ~(i <= i - 1)
      BY <1>3, <3>1, <3>2
    <3>4. after[i - 1] \in Tables
      BY <2>1, <3>3
    <3>5. after[i] \in Tables
      BY <1>9, <3>3, <3>4, MarkFreeType DEF FreeNext
    <3> QED BY <3>1, <3>5
  <2>2. bad \in SUBSET Nat
    BY <1>3
  <2>3. bad = {}
    <3> HIDE DEF bad
    <3> QED BY <2>1, <2>2, Least
  <2> QED BY <2>3
<1>11. after \in [0..n -> Tables]
  <2>1. after = [i \in 0..n |-> after[i]]
    BY <1>7
  <2> QED BY <1>10, <2>1
<1> QED BY <1>1, <1>8, <1>9, <1>11 DEF n

\* What is freed is the objects of the names, each name once, but for some that
\* have no blocks; and an object of no blocks points to a free one.
ToBeFreed(table, objs, keys, obj, gone) ==
    /\ obj = [m \in DOMAIN obj |-> obj[m]]
    /\ Partition(table, obj, gone)
    /\ Len(objs) \in Nat
    /\ \A i \in 1..Len(objs) :
          /\ keys[i] \in DOMAIN obj
          /\ objs[i] = obj[keys[i]] \/ (objs[i] = Nothing /\ obj[keys[i]].len = 0)
          /\ ~Strays(table, objs[i])
    /\ \A i, j \in 1..Len(objs) : i # j => keys[i] # keys[j]

\* Names without blocks can be dropped.
LEMMA DropEmpty ==
    ASSUME NEW table, NEW obj, NEW gone, Partition(table, obj, gone),
           NEW k \in DOMAIN obj, obj[k].len = 0
    PROVE  Partition(table, Without(obj, {k}), gone)
<1>1. Span(obj[k]) = {}
  BY EmptyThere DEF Partition
<1>2. gone \cup UNION {Span(obj[m]) : m \in {k}} = gone
  BY <1>1
<1> QED BY <1>2, LoseAll

\* Freeing the objects of some names one after the other.
LEMMA FreeAllKeeps ==
    ASSUME NEW table, NEW obj, NEW gone, NEW objs, NEW keys,
           ToBeFreed(table, objs, keys, obj, gone)
    PROVE  Partition(FreeAll(table, objs),
                     Without(obj, {keys[i] : i \in 1..Len(objs)}), gone)
<1> DEFINE N == DOMAIN obj
           n == Len(objs)
           left(i) == Without(obj, {keys[j] : j \in 1..i})
           Fewer(t) == \A b \in Blocks : t[b].taken => table[b].taken
<1>1. /\ n \in Nat /\ table \in Tables /\ Partition(table, obj, gone)
      /\ obj = [m \in N |-> obj[m]]
  BY DEF Partition, ToBeFreed
<1>k. /\ \A i \in 1..n : /\ keys[i] \in N
                         /\ objs[i] = obj[keys[i]] \/ (objs[i] = Nothing /\ obj[keys[i]].len = 0)
                         /\ ~Strays(table, objs[i])
      /\ \A i, j \in 1..n : i # j => keys[i] # keys[j]
  BY DEF ToBeFreed
<1>2. PICK after \in [0..n -> Tables] :
          /\ after[0] = table
          /\ \A i \in 1..n : after[i] = FreeNext(after[i - 1], objs[i])
          /\ FreeAll(table, objs) = after[n]
  BY <1>1, FreeTurns
<1> HIDE DEF n
<1>3. left(0) = obj
  <2>1. 1..0 = {}
    OBVIOUS
  <2>2. left(0) = [m \in N |-> obj[m]]
    BY <1>1, <2>1 DEF Without
  <2> QED BY <1>1, <2>2
<1>4. ASSUME NEW i \in 1..n, Partition(after[i - 1], left(i - 1), gone), Fewer(after[i - 1])
      PROVE  Partition(after[i], left(i), gone) /\ Fewer(after[i])
  <2> DEFINE k == keys[i]
             old == left(i - 1)
  <2>1. i \in 1..n /\ i - 1 \in 0..n /\ k \in N
    BY <1>1, <1>k
  <2>2. \A j \in 1..(i - 1) : keys[j] # k
    BY <1>1, <1>k, <2>1
  <2>3. DOMAIN old = N /\ old = [m \in N |-> old[m]] /\ old[k] = obj[k]
    BY <1>1, <2>1, <2>2 DEF Without
  <2>4. left(i) = Without(old, {k})
    <3>1. \A m \in N : m \in {keys[j] : j \in 1..i} <=>
                         m = k \/ m \in {keys[j] : j \in 1..(i - 1)}
      <4>1. \A j : j \in 1..i <=> j = i \/ j \in 1..(i - 1)
        BY <1>1, <2>1
      <4> QED BY <4>1
    <3> QED BY <1>1, <3>1 DEF Without
  <2>5. Partition(after[i - 1], old, gone) /\ after[i - 1] \in Tables
    BY <1>2, <1>4, <2>1
  <2> HIDE DEF old
  <2>6. CASE objs[i].ptr = NoBlock
    <3>1. obj[k].len = 0
      BY <1>1, <1>k, <2>1, <2>6 DEF Partition, Valid
    <3>2. after[i] = after[i - 1]
      BY <1>2, <2>1, <2>6 DEF FreeNext
    <3>3. Partition(after[i - 1], Without(old, {k}), gone)
      BY <2>1, <2>3, <2>5, <3>1, DropEmpty
    <3> QED BY <1>4, <2>4, <3>2, <3>3
  <2>7. CASE objs[i].ptr # NoBlock
    <3>1. objs[i] = obj[k] /\ old[k].ptr # NoBlock
      BY <1>k, <2>1, <2>3, <2>7 DEF Nothing
    <3>2. after[i] = MarkFree(after[i - 1], old[k].ptr)
      BY <1>2, <2>1, <2>3, <2>7, <3>1 DEF FreeNext
    <3>3. ~Strays(after[i - 1], old[k])
      <4>1. old[k].ptr \in Blocks
        BY <2>1, <2>3, <2>5, <3>1 DEF Partition, Valid, Object
      <4> QED BY <1>k, <1>4, <2>1, <2>3, <3>1, <4>1 DEF Strays
    <3>4. Partition(MarkFree(after[i - 1], old[k].ptr), Without(old, {k}), gone)
      BY <2>1, <2>3, <2>5, <3>1, <3>3, FreeOne
    <3>5. Fewer(after[i])
      BY <1>4, <2>5, <3>2, FreeTakes
    <3> QED BY <2>4, <3>2, <3>4, <3>5
  <2> QED BY <2>6, <2>7
<1> DEFINE Done(i) == Partition(after[i], left(i), gone) /\ Fewer(after[i])
<1>5. Done(0)
  BY <1>1, <1>2, <1>3
<1>6. \A i \in 1..n : Done(i - 1) => Done(i)
  BY <1>4
<1> HIDE DEF Done
<1>7. \A i \in 0..n : Done(i)
  <2> DEFINE bad == {i \in 0..n : ~Done(i)}
  <2>1. ASSUME NEW i \in bad, \A j \in bad : i <= j PROVE FALSE
    <3>1. i \in 0..n /\ ~Done(i) /\ i # 0
      BY <1>5, <2>1
    <3>2. i - 1 \in 0..n /\ i \in 1..n /\ ~(i <= i - 1)
      BY <1>1, <3>1
    <3>3. Done(i - 1)
      BY <2>1, <3>2
    <3> QED BY <1>6, <3>1, <3>2, <3>3
  <2>2. bad \in SUBSET Nat
    BY <1>1
  <2>3. bad = {}
    <3> HIDE DEF bad
    <3> QED BY <2>1, <2>2, Least
  <2> QED BY <2>3
<1>8. n \in 0..n
  BY <1>1
<1>9. Done(n)
  BY <1>7, <1>8
<1> QED BY <1>2, <1>9 DEF Done, n

Accs == [table : Tables, at : Seq(Object), failed : BOOLEAN]

\* One allocation: it fails, or it appends the object it granted.
LEMMA GrantType ==
    ASSUME NEW acc \in Accs, NEW n \in Nat
    PROVE  /\ Grant(acc, n) \in Accs
           /\ acc.failed => Grant(acc, n).failed
           /\ ~Grant(acc, n).failed =>
                 /\ ~acc.failed
                 /\ StartBlock(acc.table, n) # NoBlock
                 /\ Grant(acc, n).table = MarkTaken(acc.table, StartBlock(acc.table, n), n)
                 /\ Grant(acc, n).at =
                        Append(acc.at, [ptr |-> StartBlock(acc.table, n), len |-> n])
<1> DEFINE s == StartBlock(acc.table, n)
           o == [ptr |-> s, len |-> n]
<1>1. s \in Blocks \cup {NoBlock}
  <2>1. FreeBlocks(acc.table) \in SUBSET Blocks
    BY DEF FreeBlocks
  <2> QED BY <2>1, HasStartBlock DEF StartBlock
<1>2. o \in Object
  BY <1>1 DEF Object
<1>3. MarkTaken(acc.table, s, n) \in Tables
  BY DEF Accs, MarkTaken, ChainEntry, Tables, Entry
<1> HIDE DEF s, o
<1>4. Append(acc.at, o) \in Seq(Object)
  BY <1>2 DEF Accs
<1>5. CASE acc.failed \/ s = NoBlock
  <2>1. Grant(acc, n) = [acc EXCEPT !.failed = TRUE]
    BY <1>5 DEF Grant, s
  <2> QED BY <2>1 DEF Accs
<1>6. CASE ~(acc.failed \/ s = NoBlock)
  <2>1. Grant(acc, n) = [acc EXCEPT !.table = MarkTaken(acc.table, s, n),
                                    !.at = Append(acc.at, o)]
    BY <1>6 DEF Grant, s, o
  <2> QED BY <1>3, <1>4, <1>6, <2>1 DEF Accs, s, o
<1> QED BY <1>5, <1>6

\* The accumulator between the allocations of GrantAll.
LEMMA GrantTurns ==
    ASSUME NEW table \in Tables, NEW ns, Len(ns) \in Nat,
           \A i \in 1..Len(ns) : ns[i] \in Nat
    PROVE  \E after \in [0..Len(ns) -> Accs] :
              /\ after[0] = [table |-> table, at |-> <<>>, failed |-> FALSE]
              /\ \A i \in 1..Len(ns) : after[i] = Grant(after[i - 1], ns[i])
              /\ GrantAll(table, ns) = after[Len(ns)]
<1> DEFINE n == Len(ns)
           base == [table |-> table, at |-> <<>>, failed |-> FALSE]
           Turn(g, i) == IF i = 0 THEN [table |-> table, at |-> <<>>, failed |-> FALSE]
                         ELSE Grant(g[i - 1], ns[i])
           after == CHOOSE g : g = [i \in 0..n |-> Turn(g, i)]
           F == [i \in 1..n |-> [acc \in Accs |-> Grant(acc, ns[i])]]
<1>1. GrantAll(table, ns) = after[n]
  BY DEF GrantAll
<1>2. \A i \in 1..n : \A acc \in Accs : F[i][acc] \in Accs
  BY GrantType
<1>3. n \in Nat /\ \A i \in 1..n : ns[i] \in Nat
  OBVIOUS
<1> HIDE DEF n
<1>t. base \in Accs
  BY DEF Accs
<1>4. PICK g \in [0..n -> Accs] :
          g[0] = base /\ \A i \in 1..n : g[i] = F[i][g[i - 1]]
  <2> HIDE DEF F, Turn, after, base
  <2>1. HasFollower(Accs, n, base, F)
    BY <1>2, <1>3, <1>t, Recursion
  <2> QED BY <2>1 DEF HasFollower, Follows
<1>5. ASSUME NEW i \in 0..n PROVE g[i] = Turn(g, i)
  <2>1. CASE i = 0
    BY <1>4, <2>1
  <2>2. CASE i # 0
    <3>1. i \in 1..n /\ i - 1 \in 0..n
      BY <1>3, <2>2
    <3>2. g[i] = F[i][g[i - 1]] /\ g[i - 1] \in Accs
      BY <1>4, <3>1
    <3>3. F[i][g[i - 1]] = Grant(g[i - 1], ns[i])
      BY <3>1, <3>2
    <3> QED BY <2>2, <3>2, <3>3
  <2> QED BY <2>1, <2>2
<1>6. g = [i \in 0..n |-> Turn(g, i)]
  <2>1. g = [i \in 0..n |-> g[i]]
    OBVIOUS
  <2> HIDE DEF Turn
  <2> QED BY <1>5, <2>1
<1>7. after = [i \in 0..n |-> Turn(after, i)]
  <2> HIDE DEF Turn
  <2> QED BY <1>6
<1> HIDE DEF after
<1>8. after[0] = base
  BY <1>3, <1>7
<1>9. \A i \in 1..n : after[i] = Grant(after[i - 1], ns[i])
  <2> SUFFICES ASSUME NEW i \in 1..n PROVE after[i] = Grant(after[i - 1], ns[i])
    OBVIOUS
  <2>1. i \in 0..n /\ i # 0
    BY <1>3
  <2>2. after[i] = Turn(after, i)
    <3> HIDE DEF Turn
    <3> QED BY <1>7, <2>1
  <2> QED BY <2>1, <2>2
<1>10. \A i \in 0..n : after[i] \in Accs
  <2> DEFINE bad == {i \in 0..n : after[i] \notin Accs}
  <2>1. ASSUME NEW i \in bad, \A j \in bad : i <= j PROVE FALSE
    <3>1. i \in 0..n /\ after[i] \notin Accs
      BY <2>1
    <3>2. i # 0
      BY <1>t, <1>8, <3>1
    <3>3. i - 1 \in 0..n /\ i \in 1..n /\ ~(i <= i - 1)
      BY <1>3, <3>1, <3>2
    <3>4. after[i - 1] \in Accs
      BY <2>1, <3>3
    <3>5. after[i] \in Accs
      <4>1. ns[i] \in Nat /\ after[i] = Grant(after[i - 1], ns[i])
        BY <1>3, <1>9, <3>3
      <4>2. Grant(after[i - 1], ns[i]) \in Accs
        BY <3>4, <4>1, GrantType
      <4> QED BY <4>1, <4>2
    <3> QED BY <3>1, <3>5
  <2>2. bad \in SUBSET Nat
    BY <1>3
  <2>3. bad = {}
    <3> HIDE DEF bad
    <3> QED BY <2>1, <2>2, Least
  <2> QED BY <2>3
<1>11. after \in [0..n -> Accs]
  <2>1. after = [i \in 0..n |-> after[i]]
    BY <1>7
  <2> QED BY <1>10, <2>1
<1> QED BY <1>1, <1>8, <1>9, <1>11 DEF n

\* What was granted is what the names have now, and no other has changed.
Granted(o, n) == o \in Object /\ o.ptr # NoBlock /\ o.len = n

GrantedTo(got, ns, keys, N, obj, gone) ==
    /\ Len(got.at) = Len(ns)
    /\ \A i \in 1..Len(ns) : Granted(got.at[i], ns[i])
    /\ Len(ns) > 0 => ~Strays(got.table, got.at[Len(ns)])
    /\ \E new :
          /\ new = [m \in N |-> new[m]]
          /\ Partition(got.table, new, gone)
          /\ \A i \in 1..Len(ns) : new[keys[i]] = got.at[i]
          /\ \A m \in N : (\A i \in 1..Len(ns) : keys[i] # m) => new[m] = obj[m]

\* The names have no objects, and are as many as the sizes asked for.
ToBeGranted(table, ns, keys, N, obj, gone) ==
    /\ obj = [m \in N |-> obj[m]]
    /\ Partition(table, obj, gone)
    /\ Len(ns) \in Nat
    /\ \A i \in 1..Len(ns) : ns[i] \in Nat
    /\ \A i \in 1..Len(ns) : keys[i] \in N /\ obj[keys[i]] = Nothing
    /\ \A i, j \in 1..Len(ns) : i # j => keys[i] # keys[j]

\* Granting objects to some names that have none, one after the other.
LEMMA GrantAllKeeps ==
    ASSUME NEW table, NEW N, NEW obj, NEW gone, NEW ns, NEW keys,
           ToBeGranted(table, ns, keys, N, obj, gone), ~GrantAll(table, ns).failed
    PROVE  GrantedTo(GrantAll(table, ns), ns, keys, N, obj, gone)
<1> DEFINE n == Len(ns)
           Kept(acc, k) ==
               /\ Len(acc.at) = k
               /\ \A i \in 1..k : Granted(acc.at[i], ns[i])
               /\ k > 0 => ~Strays(acc.table, acc.at[k])
               /\ \E new :
                     /\ new = [m \in N |-> new[m]]
                     /\ Partition(acc.table, new, gone)
                     /\ \A i \in 1..k : new[keys[i]] = acc.at[i]
                     /\ \A m \in N : (\A i \in 1..k : keys[i] # m) => new[m] = obj[m]
<1>1. n \in Nat /\ table \in Tables /\ Partition(table, obj, gone) /\ obj = [m \in N |-> obj[m]]
  BY DEF Partition, ToBeGranted
<1>2. PICK after \in [0..n -> Accs] :
          /\ after[0] = [table |-> table, at |-> <<>>, failed |-> FALSE]
          /\ \A i \in 1..n : after[i] = Grant(after[i - 1], ns[i])
          /\ GrantAll(table, ns) = after[n]
  BY <1>1, GrantTurns DEF ToBeGranted
<1>k. \A i \in 1..n : keys[i] \in N /\ obj[keys[i]] = Nothing /\ ns[i] \in Nat
  BY DEF ToBeGranted
<1>d. \A i, j \in 1..n : i # j => keys[i] # keys[j]
  BY DEF ToBeGranted
<1> HIDE DEF n
<1>3. Kept(after[0], 0)
  BY <1>1, <1>2
<1>4. ASSUME NEW k \in 1..n, ~after[k].failed,
             ~after[k - 1].failed => Kept(after[k - 1], k - 1)
      PROVE  Kept(after[k], k)
  <2> DEFINE old == after[k - 1]
             s == StartBlock(old.table, ns[k])
             o == [ptr |-> s, len |-> ns[k]]
  <2>1. k \in 1..n /\ k - 1 \in 0..n /\ k - 1 \in Nat /\ ns[k] \in Nat
    BY <1>1, <1>k
  <2>2. old \in Accs /\ after[k] = Grant(old, ns[k])
    BY <1>2, <2>1
  <2> HIDE DEF old
  <2>3. /\ ~old.failed
        /\ s # NoBlock
        /\ after[k].table = MarkTaken(old.table, s, ns[k])
        /\ after[k].at = Append(old.at, o)
    BY <1>4, <2>1, <2>2, GrantType
  <2>4. Kept(old, k - 1)
    BY <1>4, <2>3 DEF old
  <2>5. old.at \in Seq(Object) /\ Len(old.at) = k - 1
    BY <2>2, <2>4 DEF Accs
  <2>6. PICK was : /\ was = [m \in N |-> was[m]]
                   /\ Partition(old.table, was, gone)
                   /\ \A i \in 1..(k - 1) : was[keys[i]] = old.at[i]
                   /\ \A m \in N : (\A i \in 1..(k - 1) : keys[i] # m) => was[m] = obj[m]
    BY <2>4
  <2>7. keys[k] \in N /\ \A i \in 1..(k - 1) : keys[i] # keys[k] /\ keys[i] \in N
    <3>1. \A i \in 1..(k - 1) : i \in 1..n /\ i # k
      BY <1>1, <2>1
    <3> QED BY <1>k, <1>d, <2>1, <3>1
  <2>8. was[keys[k]] = Nothing
    BY <1>k, <2>1, <2>6, <2>7
  <2> DEFINE new == [was EXCEPT ![keys[k]] = o]
  <2>9. /\ Valid(o) /\ Partition(after[k].table, new, gone)
        /\ ns[k] = 0 => ~after[k].table[s].taken
    <3> DEFINE t == MarkTaken(old.table, s, ns[k])
    <3>1. /\ Valid(o) /\ Partition(t, new, gone)
          /\ ns[k] = 0 => ~t[s].taken
      BY <2>1, <2>3, <2>6, <2>7, <2>8, GrantOne
    <3> HIDE DEF t, s, o
    <3>2. after[k].table = t
      BY <2>3 DEF t
    <3> QED BY <3>1, <3>2
  <2>10. Granted(o, ns[k]) /\ ~Strays(after[k].table, o)
    BY <2>3, <2>9 DEF Valid, Granted, Strays
  <2> HIDE DEF s, o
  <2>11. /\ Len(after[k].at) = k
         /\ after[k].at[k] = o
         /\ \A i \in 1..(k - 1) : after[k].at[i] = old.at[i]
    BY <2>1, <2>3, <2>5, <2>10 DEF Granted
  <2>12. new = [m \in N |-> new[m]] /\ new[keys[k]] = o
         /\ \A m \in N : m # keys[k] => new[m] = was[m]
    BY <2>6, <2>7
  <2> HIDE DEF new
  <2>13. \A i \in 1..k : i = k \/ i \in 1..(k - 1)
    BY <2>1
  <2>14. \A i \in 1..k : Granted(after[k].at[i], ns[i])
    BY <2>4, <2>10, <2>11, <2>13
  <2>15. \A i \in 1..k : new[keys[i]] = after[k].at[i]
    BY <2>6, <2>7, <2>11, <2>12, <2>13
  <2>16. \A m \in N : (\A i \in 1..k : keys[i] # m) => new[m] = obj[m]
    <3>1. \A i \in 1..(k - 1) : i \in 1..k
      BY <2>1
    <3>2. k \in 1..k
      BY <2>1
    <3> QED BY <2>6, <2>12, <3>1, <3>2
  <2> QED BY <2>9, <2>10, <2>11, <2>12, <2>14, <2>15, <2>16
<1> HIDE DEF Kept
<1>5. \A k \in 0..n : ~after[k].failed => Kept(after[k], k)
  <2> DEFINE bad == {k \in 0..n : ~(~after[k].failed => Kept(after[k], k))}
  <2>1. ASSUME NEW k \in bad, \A j \in bad : k <= j PROVE FALSE
    <3>1. k \in 0..n /\ ~(~after[k].failed => Kept(after[k], k))
      BY <2>1
    <3>2. k # 0
      BY <1>3, <3>1
    <3>3. k - 1 \in 0..n /\ k \in 1..n /\ ~(k <= k - 1)
      BY <1>1, <3>1, <3>2
    <3>4. ~after[k - 1].failed => Kept(after[k - 1], k - 1)
      BY <2>1, <3>3
    <3> QED BY <1>4, <3>1, <3>3, <3>4
  <2>2. bad \in SUBSET Nat
    BY <1>1
  <2>3. bad = {}
    <3> HIDE DEF bad
    <3> QED BY <2>1, <2>2, Least
  <2> QED BY <2>3
<1>6. Kept(GrantAll(table, ns), n)
  BY <1>1, <1>2, <1>5
<1> QED BY <1>6 DEF Kept, n, GrantedTo

-----------------------------------------------------------------------------
(* The objects of all processes under one name each.                         *)

\* The part with the number i; 0 is a place for what belongs to nothing.
PlaceNames == Procs \X (0..(5 + AllocSlots))

HeldBy(parts, slots, i) ==
    CASE i = 0 -> Nothing
      [] i = 1 -> parts["process"]
      [] i = 2 -> parts["elf"]
      [] i = 3 -> parts["image"]
      [] i = 4 -> parts["stack"]
      [] i = 5 -> parts["task"]
      [] OTHER -> slots[i - 5]

HeldIn(parts, slots) == [n \in PlaceNames |-> HeldBy(parts[n[1]], slots[n[1]], n[2])]
Held == HeldIn(part, alloc)

\* What HeldIn puts where.
Placed(held, parts, slots, p) ==
    /\ held[<<p, 0>>] = Nothing
    /\ held[<<p, 1>>] = parts[p]["process"]
    /\ held[<<p, 2>>] = parts[p]["elf"]
    /\ held[<<p, 3>>] = parts[p]["image"]
    /\ held[<<p, 4>>] = parts[p]["stack"]
    /\ held[<<p, 5>>] = parts[p]["task"]
    /\ \A i \in Slots : held[<<p, i + 5>>] = slots[p][i]

LEMMA Places ==
    ASSUME NEW parts, NEW slots, NEW p \in Procs
    PROVE  Placed(HeldIn(parts, slots), parts, slots, p)
<1> DEFINE held == HeldIn(parts, slots)
<1>1. \A i \in 0..(5 + AllocSlots) :
          held[<<p, i>>] = HeldBy(parts[p], slots[p], i)
  BY DEF HeldIn, PlaceNames
<1>2. /\ HeldBy(parts[p], slots[p], 0) = Nothing
      /\ HeldBy(parts[p], slots[p], 1) = parts[p]["process"]
      /\ HeldBy(parts[p], slots[p], 2) = parts[p]["elf"]
      /\ HeldBy(parts[p], slots[p], 3) = parts[p]["image"]
      /\ HeldBy(parts[p], slots[p], 4) = parts[p]["stack"]
      /\ HeldBy(parts[p], slots[p], 5) = parts[p]["task"]
  BY DEF HeldBy
<1>3. 0..5 \subseteq 0..(5 + AllocSlots)
  BY PartsAssumption
<1>4. ASSUME NEW i \in Slots
      PROVE  i + 5 \in 0..(5 + AllocSlots) /\ HeldBy(parts[p], slots[p], i + 5) = slots[p][i]
  <2>1. i \in Nat /\ i > 0 /\ i <= AllocSlots /\ (i + 5) - 5 = i
    BY PartsAssumption DEF Slots
  <2>2. i + 5 # 0 /\ i + 5 # 1 /\ i + 5 # 2 /\ i + 5 # 3 /\ i + 5 # 4 /\ i + 5 # 5
    BY <2>1
  <2> QED BY <2>1, <2>2, PartsAssumption DEF HeldBy
<1> HIDE DEF held
<1>5. \A i \in Slots : held[<<p, i + 5>>] = slots[p][i]
  BY <1>1, <1>4
<1> QED BY <1>1, <1>2, <1>3, <1>5 DEF held, Placed

\* Two functions of the places are equal if they are at each place.
SameAt(f, g) ==
    \A p \in Procs :
       /\ f[<<p, 0>>] = g[<<p, 0>>] /\ f[<<p, 1>>] = g[<<p, 1>>]
       /\ f[<<p, 2>>] = g[<<p, 2>>] /\ f[<<p, 3>>] = g[<<p, 3>>]
       /\ f[<<p, 4>>] = g[<<p, 4>>] /\ f[<<p, 5>>] = g[<<p, 5>>]
       /\ \A i \in Slots : f[<<p, i + 5>>] = g[<<p, i + 5>>]

LEMMA SamePlaces ==
    ASSUME NEW f, NEW g, f = [n \in PlaceNames |-> f[n]], g = [n \in PlaceNames |-> g[n]],
           SameAt(f, g)
    PROVE  f = g
<1>1. ASSUME NEW n \in PlaceNames PROVE f[n] = g[n]
  <2>1. PICK p \in Procs, i \in 0..(5 + AllocSlots) : n = <<p, i>>
    BY DEF PlaceNames
  <2>2. CASE i \in {0, 1, 2, 3, 4, 5}
    BY <2>1, <2>2 DEF SameAt
  <2>3. CASE i \notin {0, 1, 2, 3, 4, 5}
    <3>1. i - 5 \in Slots /\ i = (i - 5) + 5
      BY <2>3, PartsAssumption DEF Slots
    <3> QED BY <2>1, <3>1 DEF SameAt
  <2> QED BY <2>2, <2>3
<1> QED BY <1>1

LEMMA PlaceNamesOf ==
    ASSUME NEW p \in Procs
    PROVE  /\ <<p, 0>> \in PlaceNames /\ <<p, 1>> \in PlaceNames /\ <<p, 2>> \in PlaceNames
           /\ <<p, 3>> \in PlaceNames /\ <<p, 4>> \in PlaceNames /\ <<p, 5>> \in PlaceNames
           /\ \A i \in Slots : <<p, i + 5>> \in PlaceNames
<1>1. 0..5 \subseteq 0..(5 + AllocSlots) /\ \A i \in Slots : i + 5 \in 0..(5 + AllocSlots)
  BY PartsAssumption DEF Slots
<1> QED BY <1>1 DEF PlaceNames

\* The places are the objects the properties speak about.
LEMMA ObjectIsHeld ==
    ASSUME TypeOK, NEW n \in Names
    PROVE  n \in PlaceNames /\ ObjectOf(n) = Held[n]
<1>1. PICK p \in Procs, i \in 1..(5 + AllocSlots) : n = <<p, i>>
  BY DEF Names
<1> DEFINE first == <<part[p]["process"], part[p]["elf"], part[p]["image"],
                      part[p]["stack"], part[p]["task"]>>
<1>2. part[p] \in [Parts -> Object] /\ alloc[p] \in [Slots -> Object]
  BY DEF TypeOK
<1>3. first \in Seq(Object) /\ Len(first) = 5
  BY <1>2 DEF Parts
<1>4. alloc[p] \in Seq(Object) /\ Len(alloc[p]) = AllocSlots
  BY <1>2, PartsAssumption DEF Slots
<1>5. Objects(p) = first \o alloc[p]
  BY DEF Objects
<1>6. Objects(p)[i] = IF i <= 5 THEN first[i] ELSE alloc[p][i - 5]
  <2> HIDE DEF first
  <2>1. i \in 1..(Len(first) + Len(alloc[p]))
    BY <1>3, <1>4
  <2>2. (first \o alloc[p])[i] = IF i <= Len(first) THEN first[i] ELSE alloc[p][i - Len(first)]
    BY <1>3, <1>4, <2>1, ConcatProperties
  <2> QED BY <1>3, <1>5, <2>2
<1>7. n \in PlaceNames /\ ObjectOf(n) = Objects(p)[i]
  BY <1>1, PartsAssumption DEF PlaceNames, ObjectOf
<1>p. /\ Held[<<p, 1>>] = part[p]["process"] /\ Held[<<p, 2>>] = part[p]["elf"]
      /\ Held[<<p, 3>>] = part[p]["image"] /\ Held[<<p, 4>>] = part[p]["stack"]
      /\ Held[<<p, 5>>] = part[p]["task"]
      /\ \A j \in Slots : Held[<<p, j + 5>>] = alloc[p][j]
  <2>1. Placed(Held, part, alloc, p)
    BY Places DEF Held
  <2> QED BY <2>1 DEF Placed
<1>8. CASE i <= 5
  <2>1. i \in {1, 2, 3, 4, 5}
    BY <1>8
  <2> QED BY <1>1, <1>6, <1>7, <1>8, <1>p, <2>1
<1>9. CASE ~(i <= 5)
  <2>1. i - 5 \in Slots /\ i = (i - 5) + 5
    BY <1>9, PartsAssumption DEF Slots
  <2>2. Held[<<p, (i - 5) + 5>>] = alloc[p][i - 5]
    BY <2>1, <1>p
  <2> QED BY <1>1, <1>6, <1>7, <1>9, <2>1, <2>2
<1> QED BY <1>7, <1>8, <1>9

\* Places that are those of the other processes and the new ones of p.
Moved(new, parts, slots, parts2, slots2, p) ==
    /\ new = [m \in PlaceNames |-> new[m]]
    /\ \A m \in PlaceNames : m[1] # p => new[m] = HeldIn(parts, slots)[m]
    /\ \A q \in Procs \ {p} : parts2[q] = parts[q] /\ slots2[q] = slots[q]
    /\ Placed(new, parts2, slots2, p)

LEMMA NewPlaces ==
    ASSUME NEW parts, NEW slots, NEW parts2, NEW slots2, NEW p \in Procs,
           NEW new, Moved(new, parts, slots, parts2, slots2, p)
    PROVE  new = HeldIn(parts2, slots2)
<1> DEFINE held == HeldIn(parts, slots)
           held2 == HeldIn(parts2, slots2)
<1>1. held2 = [n \in PlaceNames |-> held2[n]]
  BY DEF HeldIn
<1>2. ASSUME NEW q \in Procs, q # p
      PROVE  Placed(new, parts2, slots2, q)
  <2>1. Placed(held, parts, slots, q)
    BY Places
  <2>2. /\ <<q, 0>> \in PlaceNames /\ <<q, 1>> \in PlaceNames /\ <<q, 2>> \in PlaceNames
        /\ <<q, 3>> \in PlaceNames /\ <<q, 4>> \in PlaceNames /\ <<q, 5>> \in PlaceNames
        /\ \A i \in Slots : <<q, i + 5>> \in PlaceNames
    BY PlaceNamesOf
  <2>3. parts2[q] = parts[q] /\ slots2[q] = slots[q]
    BY <1>2 DEF Moved
  <2> HIDE DEF held
  <2>4. \A m \in PlaceNames : m[1] # p => new[m] = held[m]
    BY DEF held, Moved
  <2> QED BY <1>2, <2>1, <2>2, <2>3, <2>4 DEF Placed
<1>3. \A q \in Procs : Placed(new, parts2, slots2, q) /\ Placed(held2, parts2, slots2, q)
  BY <1>2, Places DEF Moved
<1> HIDE DEF held2
<1>4. new = held2
  <2>1. SameAt(new, held2)
    <3> SUFFICES ASSUME NEW q \in Procs
                 PROVE  /\ new[<<q, 0>>] = held2[<<q, 0>>] /\ new[<<q, 1>>] = held2[<<q, 1>>]
                        /\ new[<<q, 2>>] = held2[<<q, 2>>] /\ new[<<q, 3>>] = held2[<<q, 3>>]
                        /\ new[<<q, 4>>] = held2[<<q, 4>>] /\ new[<<q, 5>>] = held2[<<q, 5>>]
                        /\ \A i \in Slots : new[<<q, i + 5>>] = held2[<<q, i + 5>>]
      BY DEF SameAt
    <3>1. Placed(new, parts2, slots2, q) /\ Placed(held2, parts2, slots2, q)
      BY <1>3
    <3> QED BY <3>1 DEF Placed
  <2> QED BY <1>1, <2>1, SamePlaces DEF Moved
<1> QED BY <1>4 DEF held2

LEMMA HeldIsFunction == Held = [n \in PlaceNames |-> Held[n]]
  BY DEF Held, HeldIn

-----------------------------------------------------------------------------
(* The invariant.  Nothing is said of the heap once memory has gone astray.  *)

\* A process that is not loaded holds nothing.
AllGivenBack(l, held) == \A n \in PlaceNames : n[1] \notin l => held[n] = Nothing

\* AccessExact, of these processes.
ProgramArea(parts, offsets) == SegmentPages(parts["image"], offsets) \cup Pages(parts["stack"])
HeapArea(slots) == UNION {Pages(slots[i]) : i \in Slots}

Access(l, parts, segs, slots, pages) ==
    \A p \in Procs :
        /\ pages[p].program = IF p \notin l THEN {} ELSE ProgramArea(parts[p], segs[p])
        /\ pages[p].heap = HeapArea(slots[p])

Clean ==
    /\ Partition(entries, Held, lost \cup kept)
    /\ AllGivenBack(live, Held)
    /\ Access(live, part, segments, alloc, writable)

IInv == TypeOK /\ (~stray => Clean)

LEMMA InitInv == Init => IInv
<1> SUFFICES ASSUME Init PROVE IInv
  OBVIOUS
<1>0. Nothing \in Object
  BY NothingThere DEF Valid
<1>1. TypeOK
  <2>1. /\ entries \in [Blocks -> Entry] /\ live \subseteq Procs
        /\ segments \in [Procs -> SUBSET Nat] /\ writable \in [Procs -> Areas]
        /\ lost \subseteq Blocks /\ kept \subseteq Blocks /\ stray \in BOOLEAN
    BY DEF Init, Entry, FreeEntry, Areas
  <2>2. part \in [Procs -> [Parts -> Object]] /\ alloc \in [Procs -> [Slots -> Object]]
    BY <1>0 DEF Init
  <2> QED BY <2>1, <2>2 DEF TypeOK
<1>2. \A n \in PlaceNames : Held[n] = Nothing
  <2>1. ASSUME NEW n \in PlaceNames PROVE Held[n] = Nothing
    <3>1. n[1] \in Procs /\ n[2] \in 0..(5 + AllocSlots)
      BY DEF PlaceNames
    <3>2. n[2] \notin {0, 1, 2, 3, 4, 5} => n[2] - 5 \in Slots
      BY <3>1, PartsAssumption DEF Slots
    <3>3. Held[n] = HeldBy(part[n[1]], alloc[n[1]], n[2])
      BY DEF Held, HeldIn
    <3>4. part[n[1]] = [x \in Parts |-> Nothing] /\ alloc[n[1]] = [i \in Slots |-> Nothing]
      BY <3>1 DEF Init
    <3> QED BY <3>1, <3>2, <3>3, <3>4 DEF HeldBy, Parts
  <2> QED BY <2>1
<1>3. DOMAIN Held = PlaceNames
  BY DEF Held, HeldIn
<1>4. Partition(entries, Held, lost \cup kept)
  BY <1>2, <1>3, NothingThere DEF Partition, Init, Tables, Entry, FreeEntry
<1>5. Access(live, part, segments, alloc, writable)
  BY NothingThere DEF Init, Access, HeapArea
<1> QED BY <1>1, <1>2, <1>4, <1>5 DEF IInv, Clean, AllGivenBack

\* The table stays one of the table's type.
LEMMA PartitionTable ==
    ASSUME NEW table, NEW obj, NEW gone, Partition(table, obj, gone)
    PROVE  table \in [Blocks -> Entry]
  BY DEF Partition, Tables

\* Blocks are numbers, and the pages of an object are too.
LEMMA PagesAreNumbers ==
    ASSUME NEW o \in Object PROVE Pages(o) \in SUBSET Nat
<1>1. CASE o.ptr = NoBlock
  BY <1>1 DEF Pages
<1>2. CASE o.ptr # NoBlock
  <2>1. o.ptr \in Nat /\ o.len \in Nat
    BY <1>2, TotalAssumption DEF Object, Blocks
  <2> QED BY <2>1 DEF Pages
<1> QED BY <1>1, <1>2

\* Objects that share no block share no page: what reaches past the table holds
\* the table's last block.
LEMMA PagesDisjoint ==
    ASSUME NEW o1 \in Object, NEW o2 \in Object, Span(o1) \cap Span(o2) = {}
    PROVE  Pages(o1) \cap Pages(o2) = {}
<1> SUFFICES ASSUME NEW b, b \in Pages(o1), b \in Pages(o2) PROVE FALSE
  OBVIOUS
<1> DEFINE last == IF b < Total THEN b ELSE Total - 1
<1>1. /\ o1.ptr \in Blocks /\ o1.len \in Nat /\ b \in o1.ptr..(o1.ptr + o1.len - 1)
      /\ o2.ptr \in Blocks /\ o2.len \in Nat /\ b \in o2.ptr..(o2.ptr + o2.len - 1)
      /\ o1.ptr # NoBlock /\ o2.ptr # NoBlock
  BY DEF Pages, Object
<1>2. /\ last \in Blocks
      /\ last \in o1.ptr..(o1.ptr + o1.len - 1) /\ last \in o2.ptr..(o2.ptr + o2.len - 1)
  BY <1>1, TotalAssumption DEF Blocks
<1> QED BY <1>1, <1>2 DEF Span, Pages

-----------------------------------------------------------------------------
(* Loads (process.c:299-374, 486-543; loader.c:204-247).                     *)

\* The requests of a load go to these places of p, each to one.
Numbers(num, k) ==
    /\ \A i \in 1..k : num[i] \in 0..5
    /\ \A i, j \in 1..k : i # j => num[i] # num[j]

\* A load of p with these requests is granted all of them.
Asks(p, ns, num) ==
    /\ p \notin live
    /\ Len(ns) \in Nat
    /\ \A i \in 1..Len(ns) : ns[i] \in Nat
    /\ Numbers(num, Len(ns))
    /\ ~GrantAll(entries, ns).failed

\* The places then.
Fresh(new, got, ns, num, p) ==
    /\ new = [m \in PlaceNames |-> new[m]]
    /\ Partition(got.table, new, lost \cup kept)
    /\ \A i \in 1..Len(ns) : new[<<p, num[i]>>] = got.at[i] /\ Granted(got.at[i], ns[i])
    /\ \A m \in PlaceNames : (\A i \in 1..Len(ns) : <<p, num[i]>> # m) => new[m] = Held[m]
    /\ Len(got.at) = Len(ns)
    /\ Len(ns) > 0 => ~Strays(got.table, got.at[Len(ns)])

LEMMA PlacesGranted ==
    ASSUME IInv, ~stray, NEW p \in Procs, NEW ns, NEW num, Asks(p, ns, num)
    PROVE  \E new : Fresh(new, GrantAll(entries, ns), ns, num, p)
<1> DEFINE n == Len(ns)
           got == GrantAll(entries, ns)
           keys == [i \in 1..n |-> <<p, num[i]>>]
<1>0. /\ p \notin live /\ n \in Nat /\ \A i \in 1..n : ns[i] \in Nat
      /\ Numbers(num, n) /\ ~got.failed
  BY DEF Asks
<1>1. \A i \in 1..n : /\ keys[i] = <<p, num[i]>> /\ keys[i] \in PlaceNames
                      /\ Held[keys[i]] = Nothing
  <2>1. \A i \in 1..n : <<p, num[i]>> \in PlaceNames
    BY <1>0, PartsAssumption DEF PlaceNames, Numbers
  <2> QED BY <1>0, <2>1 DEF IInv, Clean, AllGivenBack
<1>2. \A i, j \in 1..n : i # j => keys[i] # keys[j]
  BY <1>0, <1>1 DEF Numbers
<1> HIDE DEF keys, got
<1>4. ToBeGranted(entries, ns, keys, PlaceNames, Held, lost \cup kept)
  BY <1>0, <1>1, <1>2, HeldIsFunction DEF ToBeGranted, IInv, Clean
<1>5. GrantedTo(got, ns, keys, PlaceNames, Held, lost \cup kept)
  BY <1>0, <1>4, GrantAllKeeps DEF got
<1>6. PICK new : /\ new = [m \in PlaceNames |-> new[m]]
                 /\ Partition(got.table, new, lost \cup kept)
                 /\ \A i \in 1..n : new[keys[i]] = got.at[i]
                 /\ \A m \in PlaceNames : (\A i \in 1..n : keys[i] # m) => new[m] = Held[m]
  BY <1>5 DEF GrantedTo
<1>7. /\ Len(got.at) = n /\ \A i \in 1..n : Granted(got.at[i], ns[i])
      /\ n > 0 => ~Strays(got.table, got.at[n])
  BY <1>5 DEF GrantedTo
<1>8. /\ \A i \in 1..n : new[<<p, num[i]>>] = got.at[i]
      /\ \A m \in PlaceNames : (\A i \in 1..n : <<p, num[i]>> # m) => new[m] = Held[m]
  <2> HIDE DEF n
  <2> QED BY <1>1, <1>6
<1>9. Fresh(new, got, ns, num, p)
  BY <1>6, <1>7, <1>8 DEF Fresh
<1> QED BY <1>9 DEF got

\* Places that are those of the next state.
LEMMA Finish ==
    ASSUME TypeOK', NEW held, held = HeldIn(part', alloc'),
           Partition(entries', held, lost' \cup kept'), AllGivenBack(live', held),
           Access(live', part', segments', alloc', writable')
    PROVE  IInv'
  BY DEF IInv, Clean, Held

\* A step that leaves the processes alone.
LEMMA SameProcesses ==
    ASSUME IInv, ~stray, UNCHANGED <<live, part, segments, alloc, writable>>,
           stray' \in BOOLEAN, lost' \subseteq Blocks, kept' \subseteq Blocks,
           Partition(entries', Held, lost' \cup kept')
    PROVE  IInv'
<1>1. /\ live' = live /\ part' = part /\ segments' = segments
      /\ alloc' = alloc /\ writable' = writable
  OBVIOUS
<1>2. HeldIn(part', alloc') = Held
  BY <1>1 DEF Held
<1>3. TypeOK'
  BY <1>1, PartitionTable DEF IInv, TypeOK
<1>4. Access(live', part', segments', alloc', writable') /\ AllGivenBack(live', Held)
  BY <1>1 DEF IInv, Clean
<1> QED BY <1>2, <1>3, <1>4, Finish

\* What a failing load leaves behind is kept: of what it was granted, all but
\* what it frees at the end.
Leaves(got, objs, k) ==
    /\ Keeps(objs)
    /\ \A i \in DOMAIN objs : objs[i] = got.at[i]
    /\ \/ entries' = got.table /\ DOMAIN objs = 1..k
       \/ k > 0 /\ entries' = MarkFree(got.table, got.at[k].ptr) /\ DOMAIN objs = 1..(k - 1)

LEMMA KeepsAll ==
    ASSUME IInv, ~stray, NEW p \in Procs, NEW ns, NEW num, Asks(p, ns, num),
           NEW objs, Leaves(GrantAll(entries, ns), objs, Len(ns))
    PROVE  IInv'
<1> DEFINE got == GrantAll(entries, ns)
           n == Len(ns)
           place(i) == <<p, num[i]>>
<1>1. PICK new : Fresh(new, got, ns, num, p)
  BY PlacesGranted
<1>2. /\ UNCHANGED <<live, part, segments, alloc, writable, lost, stray>>
      /\ kept' = kept \cup UNION {Span(objs[i]) : i \in DOMAIN objs}
  BY DEF Leaves, Keeps
<1>3. /\ n \in Nat /\ \A i \in DOMAIN objs : objs[i] = got.at[i]
      /\ \/ entries' = got.table /\ DOMAIN objs = 1..n
         \/ n > 0 /\ entries' = MarkFree(got.table, got.at[n].ptr) /\ DOMAIN objs = 1..(n - 1)
  BY DEF Asks, Leaves
<1>a. p \notin live /\ Numbers(num, n)
  BY DEF Asks
<1> HIDE DEF got
<1> DEFINE all == {place(i) : i \in 1..n}
           names == {place(i) : i \in DOMAIN objs}
<1>4. /\ new = [m \in PlaceNames |-> new[m]] /\ DOMAIN new = PlaceNames
      /\ \A i \in 1..n : place(i) \in PlaceNames /\ new[place(i)] = got.at[i]
      /\ \A m \in PlaceNames : m \notin all => new[m] = Held[m]
      /\ \A i \in 1..n : Held[place(i)] = Nothing
      /\ Partition(got.table, new, lost \cup kept)
  <2>1. \A i \in 1..n : place(i) \in PlaceNames
    BY <1>a, PartsAssumption DEF PlaceNames, Numbers
  <2>2. \A i \in 1..n : Held[place(i)] = Nothing
    BY <1>a, <2>1 DEF IInv, Clean, AllGivenBack
  <2> QED BY <1>1, <2>1, <2>2 DEF Fresh
<1>5. \A i \in DOMAIN objs : i \in 1..n
  BY <1>3
<1>6. PICK left : /\ Partition(entries', left, lost \cup kept)
                  /\ left = [m \in PlaceNames |-> left[m]]
                  /\ \A m \in PlaceNames : m \notin all => left[m] = Held[m]
                  /\ \A i \in DOMAIN objs : left[place(i)] = objs[i]
                  /\ \A m \in PlaceNames : m \in all /\ m \notin names => left[m] = Nothing
  <2>1. CASE entries' = got.table /\ DOMAIN objs = 1..n
    <3> WITNESS new
    <3> QED BY <1>3, <1>4, <2>1
  <2>2. CASE n > 0 /\ entries' = MarkFree(got.table, got.at[n].ptr) /\ DOMAIN objs = 1..(n - 1)
    <3> DEFINE w == Without(new, {place(n)})
    <3>0. n \in 1..n
      BY <1>3, <2>2
    <3>1. n \in 1..n /\ got.at[n] = new[place(n)] /\ place(n) \in DOMAIN new
      <4> HIDE DEF n, place
      <4> QED BY <1>4, <3>0
    <3>2. new[place(n)].ptr # NoBlock /\ ~Strays(got.table, new[place(n)])
      BY <1>1, <2>2, <3>1 DEF Fresh, Granted
    <3> HIDE DEF place
    <3>3. Partition(entries', w, lost \cup kept)
      BY <1>4, <2>2, <3>1, <3>2, FreeOne
    <3>4. /\ w = [m \in PlaceNames |-> w[m]]
          /\ \A m \in PlaceNames : w[m] = IF m = place(n) THEN Nothing ELSE new[m]
      BY <1>4 DEF Without
    <3>5. \A i \in 1..(n - 1) : i \in 1..n /\ i # n
      BY <1>3
    <3>6. \A i \in 1..(n - 1) : place(i) # place(n)
      BY <1>a, <3>1, <3>5 DEF place, Numbers
    <3>7. \A i \in 1..n : i \in 1..(n - 1) \/ i = n
      BY <1>3
    <3> HIDE DEF w
    <3>8. \A m \in PlaceNames : m \notin all => w[m] = Held[m]
      BY <1>4, <3>1, <3>4
    <3>9. \A i \in DOMAIN objs : w[place(i)] = objs[i]
      BY <1>3, <1>4, <2>2, <3>4, <3>5, <3>6
    <3>10. \A m \in PlaceNames : m \in all /\ m \notin names => w[m] = Nothing
      BY <2>2, <3>4, <3>7
    <3> WITNESS w
    <3> QED BY <3>3, <3>4, <3>8, <3>9, <3>10
  <2> QED BY <1>3, <2>1, <2>2
<1>7. Without(left, names) = Held
  <2>1. \A m \in PlaceNames : m \in all => Held[m] = Nothing
    BY <1>4
  <2>2. DOMAIN left = PlaceNames
    BY <1>6
  <2> HIDE DEF all, names
  <2>3. Without(left, names) = [m \in PlaceNames |-> IF m \in names THEN Nothing ELSE left[m]]
    BY <2>2 DEF Without
  <2>4. \A m \in PlaceNames : (IF m \in names THEN Nothing ELSE left[m]) = Held[m]
    <3>1. names \subseteq all
      BY <1>5 DEF names, all
    <3> QED BY <1>6, <2>1, <3>1
  <2> QED BY <2>3, <2>4, HeldIsFunction
<1>8. names \in SUBSET DOMAIN left
  <2>1. DOMAIN left = PlaceNames
    BY <1>6
  <2> HIDE DEF place
  <2>2. \A i \in DOMAIN objs : place(i) \in PlaceNames
    BY <1>4, <1>5
  <2> QED BY <2>1, <2>2
<1>9. (lost \cup kept) \cup UNION {Span(left[m]) : m \in names} = lost' \cup kept'
  <2>1. UNION {Span(left[m]) : m \in names} = UNION {Span(objs[i]) : i \in DOMAIN objs}
    <3> HIDE DEF place
    <3>1. \A i \in DOMAIN objs : Span(left[place(i)]) = Span(objs[i])
      BY <1>6
    <3> QED BY <3>1
  <2> QED BY <1>2, <2>1
<1>10. Partition(entries', Held, lost' \cup kept')
  <2> HIDE DEF names
  <2>1. Partition(entries', Without(left, names),
                  (lost \cup kept) \cup UNION {Span(left[m]) : m \in names})
    BY <1>6, <1>8, LoseAll
  <2> QED BY <1>7, <1>9, <2>1
<1>11. lost' \subseteq Blocks /\ kept' \subseteq Blocks /\ stray' \in BOOLEAN
  BY <1>2 DEF IInv, TypeOK, Span
<1> QED BY <1>2, <1>10, <1>11, SameProcesses

LEMMA Joins ==
    ASSUME NEW s \in Seq(Nat), NEW t \in Seq(Nat)
    PROVE  s \o t \in Seq(Nat) /\ Len(s \o t) = Len(s) + Len(t)
  OBVIOUS

\* The requests of the loads.
LEMMA Requests ==
    ASSUME NEW n \in ImageBlocks
    PROVE  /\ ReadElf(n) \in Seq(Nat) /\ Len(ReadElf(n)) = 3
           /\ ReadBinary(n) \in Seq(Nat) /\ Len(ReadBinary(n)) = 4
           /\ ReadElf(n) \o StackAndTask \in Seq(Nat) /\ Len(ReadElf(n) \o StackAndTask) = 5
           /\ ReadBinary(n) \o StackAndTask \in Seq(Nat)
           /\ Len(ReadBinary(n) \o StackAndTask) = 6
<1>1. /\ PartBlocks["process"] \in Nat /\ PartBlocks["elf"] \in Nat
      /\ PartBlocks["stack"] \in Nat /\ PartBlocks["task"] \in Nat /\ n \in Nat
  BY PartsAssumption DEF Parts
<1>2. /\ ReadElf(n) \in Seq(Nat) /\ Len(ReadElf(n)) = 3
      /\ StackAndTask \in Seq(Nat) /\ Len(StackAndTask) = 2
      /\ <<n>> \in Seq(Nat) /\ Len(<<n>>) = 1
  BY <1>1 DEF ReadElf, StackAndTask
<1> DEFINE again == <<n>>
<1> HIDE DEF again
<1>3. /\ ReadBinary(n) \in Seq(Nat)
      /\ Len(ReadBinary(n)) = Len(ReadElf(n)) + Len(again)
  <2>1. ReadBinary(n) = ReadElf(n) \o again
    BY DEF ReadBinary, again
  <2>2. again \in Seq(Nat)
    BY <1>2 DEF again
  <2> QED BY <1>2, <2>1, <2>2, Joins
<1>4. Len(again) = 1
  BY <1>2 DEF again
<1>5. /\ ReadElf(n) \o StackAndTask \in Seq(Nat)
      /\ Len(ReadElf(n) \o StackAndTask) = Len(ReadElf(n)) + Len(StackAndTask)
  BY <1>2, Joins, Zenon
<1>6. /\ ReadBinary(n) \o StackAndTask \in Seq(Nat)
      /\ Len(ReadBinary(n) \o StackAndTask) = Len(ReadBinary(n)) + Len(StackAndTask)
  BY <1>2, <1>3, Joins, Zenon
<1> DEFINE elf == ReadElf(n) \o StackAndTask
           binary == ReadBinary(n) \o StackAndTask
<1> HIDE DEF elf, binary
<1>7. Len(ReadBinary(n)) = 4
  BY <1>2, <1>3, <1>4
<1>8. elf \in Seq(Nat) /\ Len(elf) = Len(ReadElf(n)) + Len(StackAndTask)
  BY <1>5, Zenon DEF elf
<1>9. binary \in Seq(Nat) /\ Len(binary) = Len(ReadBinary(n)) + Len(StackAndTask)
  BY <1>6, Zenon DEF binary
<1>10. Len(elf) = 5 /\ Len(binary) = 6
  BY <1>2, <1>7, <1>8, <1>9
<1> QED BY <1>2, <1>3, <1>7, <1>8, <1>9, <1>10, Zenon DEF elf, binary

\* A load that fails and frees nothing keeps all it was granted.
LEMMA KeepsGranted ==
    ASSUME IInv, ~stray, NEW p \in Procs, NEW ns, NEW num, Asks(p, ns, num),
           entries' = GrantAll(entries, ns).table, Keeps(GrantAll(entries, ns).at)
    PROVE  IInv'
<1> DEFINE got == GrantAll(entries, ns)
<1>1. PICK new : Fresh(new, got, ns, num, p)
  BY PlacesGranted
<1>2. got \in Accs
  <2>1. entries \in Tables
    BY DEF IInv, TypeOK, Tables
  <2>2. PICK after \in [0..Len(ns) -> Accs] : got = after[Len(ns)]
    BY <2>1, GrantTurns DEF Asks
  <2> QED BY <2>2 DEF Asks
<1>3. DOMAIN got.at = 1..Len(ns)
  BY <1>1, <1>2 DEF Fresh, Accs
<1>4. Leaves(got, got.at, Len(ns))
  BY <1>3 DEF Leaves
<1> QED BY <1>4, KeepsAll

LEMMA FailedOpenKeeps ==
    ASSUME IInv, ~stray, NEW p \in Procs, FailedOpen(p) PROVE IInv'
<1> DEFINE ns == <<PartBlocks["process"], PartBlocks["elf"]>>
           num == <<1, 2>>
<1>1. Asks(p, ns, num)
  <2>1. Len(ns) = 2 /\ \A i \in 1..Len(ns) : ns[i] \in Nat
    BY PartsAssumption DEF Parts
  <2>2. p \notin live /\ ~GrantAll(entries, ns).failed
    BY DEF FailedOpen
  <2>3. Numbers(num, 2)
    BY DEF Numbers
  <2> HIDE DEF ns, num
  <2> QED BY <2>1, <2>2, <2>3 DEF Asks
<1>2. entries' = GrantAll(entries, ns).table /\ Keeps(GrantAll(entries, ns).at)
  BY DEF FailedOpen
<1> HIDE DEF ns, num
<1> QED BY <1>1, <1>2, KeepsGranted

LEMMA FailedReadKeeps ==
    ASSUME IInv, ~stray, NEW p \in Procs, NEW n \in ImageBlocks,
           FailedRead(p, n) PROVE IInv'
<1> DEFINE ns == ReadElf(n)
           num == <<1, 2, 3>>
<1>1. Asks(p, ns, num)
  <2>1. Len(ns) = 3 /\ \A i \in 1..Len(ns) : ns[i] \in Nat
    BY Requests
  <2>2. p \notin live /\ ~GrantAll(entries, ns).failed
    BY DEF FailedRead
  <2>3. Numbers(num, 3)
    BY DEF Numbers
  <2> HIDE DEF ns, num
  <2> QED BY <2>1, <2>2, <2>3 DEF Asks
<1>2. entries' = GrantAll(entries, ns).table /\ Keeps(GrantAll(entries, ns).at)
  BY DEF FailedRead
<1> HIDE DEF ns, num
<1> QED BY <1>1, <1>2, KeepsGranted

LEMMA FailedBinaryKeeps ==
    ASSUME IInv, ~stray, NEW p \in Procs, NEW n \in ImageBlocks,
           FailedBinary(p, n) PROVE IInv'
<1> DEFINE ns == ReadBinary(n)
           num == <<1, 2, 0, 3>>
           got == GrantAll(entries, ns)
           objs == [i \in 1..3 |-> got.at[i]]
<1>1. Asks(p, ns, num)
  <2>1. Len(ns) = 4 /\ \A i \in 1..Len(ns) : ns[i] \in Nat
    BY Requests
  <2>2. p \notin live /\ ~GrantAll(entries, ns).failed
    BY DEF FailedBinary
  <2>3. Numbers(num, 4)
    BY DEF Numbers
  <2> HIDE DEF ns, num
  <2> QED BY <2>1, <2>2, <2>3 DEF Asks
<1>2. entries' = MarkFree(got.table, got.at[4].ptr) /\ Keeps(objs)
  BY DEF FailedBinary
<1>3. Len(ns) = 4
  BY Requests
<1>4. DOMAIN objs = 1..(4 - 1) /\ \A i \in DOMAIN objs : objs[i] = got.at[i]
  OBVIOUS
<1> HIDE DEF ns, num, objs, got
<1>5. Leaves(got, objs, Len(ns))
  BY <1>2, <1>3, <1>4 DEF Leaves
<1> QED BY <1>1, <1>5, KeepsAll DEF got

LEMMA FailedStackKeeps ==
    ASSUME IInv, ~stray, NEW p \in Procs, NEW n \in ImageBlocks,
           FailedStack(p, n) PROVE IInv'
<1> DEFINE ns == ReadBinary(n)
           num == <<1, 2, 0, 3>>
<1>1. Asks(p, ns, num)
  <2>1. Len(ns) = 4 /\ \A i \in 1..Len(ns) : ns[i] \in Nat
    BY Requests
  <2>2. p \notin live /\ ~GrantAll(entries, ns).failed
    BY DEF FailedStack
  <2>3. Numbers(num, 4)
    BY DEF Numbers
  <2> HIDE DEF ns, num
  <2> QED BY <2>1, <2>2, <2>3 DEF Asks
<1>2. entries' = GrantAll(entries, ns).table /\ Keeps(GrantAll(entries, ns).at)
  BY DEF FailedStack
<1> HIDE DEF ns, num
<1> QED BY <1>1, <1>2, KeepsGranted

LEMMA FailedMapKeeps ==
    ASSUME IInv, ~stray, NEW p \in Procs, NEW n \in ImageBlocks,
           FailedMap(p, n) PROVE IInv'
<1> DEFINE ns == ReadElf(n) \o StackAndTask
           num == <<1, 2, 3, 4, 5>>
           got == GrantAll(entries, ns)
           objs == [i \in 1..4 |-> got.at[i]]
<1>1. Asks(p, ns, num)
  <2>1. Len(ns) = 5 /\ \A i \in 1..Len(ns) : ns[i] \in Nat
    BY Requests
  <2>2. p \notin live /\ ~GrantAll(entries, ns).failed
    BY DEF FailedMap
  <2>3. Numbers(num, 5)
    BY DEF Numbers
  <2> HIDE DEF ns, num
  <2> QED BY <2>1, <2>2, <2>3 DEF Asks
<1>2. entries' = MarkFree(got.table, got.at[5].ptr) /\ Keeps(objs)
  BY DEF FailedMap
<1>3. Len(ns) = 5
  BY Requests
<1>4. DOMAIN objs = 1..(5 - 1) /\ \A i \in DOMAIN objs : objs[i] = got.at[i]
  OBVIOUS
<1> HIDE DEF ns, num, objs, got
<1>5. Leaves(got, objs, Len(ns))
  BY <1>2, <1>3, <1>4 DEF Leaves
<1> QED BY <1>1, <1>5, KeepsAll DEF got

-----------------------------------------------------------------------------
(* Loads that succeed.                                                       *)

\* What loading makes of the process's own state (process.c:374-433, 505-531).
LEMMA LoadedKeeps ==
    ASSUME TypeOK, Access(live, part, segments, alloc, writable), NEW p \in Procs,
           NEW parts \in [Parts -> Object], parts["image"].ptr # NoBlock,
           NEW offsets \in SUBSET Nat, Loaded(p, parts, offsets)
    PROVE  /\ live' \subseteq Procs
           /\ part' \in [Procs -> [Parts -> Object]]
           /\ segments' \in [Procs -> SUBSET Nat]
           /\ alloc' \in [Procs -> [Slots -> Object]]
           /\ writable' \in [Procs -> Areas]
           /\ part'[p] = parts /\ \A i \in Slots : alloc'[p][i] = Nothing
           /\ \A q \in Procs \ {p} : part'[q] = part[q] /\ alloc'[q] = alloc[q]
           /\ Access(live', part', segments', alloc', writable')
<1> DEFINE area == [program |-> ProgramArea(parts, offsets), heap |-> {}]
<1>1. /\ live' = live \cup {p}
      /\ part' = [part EXCEPT ![p] = parts]
      /\ segments' = [segments EXCEPT ![p] = offsets]
      /\ alloc' = [alloc EXCEPT ![p] = [i \in Slots |-> Nothing]]
      /\ writable' = [writable EXCEPT ![p] = area]
  BY DEF Loaded, ProgramArea
<1>2. area \in Areas
  <2>1. parts["image"] \in Object /\ parts["stack"] \in Object
    BY DEF Parts
  <2>2. parts["image"].ptr \in Nat
    BY <2>1, TotalAssumption DEF Object, Blocks
  <2>3. SegmentPages(parts["image"], offsets) \in SUBSET Nat
    BY <2>2 DEF SegmentPages
  <2>4. Pages(parts["stack"]) \in SUBSET Nat
    BY <2>1, PagesAreNumbers
  <2> QED BY <2>3, <2>4 DEF Areas, ProgramArea
<1> HIDE DEF area
<1>3. Nothing \in Object /\ Pages(Nothing) = {}
  BY NothingThere DEF Valid
<1>4. [i \in Slots |-> Nothing] \in [Slots -> Object]
  BY <1>3
<1>5. /\ live' \subseteq Procs /\ part' \in [Procs -> [Parts -> Object]]
      /\ segments' \in [Procs -> SUBSET Nat]
      /\ alloc' \in [Procs -> [Slots -> Object]] /\ writable' \in [Procs -> Areas]
  BY <1>1, <1>2, <1>4 DEF TypeOK
<1>6. /\ part'[p] = parts /\ segments'[p] = offsets
      /\ alloc'[p] = [i \in Slots |-> Nothing] /\ writable'[p] = area
  BY <1>1 DEF TypeOK
<1>7. \A q \in Procs \ {p} : /\ part'[q] = part[q] /\ segments'[q] = segments[q]
                             /\ alloc'[q] = alloc[q] /\ writable'[q] = writable[q]
                             /\ (q \in live' <=> q \in live)
  BY <1>1 DEF TypeOK
<1>8. Access(live', part', segments', alloc', writable')
  <2> SUFFICES ASSUME NEW q \in Procs
               PROVE  /\ writable'[q].program =
                            IF q \notin live' THEN {} ELSE ProgramArea(part'[q], segments'[q])
                      /\ writable'[q].heap = HeapArea(alloc'[q])
    BY DEF Access
  <2>1. CASE q = p
    <3>1. HeapArea(alloc'[p]) = {}
      BY <1>3, <1>6 DEF HeapArea
    <3>2. area.program = ProgramArea(parts, offsets) /\ area.heap = {}
      BY DEF area
    <3>3. p \in live'
      BY <1>1
    <3> QED BY <1>6, <2>1, <3>1, <3>2, <3>3
  <2>2. CASE q # p
    BY <1>7, <2>2 DEF Access
  <2> QED BY <2>1, <2>2
<1> QED BY <1>5, <1>6, <1>7, <1>8

\* The places after a load: p has these parts and no allocation.
NewProcess(new, held, p, parts) ==
    /\ new = [m \in PlaceNames |-> new[m]]
    /\ \A m \in PlaceNames : m[1] # p => new[m] = held[m]
    /\ new[<<p, 0>>] = Nothing /\ new[<<p, 1>>] = parts["process"]
    /\ new[<<p, 2>>] = parts["elf"] /\ new[<<p, 3>>] = parts["image"]
    /\ new[<<p, 4>>] = parts["stack"] /\ new[<<p, 5>>] = parts["task"]
    /\ \A i \in Slots : new[<<p, i + 5>>] = Nothing

\* The objects a load was granted are the parts of the new process.
LEMMA LoadedInv ==
    ASSUME IInv, ~stray, stray' = stray, NEW p \in Procs,
           NEW parts \in [Parts -> Object], parts["image"].ptr # NoBlock,
           NEW offsets \in SUBSET Nat, Loaded(p, parts, offsets),
           lost' \subseteq Blocks, kept' \subseteq Blocks,
           NEW new, NewProcess(new, Held, p, parts),
           Partition(entries', new, lost' \cup kept')
    PROVE  IInv'
<1>1. /\ live' \subseteq Procs
      /\ part' \in [Procs -> [Parts -> Object]]
      /\ segments' \in [Procs -> SUBSET Nat]
      /\ alloc' \in [Procs -> [Slots -> Object]]
      /\ writable' \in [Procs -> Areas]
      /\ part'[p] = parts /\ \A i \in Slots : alloc'[p][i] = Nothing
      /\ \A q \in Procs \ {p} : part'[q] = part[q] /\ alloc'[q] = alloc[q]
      /\ Access(live', part', segments', alloc', writable')
  BY LoadedKeeps DEF IInv, Clean
<1>2. TypeOK'
  BY <1>1, PartitionTable DEF IInv, TypeOK
<1>3. Placed(new, part', alloc', p)
  BY <1>1 DEF Placed, NewProcess
<1>4. Moved(new, part, alloc, part', alloc', p)
  BY <1>1, <1>3 DEF Held, Moved, NewProcess
<1>5. new = HeldIn(part', alloc')
  BY <1>4, NewPlaces
<1>6. AllGivenBack(live', new)
  <2>1. live' = live \cup {p}
    BY DEF Loaded
  <2> QED BY <2>1 DEF IInv, Clean, AllGivenBack, NewProcess
<1> QED BY <1>1, <1>2, <1>5, <1>6, Finish

LEMMA LoadElfKeeps ==
    ASSUME IInv, ~stray, NEW p \in Procs, NEW n \in ImageBlocks, NEW offsets \in Segments,
           LoadElf(p, n, offsets)
    PROVE  IInv'
<1> DEFINE ns == ReadElf(n) \o StackAndTask
           num == <<1, 2, 3, 4, 5>>
           got == GrantAll(entries, ns)
           parts == [x \in Parts |->
                CASE x = "process" -> got.at[1] [] x = "elf" -> got.at[2]
                  [] x = "image" -> got.at[3] [] x = "stack" -> got.at[4]
                  [] x = "task" -> got.at[5]]
<1>1. /\ p \notin live /\ ~got.failed /\ entries' = got.table
      /\ Loaded(p, parts, offsets)
      /\ lost' = lost /\ kept' = kept /\ stray' = stray
  BY DEF LoadElf
<1>2. Len(ns) = 5 /\ \A i \in 1..Len(ns) : ns[i] \in Nat
  BY Requests
<1>3. Numbers(num, 5) /\ \A i \in 1..5 : num[i] = i
  BY DEF Numbers
<1>4. /\ parts["process"] = got.at[1] /\ parts["elf"] = got.at[2] /\ parts["image"] = got.at[3]
      /\ parts["stack"] = got.at[4] /\ parts["task"] = got.at[5]
      /\ parts = [x \in Parts |-> parts[x]]
  BY DEF Parts
<1> HIDE DEF ns, num, got, parts
<1>5. Asks(p, ns, num)
  BY <1>1, <1>2, <1>3 DEF Asks, got
<1>6. PICK new : Fresh(new, got, ns, num, p)
  BY <1>5, PlacesGranted DEF got
<1>7. \A i \in 1..5 : /\ new[<<p, i>>] = got.at[i]
                      /\ got.at[i] \in Object /\ got.at[i].ptr # NoBlock
  BY <1>2, <1>3, <1>6 DEF Fresh, Granted
<1>8. \A m \in PlaceNames : (\A i \in 1..5 : <<p, i>> # m) => new[m] = Held[m]
  BY <1>2, <1>3, <1>6 DEF Fresh
<1>9. new[<<p, 0>>] = Nothing /\ \A i \in Slots : new[<<p, i + 5>>] = Nothing
  <2>1. <<p, 0>> \in PlaceNames /\ \A i \in Slots : <<p, i + 5>> \in PlaceNames
    BY PlaceNamesOf
  <2>2. \A i \in 1..5 : <<p, i>> # <<p, 0>> /\ \A j \in Slots : <<p, i>> # <<p, j + 5>>
    BY PartsAssumption DEF Slots
  <2> QED BY <1>1, <1>8, <2>1, <2>2 DEF IInv, Clean, AllGivenBack
<1>10. parts \in [Parts -> Object] /\ parts["image"].ptr # NoBlock
  BY <1>4, <1>7 DEF Parts
<1>11. NewProcess(new, Held, p, parts)
  <2>1. \A m \in PlaceNames : m[1] # p => new[m] = Held[m]
    BY <1>8
  <2> QED BY <1>4, <1>6, <1>7, <1>9, <2>1 DEF NewProcess, Fresh
<1>12. Partition(entries', new, lost' \cup kept') /\ lost' \subseteq Blocks /\ kept' \subseteq Blocks
  BY <1>1, <1>6 DEF Fresh, IInv, TypeOK
<1>13. offsets \in SUBSET Nat
  BY PartsAssumption
<1> QED BY <1>1, <1>10, <1>11, <1>12, <1>13, LoadedInv

LEMMA LoadBinaryKeeps ==
    ASSUME IInv, ~stray, NEW p \in Procs, NEW n \in ImageBlocks, LoadBinary(p, n)
    PROVE  IInv'
<1> DEFINE ns == ReadBinary(n) \o StackAndTask
           num == <<1, 2, 0, 3, 4, 5>>
           got == GrantAll(entries, ns)
           parts == [x \in Parts |->
                CASE x = "process" -> got.at[1] [] x = "elf" -> Nothing
                  [] x = "image" -> got.at[4] [] x = "stack" -> got.at[5]
                  [] x = "task" -> got.at[6]]
<1>1. /\ p \notin live /\ ~got.failed /\ entries' = got.table
      /\ Loaded(p, parts, 0..(n - 1))
      /\ lost' = lost \cup Span(got.at[2]) \cup Span(got.at[3])
      /\ kept' = kept /\ stray' = stray
  BY DEF LoadBinary
<1>2. Len(ns) = 6 /\ \A i \in 1..Len(ns) : ns[i] \in Nat
  BY Requests
<1>3. /\ Numbers(num, 6)
      /\ num[1] = 1 /\ num[2] = 2 /\ num[3] = 0 /\ num[4] = 3 /\ num[5] = 4 /\ num[6] = 5
  BY DEF Numbers
<1>4. /\ parts["process"] = got.at[1] /\ parts["elf"] = Nothing /\ parts["image"] = got.at[4]
      /\ parts["stack"] = got.at[5] /\ parts["task"] = got.at[6]
      /\ parts = [x \in Parts |-> parts[x]]
  BY DEF Parts
<1> HIDE DEF ns, num, got, parts
<1>5. Asks(p, ns, num)
  BY <1>1, <1>2, <1>3 DEF Asks, got
<1>6. PICK new : Fresh(new, got, ns, num, p)
  BY <1>5, PlacesGranted DEF got
<1>7. /\ \A i \in 1..6 : /\ new[<<p, num[i]>>] = got.at[i]
                         /\ got.at[i] \in Object /\ got.at[i].ptr # NoBlock
      /\ \A m \in PlaceNames : (\A i \in 1..6 : <<p, num[i]>> # m) => new[m] = Held[m]
  BY <1>2, <1>6 DEF Fresh, Granted
<1>8. /\ new[<<p, 1>>] = got.at[1] /\ new[<<p, 2>>] = got.at[2] /\ new[<<p, 0>>] = got.at[3]
      /\ new[<<p, 3>>] = got.at[4] /\ new[<<p, 4>>] = got.at[5] /\ new[<<p, 5>>] = got.at[6]
  BY <1>3, <1>7
<1>9. \A i \in Slots : new[<<p, i + 5>>] = Nothing
  <2>1. \A i \in Slots : <<p, i + 5>> \in PlaceNames
    BY PlaceNamesOf
  <2>2. \A i \in 1..6 : num[i] <= 5 /\ num[i] \in Nat
    BY <1>3 DEF Numbers
  <2>3. \A i \in 1..6 : \A j \in Slots : <<p, num[i]>> # <<p, j + 5>>
    BY <2>2, PartsAssumption DEF Slots
  <2> QED BY <1>1, <1>7, <2>1, <2>3 DEF IInv, Clean, AllGivenBack
<1>10. \A m \in PlaceNames : m[1] # p => new[m] = Held[m]
  BY <1>7
<1> DEFINE gone == {<<p, 2>>, <<p, 0>>}
           rest == Without(new, gone)
<1>11. /\ <<p, 0>> \in PlaceNames /\ <<p, 1>> \in PlaceNames /\ <<p, 2>> \in PlaceNames
       /\ <<p, 3>> \in PlaceNames /\ <<p, 4>> \in PlaceNames /\ <<p, 5>> \in PlaceNames
       /\ \A i \in Slots : <<p, i + 5>> \in PlaceNames
  BY PlaceNamesOf
<1>12. /\ rest = [m \in PlaceNames |-> rest[m]]
       /\ \A m \in PlaceNames : rest[m] = IF m \in gone THEN Nothing ELSE new[m]
       /\ gone \in SUBSET DOMAIN new
  BY <1>6, <1>11 DEF Without, Fresh
<1>13. Partition(entries', rest, lost' \cup kept')
  <2>1. (lost \cup kept) \cup UNION {Span(new[m]) : m \in gone} = lost' \cup kept'
    BY <1>1, <1>8
  <2> HIDE DEF gone
  <2>2. Partition(got.table, new, lost \cup kept)
    BY <1>6 DEF Fresh
  <2> QED BY <1>1, <1>12, <2>1, <2>2, LoseAll
<1>14. /\ <<p, 1>> \notin gone /\ <<p, 3>> \notin gone /\ <<p, 4>> \notin gone
       /\ <<p, 5>> \notin gone /\ <<p, 2>> \in gone /\ <<p, 0>> \in gone
       /\ \A i \in Slots : <<p, i + 5>> \notin gone
       /\ \A m \in gone : m[1] = p
  BY PartsAssumption DEF Slots
<1> HIDE DEF gone, rest
<1>15. NewProcess(rest, Held, p, parts)
  BY <1>4, <1>8, <1>9, <1>10, <1>11, <1>12, <1>14 DEF NewProcess
<1>16. parts \in [Parts -> Object] /\ parts["image"].ptr # NoBlock
  <2>1. Nothing \in Object
    BY NothingThere DEF Valid
  <2> QED BY <1>4, <1>7, <2>1 DEF Parts
<1>17. lost' \subseteq Blocks /\ kept' \subseteq Blocks
  BY <1>1 DEF IInv, TypeOK, Span
<1>18. 0..(n - 1) \in SUBSET Nat
  BY PartsAssumption
<1> QED BY <1>1, <1>13, <1>15, <1>16, <1>17, <1>18, LoadedInv

-----------------------------------------------------------------------------
(* malloc and free of a process (process.c:59-122, 276-297).                 *)

\* heap.c:55-65, 176-181: a size becomes a natural number of blocks.
LEMMA BlocksForType ==
    ASSUME NEW bytes \in Sizes PROVE BlocksFor(bytes) \in Nat
<1>1. bytes \in Nat
    BY PartsAssumption, WordAssumption
<1>2. bytes % BlockSize \in Nat /\ bytes % BlockSize <= bytes
    BY <1>1, PartsAssumption, WordAssumption
<1>3. AlignUp(bytes) \in Nat
  <2>1. CASE bytes % BlockSize = 0
      BY <1>1, <2>1 DEF AlignUp
  <2>2. CASE bytes % BlockSize # 0
    <3>1. bytes - (bytes % BlockSize) + BlockSize \in Nat
        BY <1>1, <1>2, PartsAssumption, WordAssumption
    <3> QED BY <3>1, <2>2, PartsAssumption, WordAssumption DEF AlignUp
  <2> QED BY <2>1, <2>2
<1> QED BY <1>3, PartsAssumption, WordAssumption DEF BlocksFor

\* One object that is granted (process.c:59-67): the place k had none.
LEMMA OneGranted ==
    ASSUME NEW obj, obj = [m \in PlaceNames |-> obj[m]], NEW gone,
           Partition(entries, obj, gone), NEW k \in PlaceNames, obj[k] = Nothing,
           NEW n \in Nat, ~GrantAll(entries, <<n>>).failed
    PROVE  LET got == GrantAll(entries, <<n>>)
           IN  /\ Granted(got.at[1], n) /\ ~Strays(got.table, got.at[1])
               /\ Partition(got.table, [obj EXCEPT ![k] = got.at[1]], gone)
<1> DEFINE ns == <<n>>
           keys == <<k>>
           got == GrantAll(entries, ns)
<1>1. Len(ns) = 1 /\ \A i \in 1..1 : i = 1 /\ ns[i] = n /\ keys[i] = k
  OBVIOUS
<1>2. ~got.failed
  OBVIOUS
<1> HIDE DEF ns, keys, got
<1>3. GrantedTo(got, ns, keys, PlaceNames, obj, gone)
  <2>1. ToBeGranted(entries, ns, keys, PlaceNames, obj, gone)
    BY <1>1 DEF ToBeGranted
  <2> QED BY <1>2, <2>1, GrantAllKeeps DEF got
<1>4. PICK new : /\ new = [m \in PlaceNames |-> new[m]]
                 /\ Partition(got.table, new, gone)
                 /\ \A i \in 1..1 : new[keys[i]] = got.at[i]
                 /\ \A m \in PlaceNames : (\A i \in 1..1 : keys[i] # m) => new[m] = obj[m]
  BY <1>1, <1>3 DEF GrantedTo
<1>5. new[k] = got.at[1] /\ \A m \in PlaceNames : m # k => new[m] = obj[m]
  BY <1>1, <1>4
<1>6. new = [obj EXCEPT ![k] = got.at[1]]
  BY <1>4, <1>5
<1>7. Granted(got.at[1], n) /\ ~Strays(got.table, got.at[1])
  BY <1>1, <1>3 DEF GrantedTo
<1> QED BY <1>4, <1>6, <1>7 DEF got, ns

\* The place of an allocation, and no other, is changed.
LEMMA SlotPlaces ==
    ASSUME TypeOK, NEW p \in Procs, NEW i \in Slots, NEW o,
           part' = part, alloc' = [alloc EXCEPT ![p][i] = o]
    PROVE  HeldIn(part', alloc') = [Held EXCEPT ![<<p, i + 5>>] = o]
<1> DEFINE new == [Held EXCEPT ![<<p, i + 5>>] = o]
<1>1. <<p, i + 5>> \in PlaceNames
  BY PlaceNamesOf
<1>2. new = [m \in PlaceNames |-> new[m]] /\ new[<<p, i + 5>>] = o
      /\ \A m \in PlaceNames : m # <<p, i + 5>> => new[m] = Held[m]
  BY <1>1, HeldIsFunction
<1> HIDE DEF new
<1>3. /\ alloc'[p][i] = o /\ \A j \in Slots : j # i => alloc'[p][j] = alloc[p][j]
      /\ \A q \in Procs \ {p} : alloc'[q] = alloc[q]
  BY DEF TypeOK
<1>4. Placed(Held, part, alloc, p)
  BY Places DEF Held
<1>5. Placed(new, part', alloc', p)
  <2>1. /\ <<p, 0>> \in PlaceNames /\ <<p, 1>> \in PlaceNames /\ <<p, 2>> \in PlaceNames
        /\ <<p, 3>> \in PlaceNames /\ <<p, 4>> \in PlaceNames /\ <<p, 5>> \in PlaceNames
        /\ \A j \in Slots : <<p, j + 5>> \in PlaceNames
    BY PlaceNamesOf
  <2>2. /\ <<p, 0>> # <<p, i + 5>> /\ <<p, 1>> # <<p, i + 5>> /\ <<p, 2>> # <<p, i + 5>>
        /\ <<p, 3>> # <<p, i + 5>> /\ <<p, 4>> # <<p, i + 5>> /\ <<p, 5>> # <<p, i + 5>>
        /\ \A j \in Slots : j # i => <<p, j + 5>> # <<p, i + 5>>
    BY PartsAssumption DEF Slots
  <2> QED BY <1>2, <1>3, <1>4, <2>1, <2>2 DEF Placed
<1>6. Moved(new, part, alloc, part', alloc', p)
  <2>1. \A m \in PlaceNames : m[1] # p => m # <<p, i + 5>>
    OBVIOUS
  <2> QED BY <1>2, <1>3, <1>5, <2>1 DEF Moved, Held
<1>7. new = HeldIn(part', alloc')
  BY <1>6, NewPlaces
<1> QED BY <1>7 DEF new

LEMMA FirstSlot ==
    ASSUME NEW S \in SUBSET Slots, S # {} PROVE First(S) \in S
<1>1. S \in SUBSET Nat
  BY PartsAssumption DEF Slots
<1>2. \E i \in S : \A j \in S : i <= j
  BY <1>1, Least
<1> QED BY <1>2 DEF First

LEMMA ProcessMallocKeeps ==
    ASSUME IInv, ~stray, NEW p \in Procs, NEW bytes \in Sizes, ProcessMalloc(p, bytes)
    PROVE  IInv'
<1> DEFINE n == BlocksFor(bytes)
           got == GrantAll(entries, <<n>>)
           o == got.at[1]
<1>1. /\ p \in live /\ ~got.failed /\ live' = live /\ part' = part /\ segments' = segments
      /\ lost' = lost /\ kept' = kept
  BY DEF ProcessMalloc
<1>2. n \in Nat
  BY BlocksForType
<1>3. /\ Partition(entries, Held, lost \cup kept) /\ TypeOK
      /\ AllGivenBack(live, Held) /\ Access(live, part, segments, alloc, writable)
  BY DEF IInv, Clean
<1>b. lost' \subseteq Blocks /\ kept' \subseteq Blocks
  BY <1>1, <1>3 DEF TypeOK
<1>s. stray' \in BOOLEAN
  BY DEF ProcessMalloc, ReachesTop
<1> HIDE DEF n
<1>4. CASE Joined(p, NoBlock) = {}
  <2>1. entries' = MarkFree(got.table, o.ptr) /\ UNCHANGED <<alloc, writable>>
    BY <1>4 DEF ProcessMalloc, n
  <2> DEFINE k == <<p, 0>>
             new == [Held EXCEPT ![k] = o]
  <2>2. k \in PlaceNames /\ Held[k] = Nothing
    <3>1. Placed(Held, part, alloc, p)
      BY Places DEF Held
    <3> QED BY <3>1, PlaceNamesOf DEF Placed
  <2> HIDE DEF k
  <2>3. /\ Granted(o, n) /\ ~Strays(got.table, o)
        /\ Partition(got.table, new, lost \cup kept)
    BY <1>1, <1>2, <1>3, <2>2, HeldIsFunction, OneGranted
  <2>4. /\ DOMAIN new = PlaceNames /\ new = [m \in PlaceNames |-> new[m]] /\ new[k] = o
        /\ \A m \in PlaceNames : m # k => new[m] = Held[m]
    BY <2>2, HeldIsFunction
  <2> HIDE DEF new, got, o
  <2>5. Without(new, {k}) = Held
    <3>1. Without(new, {k}) = [m \in PlaceNames |-> Held[m]]
      BY <2>2, <2>4 DEF Without
    <3> QED BY <3>1, HeldIsFunction
  <2>6. Partition(MarkFree(got.table, o.ptr), Without(new, {k}), lost \cup kept)
    BY <2>2, <2>3, <2>4, FreeOne DEF Granted
  <2>7. Partition(entries', Held, lost' \cup kept')
    BY <1>1, <2>1, <2>5, <2>6
  <2> QED BY <1>1, <1>b, <1>s, <2>1, <2>7, SameProcesses
<1>5. CASE Joined(p, NoBlock) # {}
  <2> DEFINE i == First(Joined(p, NoBlock))
             k == <<p, i + 5>>
  <2>1. /\ entries' = got.table
        /\ alloc' = [alloc EXCEPT ![p][i] = o]
        /\ writable' = [writable EXCEPT ![p].heap = @ \cup Pages(o)]
    BY <1>5 DEF ProcessMalloc, n
  <2>2. i \in Slots /\ alloc[p][i].ptr = NoBlock
    <3>1. Joined(p, NoBlock) \in SUBSET Slots
      BY DEF Joined
    <3>2. i \in Joined(p, NoBlock)
      BY <1>5, <3>1, FirstSlot
    <3> QED BY <3>2 DEF Joined
  <2> HIDE DEF i
  <2>3. k \in PlaceNames /\ Held[k] = alloc[p][i]
    <3>1. Placed(Held, part, alloc, p)
      BY Places DEF Held
    <3> QED BY <2>2, <3>1, PlaceNamesOf DEF Placed
  <2>4. Held[k] = Nothing
    <3>1. Valid(Held[k])
      BY <1>3, <2>3, HeldIsFunction DEF Partition
    <3>2. Held[k].ptr = NoBlock /\ Held[k].len = 0 /\ Held[k] \in Object
      BY <2>2, <2>3, <3>1 DEF Valid
    <3> QED BY <3>2 DEF Object, Nothing
  <2>5. Granted(o, n) /\ Partition(got.table, [Held EXCEPT ![k] = o], lost \cup kept)
    BY <1>1, <1>2, <1>3, <2>3, <2>4, HeldIsFunction, OneGranted
  <2>6. o \in Object
    BY <2>5 DEF Granted
  <2> HIDE DEF got, o
  <2>7. HeldIn(part', alloc') = [Held EXCEPT ![k] = o]
    BY <1>1, <1>3, <2>1, <2>2, SlotPlaces
  <2>8. Partition(entries', HeldIn(part', alloc'), lost' \cup kept')
    BY <1>1, <2>1, <2>5, <2>7
  <2>9. /\ writable'[p] = [program |-> writable[p].program, heap |-> writable[p].heap \cup Pages(o)]
        /\ \A q \in Procs \ {p} : writable'[q] = writable[q]
        /\ writable' \in [Procs -> Areas]
    <3>1. writable \in [Procs -> Areas] /\ Pages(o) \in SUBSET Nat
      BY <1>3, <2>6, PagesAreNumbers DEF TypeOK
    <3>2. writable'[p] = [writable[p] EXCEPT !.heap = @ \cup Pages(o)]
      BY <2>1, <3>1
    <3>3. /\ writable[p] \in Areas /\ \A q \in Procs \ {p} : writable'[q] = writable[q]
          /\ writable' = [q \in Procs |-> writable'[q]]
      BY <2>1, <3>1
    <3>4. writable'[p] = [program |-> writable[p].program, heap |-> writable[p].heap \cup Pages(o)]
      BY <3>2, <3>3 DEF Areas
    <3>5. writable'[p] \in Areas
      BY <3>1, <3>3, <3>4 DEF Areas
    <3>6. \A q \in Procs : writable'[q] \in Areas
      BY <3>1, <3>3, <3>5
    <3> QED BY <3>3, <3>4, <3>6
  <2>10. /\ alloc'[p][i] = o /\ \A j \in Slots : j # i => alloc'[p][j] = alloc[p][j]
         /\ \A q \in Procs \ {p} : alloc'[q] = alloc[q]
         /\ alloc' \in [Procs -> [Slots -> Object]]
    BY <1>3, <2>1, <2>2, <2>6 DEF TypeOK
  <2>11. TypeOK'
    <3>1. entries' \in [Blocks -> Entry]
      BY <2>8, PartitionTable
    <3> QED BY <1>1, <1>3, <1>s, <2>9, <2>10, <3>1 DEF TypeOK
  <2>12. Access(live', part', segments', alloc', writable')
    <3> SUFFICES ASSUME NEW q \in Procs
                 PROVE  /\ writable'[q].program =
                              IF q \notin live' THEN {} ELSE ProgramArea(part'[q], segments'[q])
                        /\ writable'[q].heap = HeapArea(alloc'[q])
      BY DEF Access
    <3>1. CASE q = p
      <4>1. Pages(alloc[p][i]) = {}
        BY <2>3, <2>4, NothingThere
      <4>2. HeapArea(alloc'[p]) = HeapArea(alloc[p]) \cup Pages(o)
        BY <2>2, <2>10, <4>1 DEF HeapArea
      <4>3. /\ writable[p].heap = HeapArea(alloc[p])
            /\ writable[p].program = IF p \notin live THEN {} ELSE ProgramArea(part[p], segments[p])
        BY <1>3 DEF Access
      <4> QED BY <1>1, <2>9, <3>1, <4>2, <4>3
    <3>2. CASE q # p
      BY <1>1, <1>3, <2>9, <2>10, <3>2 DEF Access
    <3> QED BY <3>1, <3>2
  <2>13. AllGivenBack(live', HeldIn(part', alloc'))
    <3>1. \A m \in PlaceNames : m[1] \notin live => m # k
      BY <1>1
    <3> QED BY <1>1, <1>3, <2>3, <2>7, <3>1, HeldIsFunction DEF AllGivenBack
  <2> QED BY <2>8, <2>11, <2>12, <2>13, Finish
<1> QED BY <1>4, <1>5

\* The places of some allocations, and no others, are emptied.
LEMMA SlotsEmptied ==
    ASSUME TypeOK, NEW p \in Procs, NEW S \in SUBSET Slots, part' = part,
           alloc' = [alloc EXCEPT ![p] = [j \in Slots |-> IF j \in S THEN Nothing ELSE @[j]]]
    PROVE  HeldIn(part', alloc') = Without(Held, {<<p, j + 5>> : j \in S})
<1> DEFINE names == {<<p, j + 5>> : j \in S}
           new == Without(Held, names)
<1>1. /\ new = [m \in PlaceNames |-> new[m]]
      /\ \A m \in PlaceNames : new[m] = IF m \in names THEN Nothing ELSE Held[m]
  BY HeldIsFunction DEF Without
<1> HIDE DEF new
<1>2. /\ \A j \in Slots : alloc'[p][j] = IF j \in S THEN Nothing ELSE alloc[p][j]
      /\ \A q \in Procs \ {p} : alloc'[q] = alloc[q]
  BY DEF TypeOK
<1>3. Placed(Held, part, alloc, p)
  BY Places DEF Held
<1>4. Placed(new, part', alloc', p)
  <2>1. /\ <<p, 0>> \in PlaceNames /\ <<p, 1>> \in PlaceNames /\ <<p, 2>> \in PlaceNames
        /\ <<p, 3>> \in PlaceNames /\ <<p, 4>> \in PlaceNames /\ <<p, 5>> \in PlaceNames
        /\ \A j \in Slots : <<p, j + 5>> \in PlaceNames
    BY PlaceNamesOf
  <2>2. /\ <<p, 0>> \notin names /\ <<p, 1>> \notin names /\ <<p, 2>> \notin names
        /\ <<p, 3>> \notin names /\ <<p, 4>> \notin names /\ <<p, 5>> \notin names
        /\ \A j \in Slots : <<p, j + 5>> \in names <=> j \in S
    BY PartsAssumption DEF Slots
  <2> HIDE DEF names
  <2> QED BY <1>1, <1>2, <1>3, <2>1, <2>2 DEF Placed
<1>5. Moved(new, part, alloc, part', alloc', p)
  <2>1. \A m \in names : m[1] = p
    OBVIOUS
  <2> HIDE DEF names
  <2> QED BY <1>1, <1>2, <1>4, <2>1 DEF Moved, Held
<1>6. new = HeldIn(part', alloc')
  BY <1>5, NewPlaces
<1> QED BY <1>6 DEF new

\* Slots that share a pointer: where the free of the first one is no stray, the
\* others have no blocks (an empty request is given a block it does not take).
LEMMA SharedPointer ==
    ASSUME TypeOK, Partition(entries, Held, lost \cup kept), NEW p \in Procs,
           NEW i \in Slots, NEW j \in Slots, i # j,
           alloc[p][i].ptr = alloc[p][j].ptr, ~Strays(entries, alloc[p][i])
    PROVE  alloc[p][j].len = 0
<1>1. /\ <<p, i + 5>> \in PlaceNames /\ <<p, j + 5>> \in PlaceNames
      /\ Held[<<p, i + 5>>] = alloc[p][i] /\ Held[<<p, j + 5>>] = alloc[p][j]
      /\ <<p, i + 5>> # <<p, j + 5>>
  <2>1. Placed(Held, part, alloc, p)
    BY Places DEF Held
  <2>2. i + 5 # j + 5
    BY PartsAssumption DEF Slots
  <2> QED BY <2>1, <2>2, PlaceNamesOf DEF Placed
<1>2. DOMAIN Held = PlaceNames
  BY HeldIsFunction
<1> DEFINE b == alloc[p][j].ptr
<1>3. SUFFICES ASSUME alloc[p][j].len # 0 PROVE FALSE
  OBVIOUS
<1>4. Valid(alloc[p][i]) /\ Valid(alloc[p][j])
  BY <1>1, <1>2 DEF Partition
<1>5. b \in Blocks /\ b # NoBlock
  BY <1>3, <1>4 DEF Valid, Object
<1>6. \A o : Valid(o) /\ o.ptr = b /\ o.len # 0 => b \in Span(o)
  BY <1>5, TotalAssumption DEF Valid, Object, Span, Pages, Blocks
<1>7. b \in Span(alloc[p][j])
  BY <1>3, <1>4, <1>6
<1>8. entries[b].taken
  BY <1>1, <1>2, <1>5, <1>7 DEF Partition
<1>9. alloc[p][i].len # 0
  BY <1>5, <1>8 DEF Strays
<1>10. b \in Span(alloc[p][i])
  BY <1>4, <1>6, <1>9
<1> QED BY <1>1, <1>2, <1>7, <1>10 DEF Partition

LEMMA ProcessFreeKeeps ==
    ASSUME IInv, ~stray, NEW p \in Procs, NEW b \in Blocks, ProcessFree(p, b)
    PROVE  IInv'
<1> DEFINE joined == Joined(p, b)
           i == First(joined)
           o == alloc[p][i]
           k == <<p, i + 5>>
           names == {<<p, j + 5>> : j \in joined}
<1>1. /\ p \in live
      /\ joined # {}
      /\ writable' = [writable EXCEPT ![p].heap = @ \ Pages(o)]
      /\ alloc' = [alloc EXCEPT ![p] = [j \in Slots |-> IF j \in joined THEN Nothing ELSE @[j]]]
      /\ entries' = MarkFree(entries, b)
      /\ stray' = Strays(entries, o)
      /\ live' = live /\ part' = part /\ segments' = segments /\ lost' = lost /\ kept' = kept
  BY DEF ProcessFree
<1>2. /\ Partition(entries, Held, lost \cup kept) /\ TypeOK /\ b # NoBlock
      /\ AllGivenBack(live, Held) /\ Access(live, part, segments, alloc, writable)
  BY DEF IInv, Clean, Blocks, NoBlock
<1>3. joined \in SUBSET Slots /\ \A j \in Slots : j \in joined <=> alloc[p][j].ptr = b
  BY DEF Joined
<1> HIDE DEF joined
<1>4. i \in joined /\ i \in Slots /\ o.ptr = b
  <2>1. i \in joined
    BY <1>1, <1>3, FirstSlot
  <2> QED BY <1>3, <2>1
<1> HIDE DEF i
<1>5. \A j \in Slots : <<p, j + 5>> \in PlaceNames /\ Held[<<p, j + 5>>] = alloc[p][j]
  <2>1. Placed(Held, part, alloc, p)
    BY Places DEF Held
  <2> QED BY <2>1, PlaceNamesOf DEF Placed
<1>6. DOMAIN Held = PlaceNames
  BY HeldIsFunction
<1>7. o \in Object /\ Pages(o) \in SUBSET Nat
  BY <1>2, <1>4, PagesAreNumbers DEF TypeOK
<1>8. /\ writable'[p] = [program |-> writable[p].program, heap |-> writable[p].heap \ Pages(o)]
      /\ \A q \in Procs \ {p} : writable'[q] = writable[q]
      /\ writable' \in [Procs -> Areas]
  <2>1. writable \in [Procs -> Areas]
    BY <1>2 DEF TypeOK
  <2> HIDE DEF o
  <2>2. writable'[p] = [writable[p] EXCEPT !.heap = @ \ Pages(o)]
    BY <1>1, <2>1
  <2>3. /\ writable[p] \in Areas /\ \A q \in Procs \ {p} : writable'[q] = writable[q]
        /\ writable' = [q \in Procs |-> writable'[q]]
    BY <1>1, <2>1
  <2>4. writable'[p] = [program |-> writable[p].program, heap |-> writable[p].heap \ Pages(o)]
    BY <2>2, <2>3 DEF Areas
  <2>5. writable'[p] \in Areas
    BY <2>3, <2>4 DEF Areas
  <2>6. \A q \in Procs : writable'[q] \in Areas
    BY <2>1, <2>3, <2>5
  <2> QED BY <2>3, <2>4, <2>6
<1>9. TypeOK'
  <2>1. entries' \in [Blocks -> Entry]
    BY <1>1, <1>2, MarkFreeType DEF TypeOK, Tables
  <2>2. Nothing \in Object
    BY NothingThere DEF Valid
  <2>3. alloc' \in [Procs -> [Slots -> Object]]
    BY <1>1, <1>2, <2>2 DEF TypeOK
  <2>4. stray' \in BOOLEAN
    BY <1>1 DEF Strays
  <2> QED BY <1>1, <1>2, <1>8, <2>1, <2>3, <2>4 DEF TypeOK
<1>10. CASE stray'
  BY <1>9, <1>10 DEF IInv
<1>11. CASE ~stray'
  <2>1. ~Strays(entries, o)
    BY <1>1, <1>11
  <2>2. \A j \in joined \ {i} : alloc[p][j].len = 0
    BY <1>2, <1>3, <1>4, <2>1, SharedPointer
  <2>3. Partition(entries', Without(Held, {k}), lost \cup kept)
    <3>1. k \in PlaceNames /\ Held[k] = o
      BY <1>4, <1>5
    <3>2. Held[k].ptr # NoBlock /\ entries' = MarkFree(entries, Held[k].ptr)
          /\ ~Strays(entries, Held[k])
      BY <1>1, <1>2, <1>4, <2>1, <3>1
    <3> HIDE DEF k, o
    <3> QED BY <1>2, <1>6, <3>1, <3>2, HeldIsFunction, FreeOne
  <2>4. names \in SUBSET PlaceNames
    BY <1>3, <1>5
  <2>5. Without(Without(Held, {k}), names) = Without(Held, names)
    <3>1. k \in names
      BY <1>4
    <3> HIDE DEF k, names
    <3> QED BY <3>1 DEF Without
  <2>6. \A m \in names : Span(Without(Held, {k})[m]) = {}
    <3> SUFFICES ASSUME NEW j \in joined PROVE Span(Without(Held, {k})[<<p, j + 5>>]) = {}
      OBVIOUS
    <3>1. CASE j = i
      BY <1>4, <1>5, <1>6, <3>1, NothingThere DEF Without
    <3>2. CASE j # i
      <4>1. j \in Slots /\ alloc[p][j].len = 0 /\ Held[<<p, j + 5>>] = alloc[p][j]
        BY <1>3, <1>5, <2>2, <3>2
      <4>2. Valid(alloc[p][j])
        BY <1>2, <1>5, <1>6, <4>1 DEF Partition
      <4>3. Span(alloc[p][j]) = {}
        BY <4>1, <4>2, EmptyThere
      <4>4. <<p, j + 5>> \in PlaceNames
        BY <1>5, <4>1
      <4> HIDE DEF k
      <4> QED BY <1>6, <4>1, <4>3, <4>4, NothingThere DEF Without
    <3> QED BY <3>1, <3>2
  <2>7. Partition(entries', Without(Held, names), lost' \cup kept')
    <3> DEFINE left == Without(Held, {k})
    <3>1. names \in SUBSET DOMAIN left
      BY <1>6, <2>4 DEF Without
    <3>2. (lost \cup kept) \cup UNION {Span(left[m]) : m \in names} = lost' \cup kept'
      <4> HIDE DEF left, names
      <4>1. UNION {Span(left[m]) : m \in names} = {}
        BY <2>6 DEF left
      <4> QED BY <1>1, <4>1
    <3> HIDE DEF names, left
    <3>3. Partition(entries', left, lost \cup kept)
      BY <2>3 DEF left
    <3>4. Partition(entries', Without(left, names), lost' \cup kept')
      BY <3>1, <3>2, <3>3, LoseAll
    <3> QED BY <2>5, <3>4 DEF left
  <2>8. HeldIn(part', alloc') = Without(Held, names)
    BY <1>1, <1>2, <1>3, SlotsEmptied
  <2>9. Access(live', part', segments', alloc', writable')
    <3> SUFFICES ASSUME NEW q \in Procs
                 PROVE  /\ writable'[q].program =
                              IF q \notin live' THEN {} ELSE ProgramArea(part'[q], segments'[q])
                        /\ writable'[q].heap = HeapArea(alloc'[q])
      BY DEF Access
    <3>1. CASE q = p
      <4>1. \A j \in Slots : alloc'[p][j] = IF j \in joined THEN Nothing ELSE alloc[p][j]
        BY <1>1, <1>2 DEF TypeOK
      <4>2. \A j \in Slots \ {i} : Pages(alloc[p][j]) \cap Pages(o) = {}
        <5> SUFFICES ASSUME NEW j \in Slots \ {i} PROVE Pages(alloc[p][j]) \cap Pages(o) = {}
          OBVIOUS
        <5>1. <<p, j + 5>> # k
          BY <1>4, PartsAssumption DEF Slots
        <5> DEFINE h == <<p, j + 5>>
        <5>0. h \in PlaceNames /\ k \in PlaceNames /\ Held[h] = alloc[p][j] /\ Held[k] = o
          BY <1>4, <1>5
        <5>2. Span(alloc[p][j]) \cap Span(o) = {}
          <6> HIDE DEF h, k, o
          <6>1. h # k
            BY <5>1 DEF h
          <6> QED BY <1>2, <1>6, <5>0, <6>1 DEF Partition
        <5>3. alloc[p][j] \in Object
          BY <1>2 DEF TypeOK
        <5> QED BY <1>7, <5>2, <5>3, PagesDisjoint
      <4>3. \A j \in joined \ {i} : Pages(alloc[p][j]) = {}
        <5> SUFFICES ASSUME NEW j \in joined \ {i} PROVE Pages(alloc[p][j]) = {}
          OBVIOUS
        <5>1. Valid(alloc[p][j])
          BY <1>2, <1>3, <1>5, <1>6 DEF Partition
        <5> QED BY <2>2, <5>1, EmptyThere
      <4>4. \A j \in Slots : Pages(alloc'[p][j]) = Pages(alloc[p][j]) \ Pages(o)
        BY <1>3, <1>4, <4>1, <4>2, <4>3, NothingThere
      <4>5. HeapArea(alloc'[p]) = HeapArea(alloc[p]) \ Pages(o)
        BY <4>4 DEF HeapArea
      <4>6. /\ writable[p].heap = HeapArea(alloc[p])
            /\ writable[p].program = IF p \notin live THEN {} ELSE ProgramArea(part[p], segments[p])
        BY <1>2 DEF Access
      <4> HIDE DEF o
      <4> QED BY <1>1, <1>8, <3>1, <4>5, <4>6
    <3>2. CASE q # p
      <4>1. alloc'[q] = alloc[q] /\ writable'[q] = writable[q]
        BY <1>1, <1>2, <1>8, <3>2 DEF TypeOK
      <4> QED BY <1>1, <1>2, <4>1 DEF Access
    <3> QED BY <3>1, <3>2
  <2>10. AllGivenBack(live', HeldIn(part', alloc'))
    <3>1. \A m \in PlaceNames : Without(Held, names)[m] = IF m \in names THEN Nothing ELSE Held[m]
      BY <1>6 DEF Without
    <3> QED BY <1>1, <1>2, <2>8, <3>1 DEF AllGivenBack
  <2>11. Partition(entries', HeldIn(part', alloc'), lost' \cup kept')
    BY <2>7, <2>8
  <2> QED BY <1>9, <2>9, <2>10, <2>11, Finish
<1> QED BY <1>10, <1>11

-----------------------------------------------------------------------------
(* The end of a process (process.c:124-166, 189-222).                        *)

\* The objects process_terminate frees, and the places of p they come from.
LEMMA FreedByTerminate ==
    ASSUME TypeOK, Partition(entries, Held, lost \cup kept), NEW p \in Procs,
           NEW objs, objs = Allocations(p) \o GivenBack(p),
           \A i \in DOMAIN objs : ~Strays(entries, objs[i])
    PROVE  \E keys : /\ ToBeFreed(entries, objs, keys, Held, lost \cup kept)
                     /\ {keys[i] : i \in 1..Len(objs)} =
                           {<<p, 2>>, <<p, 3>>, <<p, 4>>, <<p, 5>>} \cup {<<p, i + 5>> : i \in Slots}
<1> DEFINE n == AllocSlots + 4
           number(i) == IF i <= AllocSlots THEN i + 5
                        ELSE IF i = AllocSlots + 1 THEN 3
                        ELSE IF i = AllocSlots + 2 THEN 2 ELSE i - AllocSlots + 1
           keys == [i \in 1..n |-> <<p, number(i)>>]
           first(i) == First(Joined(p, alloc[p][i].ptr))
<1>1. part[p] \in [Parts -> Object] /\ alloc[p] \in [Slots -> Object] /\ AllocSlots \in Nat \ {0}
  BY PartsAssumption DEF TypeOK
<1>2. /\ Len(objs) = n
      /\ \A i \in 1..n : i \in DOMAIN objs /\ objs[i] = IF i <= AllocSlots THEN Allocations(p)[i]
                                                        ELSE GivenBack(p)[i - AllocSlots]
  <2>1. Allocations(p) \in Seq(Object) /\ Len(Allocations(p)) = AllocSlots
    <3>1. Allocations(p) \in [1..AllocSlots -> Object]
      BY <1>1, NothingThere DEF Allocations, Slots, Valid
    <3> QED BY <1>1, <3>1
  <2>2. GivenBack(p) \in Seq(Object) /\ Len(GivenBack(p)) = 4
    BY <1>1 DEF GivenBack, Parts
  <2>3. /\ objs \in Seq(Object) /\ Len(objs) = Len(Allocations(p)) + Len(GivenBack(p))
        /\ \A i \in 1..(Len(Allocations(p)) + Len(GivenBack(p))) :
              objs[i] = IF i <= Len(Allocations(p)) THEN Allocations(p)[i]
                        ELSE GivenBack(p)[i - Len(Allocations(p))]
    BY <2>1, <2>2, ConcatProperties
  <2>4. DOMAIN objs = 1..Len(objs)
    BY <2>3
  <2>5. Len(objs) = n
    BY <2>1, <2>2, <2>3
  <2> HIDE DEF n
  <2>6. Len(Allocations(p)) + Len(GivenBack(p)) = n
    BY <2>3, <2>5
  <2> QED BY <2>1, <2>3, <2>4, <2>5, <2>6
<1>3. \A i \in 1..n : \/ i \in Slots \/ i = AllocSlots + 1 \/ i = AllocSlots + 2
                      \/ i = AllocSlots + 3 \/ i = AllocSlots + 4
  BY <1>1 DEF Slots
<1>4. /\ \A j \in Slots : <<p, j + 5>> \in PlaceNames /\ Held[<<p, j + 5>>] = alloc[p][j]
      /\ <<p, 2>> \in PlaceNames /\ Held[<<p, 2>>] = part[p]["elf"]
      /\ <<p, 3>> \in PlaceNames /\ Held[<<p, 3>>] = part[p]["image"]
      /\ <<p, 4>> \in PlaceNames /\ Held[<<p, 4>>] = part[p]["stack"]
      /\ <<p, 5>> \in PlaceNames /\ Held[<<p, 5>>] = part[p]["task"]
  <2>1. Placed(Held, part, alloc, p)
    BY Places DEF Held
  <2> QED BY <2>1, PlaceNamesOf DEF Placed
<1>5. /\ \A i \in Slots : i \in 1..n /\ i <= AllocSlots /\ number(i) = i + 5
      /\ AllocSlots + 1 \in 1..n /\ number(AllocSlots + 1) = 3
      /\ AllocSlots + 2 \in 1..n /\ number(AllocSlots + 2) = 2
      /\ AllocSlots + 3 \in 1..n /\ number(AllocSlots + 3) = 4
      /\ AllocSlots + 4 \in 1..n /\ number(AllocSlots + 4) = 5
  BY <1>1 DEF Slots
<1>6. \A i \in 1..n : keys[i] = <<p, number(i)>>
  OBVIOUS
<1>7. \A i, j \in 1..n : i # j => keys[i] # keys[j]
  <2>1. \A i, j \in 1..n : i # j => number(i) # number(j)
    BY <1>1
  <2> HIDE DEF number, keys, n
  <2> QED BY <1>6, <2>1
<1>8. {keys[i] : i \in 1..n} =
         {<<p, 2>>, <<p, 3>>, <<p, 4>>, <<p, 5>>} \cup {<<p, i + 5>> : i \in Slots}
  <2> HIDE DEF number, keys, n
  <2>1. \A i \in 1..n : \/ keys[i] = <<p, 2>> \/ keys[i] = <<p, 3>> \/ keys[i] = <<p, 4>>
                        \/ keys[i] = <<p, 5>>
                        \/ i \in Slots /\ keys[i] = <<p, i + 5>>
    BY <1>3, <1>5, <1>6
  <2>2. /\ \E i \in 1..n : keys[i] = <<p, 2>>
        /\ \E i \in 1..n : keys[i] = <<p, 3>>
        /\ \E i \in 1..n : keys[i] = <<p, 4>>
        /\ \E i \in 1..n : keys[i] = <<p, 5>>
        /\ \A j \in Slots : \E i \in 1..n : keys[i] = <<p, j + 5>>
    BY <1>5, <1>6
  <2> DEFINE slots == {<<p, i + 5>> : i \in Slots}
  <2>3. \A x : x \in slots <=> \E i \in Slots : x = <<p, i + 5>>
    OBVIOUS
  <2> HIDE DEF slots
  <2>4. \A i \in 1..n : keys[i] \in {<<p, 2>>, <<p, 3>>, <<p, 4>>, <<p, 5>>} \cup slots
    BY <2>1, <2>3
  <2>5. ASSUME NEW x \in {<<p, 2>>, <<p, 3>>, <<p, 4>>, <<p, 5>>} \cup slots
        PROVE  \E i \in 1..n : keys[i] = x
    <3>1. \/ x = <<p, 2>> \/ x = <<p, 3>> \/ x = <<p, 4>> \/ x = <<p, 5>>
          \/ \E j \in Slots : x = <<p, j + 5>>
      BY <2>3
    <3>2. ASSUME NEW j \in Slots, x = <<p, j + 5>> PROVE \E i \in 1..n : keys[i] = x
      BY <2>2, <3>2
    <3>3. CASE x = <<p, 2>>
      BY <2>2, <3>3
    <3>4. CASE x = <<p, 3>>
      BY <2>2, <3>4
    <3>5. CASE x = <<p, 4>>
      BY <2>2, <3>5
    <3>6. CASE x = <<p, 5>>
      BY <2>2, <3>6
    <3> QED BY <3>1, <3>2, <3>3, <3>4, <3>5, <3>6
  <2>6. {keys[i] : i \in 1..n} = {<<p, 2>>, <<p, 3>>, <<p, 4>>, <<p, 5>>} \cup slots
    BY <2>4, <2>5
  <2> QED BY <2>6 DEF slots
<1>9. \A i \in Slots : /\ first(i) \in Slots /\ alloc[p][first(i)].ptr = alloc[p][i].ptr
                       /\ first(first(i)) = first(i)
  <2> SUFFICES ASSUME NEW i \in Slots
               PROVE  /\ first(i) \in Slots /\ alloc[p][first(i)].ptr = alloc[p][i].ptr
                      /\ first(first(i)) = first(i)
    OBVIOUS
  <2>1. Joined(p, alloc[p][i].ptr) \in SUBSET Slots /\ i \in Joined(p, alloc[p][i].ptr)
    BY DEF Joined
  <2>2. first(i) \in Joined(p, alloc[p][i].ptr)
    BY <2>1, FirstSlot
  <2>3. first(i) \in Slots /\ alloc[p][first(i)].ptr = alloc[p][i].ptr
    BY <2>2 DEF Joined
  <2> QED BY <2>3
<1>10. ASSUME NEW i \in Slots
       PROVE  objs[i] = alloc[p][i] \/ (objs[i] = Nothing /\ alloc[p][i].len = 0)
  <2>1. objs[i] = Allocations(p)[i]
    BY <1>2, <1>5
  <2>2. \A j \in Slots : Allocations(p)[j] = IF j = first(j) THEN alloc[p][j] ELSE Nothing
    BY DEF Allocations
  <2> DEFINE f == first(i)
  <2>3. f \in Slots /\ alloc[p][f].ptr = alloc[p][i].ptr /\ first(f) = f
    BY <1>9
  <2> HIDE DEF f, first
  <2>4. f \in 1..n /\ f <= AllocSlots
    BY <1>5, <2>3
  <2>5. objs[f] = alloc[p][f] /\ ~Strays(entries, alloc[p][f])
    BY <1>2, <2>2, <2>3, <2>4
  <2>6. CASE f = i
    BY <2>3, <2>5, <2>6
  <2>7. CASE f # i
    <3>1. alloc[p][i].len = 0
      BY <2>3, <2>5, <2>7, SharedPointer
    <3>2. objs[i] = Nothing
      BY <2>1, <2>2, <2>7 DEF f
    <3> QED BY <3>1, <3>2
  <2> QED BY <2>6, <2>7
<1>11. \A i \in 1..n : /\ keys[i] \in PlaceNames
                       /\ objs[i] = Held[keys[i]] \/ (objs[i] = Nothing /\ Held[keys[i]].len = 0)
  <2> SUFFICES ASSUME NEW i \in 1..n
               PROVE  /\ <<p, number(i)>> \in PlaceNames
                      /\ \/ objs[i] = Held[<<p, number(i)>>]
                         \/ objs[i] = Nothing /\ Held[<<p, number(i)>>].len = 0
    BY <1>6
  <2> HIDE DEF keys
  <2>1. CASE i \in Slots
    <3> HIDE DEF number, n
    <3> QED BY <1>4, <1>5, <1>10, <2>1
  <2>2. /\ GivenBack(p)[1] = part[p]["image"] /\ GivenBack(p)[2] = part[p]["elf"]
        /\ GivenBack(p)[3] = part[p]["stack"] /\ GivenBack(p)[4] = part[p]["task"]
    BY DEF GivenBack
  <2>3. /\ (AllocSlots + 1) - AllocSlots = 1 /\ (AllocSlots + 2) - AllocSlots = 2
        /\ (AllocSlots + 3) - AllocSlots = 3 /\ (AllocSlots + 4) - AllocSlots = 4
        /\ ~(AllocSlots + 1 <= AllocSlots) /\ ~(AllocSlots + 2 <= AllocSlots)
        /\ ~(AllocSlots + 3 <= AllocSlots) /\ ~(AllocSlots + 4 <= AllocSlots)
    BY <1>1
  <2> HIDE DEF number, n
  <2>4. /\ i = AllocSlots + 1 => objs[i] = part[p]["image"]
        /\ i = AllocSlots + 2 => objs[i] = part[p]["elf"]
        /\ i = AllocSlots + 3 => objs[i] = part[p]["stack"]
        /\ i = AllocSlots + 4 => objs[i] = part[p]["task"]
    BY <1>2, <2>2, <2>3
  <2> QED BY <1>3, <1>4, <1>5, <2>1, <2>4
<1>12. DOMAIN Held = PlaceNames /\ Len(objs) \in Nat
  BY <1>1, <1>2, HeldIsFunction
<1> HIDE DEF keys, n
<1>13. ToBeFreed(entries, objs, keys, Held, lost \cup kept)
  BY <1>2, <1>7, <1>11, <1>12, HeldIsFunction DEF ToBeFreed
<1> QED BY <1>2, <1>8, <1>13

LEMMA TerminateKeeps ==
    ASSUME IInv, ~stray, NEW p \in Procs, Terminate(p) PROVE IInv'
<1> DEFINE objs == Allocations(p) \o GivenBack(p)
           names == {<<p, 2>>, <<p, 3>>, <<p, 4>>, <<p, 5>>} \cup {<<p, i + 5>> : i \in Slots}
           own == <<p, 1>>
           freed == Without(Held, names)
           none == Without(freed, {own})
<1>1. /\ p \in live
      /\ entries' = FreeAll(entries, objs)
      /\ stray' = (\E i \in DOMAIN objs : Strays(entries, objs[i]))
      /\ lost' = lost \cup Span(part[p]["process"])
      /\ live' = live \ {p}
      /\ part' = [part EXCEPT ![p] = [x \in Parts |-> Nothing]]
      /\ segments' = [segments EXCEPT ![p] = {}]
      /\ alloc' = [alloc EXCEPT ![p] = [i \in Slots |-> Nothing]]
      /\ writable' = [writable EXCEPT ![p] = [program |-> {}, heap |-> {}]]
      /\ kept' = kept
  BY DEF Terminate
<1>2. /\ Partition(entries, Held, lost \cup kept) /\ TypeOK
      /\ AllGivenBack(live, Held) /\ Access(live, part, segments, alloc, writable)
  BY DEF IInv, Clean
<1>3. Len(objs) \in Nat
  <2>1. part[p] \in [Parts -> Object] /\ alloc[p] \in [Slots -> Object] /\ AllocSlots \in Nat \ {0}
    BY <1>2, PartsAssumption DEF TypeOK
  <2>2. Allocations(p) \in [1..AllocSlots -> Object]
    BY <2>1, NothingThere DEF Allocations, Slots, Valid
  <2>3. Allocations(p) \in Seq(Object)
    BY <2>1, <2>2
  <2>4. GivenBack(p) \in Seq(Object)
    BY <2>1 DEF GivenBack, Parts
  <2>5. objs \in Seq(Object)
    BY <2>3, <2>4, ConcatProperties
  <2> HIDE DEF objs
  <2> QED BY <2>5
<1> HIDE DEF objs
<1>4. TypeOK'
  <2>1. entries' \in [Blocks -> Entry]
    <3>1. entries \in Tables
      BY <1>2 DEF TypeOK, Tables
    <3>2. PICK after \in [0..Len(objs) -> Tables] : FreeAll(entries, objs) = after[Len(objs)]
      BY <1>3, <3>1, FreeTurns
    <3> QED BY <1>1, <1>3, <3>2 DEF Tables
  <2>2. Nothing \in Object
    BY NothingThere DEF Valid
  <2>3. part' \in [Procs -> [Parts -> Object]] /\ alloc' \in [Procs -> [Slots -> Object]]
    BY <1>1, <1>2, <2>2 DEF TypeOK
  <2>4. /\ segments' \in [Procs -> SUBSET Nat] /\ writable' \in [Procs -> Areas]
        /\ live' \subseteq Procs
    BY <1>1, <1>2 DEF TypeOK, Areas
  <2>5. lost' \subseteq Blocks /\ kept' \subseteq Blocks /\ stray' \in BOOLEAN
    BY <1>1, <1>2 DEF TypeOK, Span
  <2> QED BY <2>1, <2>3, <2>4, <2>5 DEF TypeOK
<1>5. CASE stray'
  BY <1>4, <1>5 DEF IInv
<1>6. CASE ~stray'
  <2>1. \A i \in DOMAIN objs : ~Strays(entries, objs[i])
    BY <1>1, <1>6
  <2>2. Partition(entries', freed, lost \cup kept)
    <3>1. PICK keys : /\ ToBeFreed(entries, objs, keys, Held, lost \cup kept)
                      /\ {keys[i] : i \in 1..Len(objs)} = names
      BY <1>2, <2>1, FreedByTerminate DEF objs
    <3> HIDE DEF names
    <3> QED BY <1>1, <3>1, FreeAllKeeps
  <2>3. /\ DOMAIN freed = PlaceNames
        /\ \A m \in PlaceNames : freed[m] = IF m \in names THEN Nothing ELSE Held[m]
    BY HeldIsFunction DEF Without
  <2>4. /\ own \in PlaceNames /\ own \notin names /\ Held[own] = part[p]["process"]
        /\ Held[<<p, 0>>] = Nothing
    <3>1. Placed(Held, part, alloc, p)
      BY Places DEF Held
    <3>2. \A i \in Slots : i + 5 # 1
      BY PartsAssumption DEF Slots
    <3>3. own \notin names
      BY <3>2
    <3> QED BY <3>1, <3>3, PlaceNamesOf DEF Placed
  <2> HIDE DEF freed, names
  <2>5. /\ none = [m \in PlaceNames |-> none[m]]
        /\ \A m \in PlaceNames : none[m] = IF m = own \/ m \in names THEN Nothing ELSE Held[m]
    BY <2>3 DEF Without
  <2>6. Partition(entries', none, lost' \cup kept')
    <3>1. (lost \cup kept) \cup UNION {Span(freed[m]) : m \in {own}} = lost' \cup kept'
      <4>1. freed[own] = part[p]["process"]
        BY <2>3, <2>4
      <4> HIDE DEF own
      <4> QED BY <1>1, <4>1
    <3>2. {own} \in SUBSET DOMAIN freed
      BY <2>3, <2>4
    <3> HIDE DEF own
    <3> QED BY <2>2, <3>1, <3>2, LoseAll
  <2> HIDE DEF none
  <2>7. /\ part'[p] = [x \in Parts |-> Nothing] /\ alloc'[p] = [i \in Slots |-> Nothing]
        /\ writable'[p].program = {} /\ writable'[p].heap = {}
        /\ \A q \in Procs \ {p} : /\ part'[q] = part[q] /\ alloc'[q] = alloc[q]
                                  /\ segments'[q] = segments[q] /\ writable'[q] = writable[q]
    BY <1>1, <1>2 DEF TypeOK
  <2>8. \A m \in PlaceNames : m[1] = p => none[m] = Nothing
    <3> SUFFICES ASSUME NEW m \in PlaceNames, m[1] = p PROVE none[m] = Nothing
      OBVIOUS
    <3>1. PICK i \in 0..(5 + AllocSlots) : m = <<p, i>>
      BY DEF PlaceNames
    <3>2. i = 0 \/ i = 1 \/ i = 2 \/ i = 3 \/ i = 4 \/ i = 5 \/ (i - 5 \in Slots /\ i = (i - 5) + 5)
      BY PartsAssumption DEF Slots
    <3>3. i # 0 /\ i # 1 => m \in names
      BY <3>1, <3>2 DEF names
    <3>4. i = 0 => Held[m] = Nothing
      BY <2>4, <3>1
    <3>5. i = 1 => m = own
      BY <3>1
    <3> HIDE DEF own
    <3> QED BY <2>5, <3>3, <3>4, <3>5
  <2>9. \A m \in PlaceNames : m[1] # p => none[m] = Held[m]
    <3>1. \A m \in names : m[1] = p
      BY DEF names
    <3> QED BY <2>5, <3>1
  <2>10. Placed(none, part', alloc', p)
    <3>1. /\ <<p, 0>> \in PlaceNames /\ <<p, 1>> \in PlaceNames /\ <<p, 2>> \in PlaceNames
          /\ <<p, 3>> \in PlaceNames /\ <<p, 4>> \in PlaceNames /\ <<p, 5>> \in PlaceNames
          /\ \A i \in Slots : <<p, i + 5>> \in PlaceNames
      BY PlaceNamesOf
    <3> QED BY <2>7, <2>8, <3>1 DEF Placed, Parts
  <2>11. none = HeldIn(part', alloc')
    <3>1. Moved(none, part, alloc, part', alloc', p)
      BY <2>5, <2>7, <2>9, <2>10 DEF Moved, Held
    <3> QED BY <3>1, NewPlaces
  <2>12. Access(live', part', segments', alloc', writable')
    <3> SUFFICES ASSUME NEW q \in Procs
                 PROVE  /\ writable'[q].program =
                              IF q \notin live' THEN {} ELSE ProgramArea(part'[q], segments'[q])
                        /\ writable'[q].heap = HeapArea(alloc'[q])
      BY DEF Access
    <3>1. CASE q = p
      <4>1. HeapArea(alloc'[p]) = {}
        BY <2>7, NothingThere DEF HeapArea
      <4> QED BY <1>1, <2>7, <3>1, <4>1
    <3>2. CASE q # p
      BY <1>1, <1>2, <2>7, <3>2 DEF Access
    <3> QED BY <3>1, <3>2
  <2>13. AllGivenBack(live', none)
    <3>1. \A m \in PlaceNames : m[1] \notin live' => m[1] = p \/ m[1] \notin live
      BY <1>1
    <3> QED BY <1>2, <2>8, <2>9, <3>1 DEF AllGivenBack
  <2> QED BY <1>4, <2>6, <2>11, <2>12, <2>13, Finish
<1> QED BY <1>5, <1>6

-----------------------------------------------------------------------------
(* The theorems.                                                             *)

\* The inductive invariant of the memory of processes.
THEOREM MemoryInvariant == Spec => []IInv
<1>1. IInv /\ [Next]_vars => IInv'
  <2>1. ASSUME IInv, UNCHANGED vars PROVE IInv'
    <3>1. /\ entries' = entries /\ live' = live /\ part' = part /\ segments' = segments
          /\ alloc' = alloc /\ writable' = writable /\ lost' = lost /\ kept' = kept
          /\ stray' = stray
      BY <2>1 DEF vars
    <3>2. TypeOK'
      BY <2>1, <3>1 DEF IInv, TypeOK
    <3>3. HeldIn(part', alloc') = Held
      BY <3>1 DEF Held
    <3>4. CASE stray'
      BY <3>2, <3>4 DEF IInv
    <3>5. CASE ~stray'
      <4>1. Clean
        BY <2>1, <3>1, <3>5 DEF IInv
      <4>2. Access(live', part', segments', alloc', writable') /\ AllGivenBack(live', Held)
        BY <3>1, <4>1 DEF Clean
      <4>3. Partition(entries', Held, lost' \cup kept')
        BY <3>1, <4>1 DEF Clean
      <4> QED BY <3>2, <3>3, <4>2, <4>3, Finish
    <3> QED BY <3>4, <3>5
  <2>2. ASSUME IInv, Next PROVE IInv'
    <3>1. ~stray
      BY <2>2 DEF Next
    <3>2. PICK p \in Procs :
            \/ FailedOpen(p)
            \/ \E n \in ImageBlocks :
                  \/ \E offsets \in Segments : LoadElf(p, n, offsets)
                  \/ LoadBinary(p, n)
                  \/ FailedRead(p, n) \/ FailedBinary(p, n) \/ FailedStack(p, n)
                  \/ FailedMap(p, n)
            \/ \E bytes \in Sizes : ProcessMalloc(p, bytes)
            \/ \E b \in Blocks : ProcessFree(p, b)
            \/ Terminate(p)
      BY <2>2 DEF Next
    <3> QED BY <2>2, <3>1, <3>2, LoadElfKeeps, LoadBinaryKeeps, FailedOpenKeeps,
               FailedReadKeeps, FailedBinaryKeeps, FailedStackKeeps, FailedMapKeeps,
               ProcessMallocKeeps, ProcessFreeKeeps, TerminateKeeps
  <2> QED BY <2>1, <2>2
<1> QED BY InitInv, <1>1, PTL DEF Spec

\* Types, for every number of processes, slots and blocks.
THEOREM MemoryTypeCorrect == Spec => []TypeOK
<1>1. IInv => TypeOK
  BY DEF IInv
<1> QED BY MemoryInvariant, <1>1, PTL

\* No two heap objects of processes share a block, and none has a lost block,
\* until the free of an empty object frees somebody's (process.c:59-133, 252-374,
\* 479-543).
THEOREM ObjectsAreDisjoint == Spec => []ObjectsDisjoint
<1>1. IInv => ObjectsDisjoint
  <2> SUFFICES ASSUME IInv, ~stray
               PROVE  /\ \A m, n \in Names : m # n => Span(ObjectOf(m)) \cap Span(ObjectOf(n)) = {}
                      /\ \A n \in Names : Span(ObjectOf(n)) \cap (lost \cup kept) = {}
    BY DEF ObjectsDisjoint
  <2>1. \A n \in Names : n \in PlaceNames /\ ObjectOf(n) = Held[n]
    BY ObjectIsHeld DEF IInv
  <2>2. DOMAIN Held = PlaceNames
    BY HeldIsFunction
  <2> QED BY <2>1, <2>2 DEF IInv, Clean, Partition
<1> QED BY MemoryInvariant, <1>1, PTL

\* The heap's table is exactly the objects of processes and what loads and exits
\* are known to lose or keep (process.c:124-166, 299-356, 540).
THEOREM HeapAccountsExactly == Spec => []TableExact
<1>1. IInv => TableExact
  <2> SUFFICES ASSUME IInv, ~stray, NEW b \in Blocks
               PROVE  entries[b].taken <=>
                         b \in lost \cup kept \/ \E n \in Names : b \in Span(ObjectOf(n))
    BY DEF TableExact
  <2>1. entries[b].taken <=> b \in lost \cup kept \/ \E n \in PlaceNames : b \in Span(Held[n])
    BY HeldIsFunction DEF IInv, Clean, Partition
  <2>2. ASSUME NEW n \in PlaceNames, b \in Span(Held[n])
        PROVE  \E m \in Names : b \in Span(ObjectOf(m))
    <3>1. PICK p \in Procs, i \in 0..(5 + AllocSlots) : n = <<p, i>>
      BY DEF PlaceNames
    <3>2. i # 0
      <4>1. Placed(Held, part, alloc, p)
        BY Places DEF Held
      <4> QED BY <2>2, <3>1, <4>1, NothingThere DEF Placed
    <3>3. n \in Names
      BY <3>1, <3>2, PartsAssumption DEF Names
    <3> QED BY <2>2, <3>3, ObjectIsHeld DEF IInv
  <2>3. ASSUME NEW m \in Names, b \in Span(ObjectOf(m))
        PROVE  \E n \in PlaceNames : b \in Span(Held[n])
    BY <2>3, ObjectIsHeld DEF IInv
  <2> QED BY <2>1, <2>2, <2>3
<1> QED BY MemoryInvariant, <1>1, PTL

\* The pages a process can write are those of its writable segments, its stack
\* and its allocations, whatever was allocated and freed in which order
\* (process.c:59-122, 276-297, 374-433).
THEOREM AccessIsExact == Spec => []AccessExact
<1>1. IInv => AccessExact
  <2> SUFFICES ASSUME IInv, ~stray, NEW p \in Procs
               PROVE  /\ writable[p].program =
                            IF p \notin live THEN {}
                            ELSE SegmentPages(part[p]["image"], segments[p])
                                    \cup Pages(part[p]["stack"])
                      /\ writable[p].heap = UNION {Pages(alloc[p][i]) : i \in Slots}
    BY DEF AccessExact
  <2>1. Access(live, part, segments, alloc, writable)
    BY DEF IInv, Clean
  <2> QED BY <2>1 DEF Access, ProgramArea, HeapArea
<1> QED BY MemoryInvariant, <1>1, PTL
=============================================================================
