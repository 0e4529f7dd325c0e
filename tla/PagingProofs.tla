---------------------------- MODULE PagingProofs ----------------------------
(***************************************************************************)
(* The page directory of a task is one flat array of pages, for every size  *)
(* of page and table, wherever the heap puts the tables, and for all the     *)
(* objects a kernel may map.                                                *)
(***************************************************************************)
EXTENDS Paging, WellFoundedInduction, TLAPS

N == EntriesPerTable * EntriesPerTable
Numbers == 0..(N - 1)
TableBytes == EntriesPerTable * PageSize

-----------------------------------------------------------------------------
(* Arithmetic: pages, tables and the whole space are divided without rest.   *)

LEMMA Division ==
    ASSUME NEW x \in Int, NEW n \in Nat \ {0}
    PROVE  x \div n \in Int /\ x % n \in 0..(n - 1) /\ x = n * (x \div n) + (x % n)
  OBVIOUS

\* Quotient and rest are the only ones there are.
LEMMA Quotient ==
    ASSUME NEW n \in Nat \ {0}, NEW q \in Int, NEW r \in 0..(n - 1)
    PROVE  (n * q + r) \div n = q /\ (n * q + r) % n = r
<1> DEFINE x == n * q + r
           p == x \div n
           s == x % n
<1>1. p \in Int /\ s \in 0..(n - 1) /\ x = n * p + s
  BY Division
<1>2. n * (p - q) = r - s
  BY <1>1
<1> HIDE DEF p, s
<1>3. p = q
  <2>1. CASE p > q
    <3>1. n * (p - q) >= n
      BY <1>1, <2>1
    <3> QED BY <1>1, <1>2, <3>1
  <2>2. CASE p < q
    <3>1. n * (q - p) >= n
      BY <1>1, <2>2
    <3>2. n * (q - p) = s - r
      BY <1>1, <1>2
    <3> QED BY <1>1, <3>1, <3>2
  <2> QED BY <1>1, <2>1, <2>2
<1>4. s = r
  BY <1>1, <1>3
<1> QED BY <1>3, <1>4 DEF p, s

LEMMA Sizes ==
    /\ PageSize \in Nat \ {0} /\ EntriesPerTable \in Nat \ {0}
    /\ N \in Nat \ {0} /\ TableBytes \in Nat \ {0}
    /\ Word = N * PageSize /\ Word = EntriesPerTable * TableBytes /\ Word \in Nat \ {0}
<1>1. PageSize \in Nat \ {0} /\ EntriesPerTable \in Nat \ {0}
  BY PagingAssumption
<1>2. N \in Nat \ {0} /\ TableBytes \in Nat \ {0}
  BY <1>1 DEF N, TableBytes
<1>3. Word = N * PageSize /\ Word = EntriesPerTable * TableBytes /\ Word \in Nat \ {0}
  BY <1>1 DEF N, TableBytes, Word
<1> QED BY <1>1, <1>2, <1>3

\* An address in page n, by its offset there.
LEMMA InPage ==
    ASSUME NEW n \in Nat, NEW r \in 0..(PageSize - 1)
    PROVE  /\ n * PageSize + r \in Nat
           /\ (n * PageSize + r) \div PageSize = n
           /\ (n * PageSize + r) % PageSize = r
<1>1. n * PageSize = PageSize * n /\ PageSize * n \in Nat
  BY Sizes
<1>2. PageSize \in Nat \ {0}
  BY Sizes
<1>3. (PageSize * n + r) \div PageSize = n /\ (PageSize * n + r) % PageSize = r
  BY <1>2, Quotient
<1> QED BY <1>1, <1>3

LEMMA PageStart ==
    ASSUME NEW n \in Nat
    PROVE  /\ n * PageSize \in Nat
           /\ (n * PageSize) \div PageSize = n
           /\ (n * PageSize) % PageSize = 0
<1>1. 0 \in 0..(PageSize - 1)
  BY Sizes
<1>2. n * PageSize + 0 = n * PageSize
  BY Sizes
<1> QED BY <1>1, <1>2, InPage

\* Every address is in a page of its own.
LEMMA SplitAddress ==
    ASSUME NEW x \in Nat
    PROVE  /\ x \div PageSize \in Nat /\ x % PageSize \in 0..(PageSize - 1)
           /\ x = (x \div PageSize) * PageSize + (x % PageSize)
<1> DEFINE q == x \div PageSize
           r == x % PageSize
<1>1. q \in Int /\ r \in 0..(PageSize - 1) /\ x = PageSize * q + r
  BY Sizes, Division
<1> HIDE DEF q, r
<1>2. q >= 0
  <2>1. CASE q < 0
    <3>1. PageSize * q <= -PageSize
      BY <1>1, <2>1, Sizes
    <3> QED BY <1>1, <3>1, Sizes
  <2> QED BY <1>1, <2>1
<1>3. PageSize * q = q * PageSize
  BY <1>1, Sizes
<1> QED BY <1>1, <1>2, <1>3 DEF q, r

\* The pages of the address space are the numbers below N.
LEMMA BelowWord ==
    ASSUME NEW n \in Nat, NEW r \in 0..(PageSize - 1)
    PROVE  (n * PageSize + r < Word) <=> (n < N)
<1>1. CASE n < N
  <2>1. n + 1 <= N
    BY <1>1, Sizes
  <2>2. (n + 1) * PageSize <= N * PageSize
    BY <2>1, Sizes
  <2>3. (n + 1) * PageSize = n * PageSize + PageSize
    BY Sizes
  <2>4. n * PageSize \in Nat
    BY Sizes
  <2> QED BY <1>1, <2>2, <2>3, <2>4, Sizes
<1>2. CASE n >= N
  <2>1. n * PageSize >= N * PageSize
    BY <1>2, Sizes
  <2>2. n * PageSize \in Nat
    BY Sizes
  <2> QED BY <1>2, <2>1, <2>2, Sizes
<1> QED BY <1>1, <1>2, Sizes

LEMMA PageBelowWord ==
    ASSUME NEW n \in Numbers, NEW f \in 0..(PageSize - 1)
    PROVE  n * PageSize \in Addresses /\ n * PageSize + f \in Addresses
<1>1. n \in Nat /\ n < N
  BY Sizes DEF Numbers
<1>2. 0 \in 0..(PageSize - 1)
  BY Sizes
<1>3. n * PageSize \in Nat
  BY <1>1, PageStart
<1>4. n * PageSize + f < Word /\ n * PageSize + 0 < Word
  BY <1>1, <1>2, BelowWord
<1> QED BY <1>3, <1>4, Sizes DEF Addresses

\* An aligned address is a page's.
LEMMA AlignedIsPage ==
    ASSUME NEW a \in Addresses, Aligned(a)
    PROVE  a \div PageSize \in Numbers /\ a = (a \div PageSize) * PageSize
<1>1. a \in Nat /\ a < Word /\ a % PageSize = 0
  BY Sizes DEF Addresses, Aligned
<1>2. a \div PageSize \in Nat /\ a = (a \div PageSize) * PageSize + 0
  BY <1>1, SplitAddress
<1>3. 0 \in 0..(PageSize - 1)
  BY Sizes
<1>4. (a \div PageSize) * PageSize \in Nat
  BY <1>2, PageStart
<1>5. a \div PageSize < N
  BY <1>1, <1>2, <1>3, BelowWord
<1> QED BY <1>2, <1>4, <1>5, Sizes DEF Numbers

\* paging_get_indexes splits a page's number into its table and its place there.
LEMMA IndexesOfPage ==
    ASSUME NEW n \in Numbers
    PROVE  /\ DirectoryIndex(n * PageSize) = n \div EntriesPerTable
           /\ TableIndex(n * PageSize) = n % EntriesPerTable
           /\ n \div EntriesPerTable \in Indexes /\ n % EntriesPerTable \in Indexes
           /\ n = EntriesPerTable * (n \div EntriesPerTable) + (n % EntriesPerTable)
<1> DEFINE q == n \div EntriesPerTable
           r == n % EntriesPerTable
<1>1. q \in Int /\ r \in 0..(EntriesPerTable - 1) /\ n = EntriesPerTable * q + r
  BY Sizes, Division DEF Numbers
<1> HIDE DEF q, r
<1>n. n \in Nat /\ n < N
  BY Sizes DEF Numbers
<1>2. q >= 0
  <2>1. CASE q < 0
    <3>1. EntriesPerTable * q <= -EntriesPerTable
      BY <1>1, <2>1, Sizes
    <3> QED BY <1>1, <1>n, <3>1, Sizes
  <2> QED BY <1>1, <2>1
<1>3. q < EntriesPerTable
  <2>1. CASE q >= EntriesPerTable
    <3>1. EntriesPerTable * q >= N
      BY <1>1, <2>1, Sizes DEF N
    <3> QED BY <1>1, <1>n, <3>1, Sizes
  <2> QED BY <1>1, <2>1, Sizes
<1>4. n * PageSize = TableBytes * q + r * PageSize
  <2>1. (EntriesPerTable * q + r) * PageSize = TableBytes * q + r * PageSize
    BY <1>1, Sizes DEF TableBytes
  <2> QED BY <1>1, <2>1
<1>5. r * PageSize \in 0..(TableBytes - 1)
  <2>1. r \in Nat /\ r + 1 <= EntriesPerTable
    BY <1>1, Sizes
  <2>2. (r + 1) * PageSize <= TableBytes
    BY <2>1, Sizes DEF TableBytes
  <2>3. (r + 1) * PageSize = r * PageSize + PageSize
    BY <2>1, Sizes
  <2>4. r * PageSize \in Nat
    BY <2>1, PageStart
  <2> QED BY <2>2, <2>3, <2>4, Sizes
<1>6. (n * PageSize) \div TableBytes = q /\ (n * PageSize) % TableBytes = r * PageSize
  <2> DEFINE rest == r * PageSize
  <2>1. rest \in 0..(TableBytes - 1) /\ TableBytes \in Nat \ {0}
    BY <1>5, Sizes
  <2> HIDE DEF rest
  <2>2. (TableBytes * q + rest) \div TableBytes = q /\ (TableBytes * q + rest) % TableBytes = rest
    BY <1>1, <2>1, Quotient
  <2> QED BY <1>4, <2>2 DEF rest
<1>7. (r * PageSize) \div PageSize = r
  BY <1>1, PageStart, Sizes
<1>8. DirectoryIndex(n * PageSize) = q
  BY <1>6 DEF DirectoryIndex, TableBytes
<1>9. TableIndex(n * PageSize) = r
  BY <1>6, <1>7 DEF TableIndex, TableBytes
<1>10. q \in Indexes /\ r \in Indexes
  BY <1>1, <1>2, <1>3, Sizes DEF Indexes
<1> QED BY <1>1, <1>8, <1>9, <1>10 DEF q, r

\* The page with this table and this place.
LEMMA PageOfIndexes ==
    ASSUME NEW i \in Indexes, NEW b \in Indexes
    PROVE  /\ EntriesPerTable * i + b \in Numbers
           /\ (EntriesPerTable * i + b) \div EntriesPerTable = i
           /\ (EntriesPerTable * i + b) % EntriesPerTable = b
<1>1. i \in Nat /\ b \in 0..(EntriesPerTable - 1) /\ i + 1 <= EntriesPerTable
  BY Sizes DEF Indexes
<1>2. EntriesPerTable * (i + 1) <= N /\ EntriesPerTable * i \in Nat
      /\ EntriesPerTable * (i + 1) = EntriesPerTable * i + EntriesPerTable
  BY <1>1, Sizes DEF N
<1>3. EntriesPerTable * i + b \in Numbers
  BY <1>1, <1>2, Sizes DEF Numbers
<1>4. /\ (EntriesPerTable * i + b) \div EntriesPerTable = i
      /\ (EntriesPerTable * i + b) % EntriesPerTable = b
  BY <1>1, Sizes, Quotient
<1> QED BY <1>3, <1>4

\* A page behind the last one is the one as far behind the first.
LEMMA WrapPage ==
    ASSUME NEW x \in Nat, NEW w \in 0..(PageSize - 1)
    PROVE  /\ x % N \in Numbers
           /\ (x * PageSize + w) % Word = (x % N) * PageSize + w
<1> DEFINE q == x \div N
           r == x % N
<1>1. q \in Int /\ r \in 0..(N - 1) /\ x = N * q + r
  BY Sizes, Division
<1> HIDE DEF q, r
<1>2. r \in Numbers
  BY <1>1 DEF Numbers
<1>3. r * PageSize + w \in 0..(Word - 1)
  BY <1>2, PageBelowWord DEF Addresses
<1>4. x * PageSize + w = Word * q + (r * PageSize + w)
  <2>1. (N * q + r) * PageSize = (N * PageSize) * q + r * PageSize
    BY <1>1, Sizes
  <2>2. r * PageSize \in Int /\ Word * q \in Int
    BY <1>1, Sizes
  <2> QED BY <1>1, <2>1, <2>2, Sizes
<1>5. (Word * q + (r * PageSize + w)) % Word = r * PageSize + w
  BY <1>1, <1>3, Quotient, Sizes
<1> QED BY <1>2, <1>4, <1>5 DEF r

\* The rest of a number that is out of the space by at most its length.
LEMMA Within ==
    ASSUME NEW x \in Int
    PROVE  /\ x \in 0..(N - 1) => x % N = x
           /\ x - N \in 0..(N - 1) => x % N = x - N
           /\ x + N \in 0..(N - 1) => x % N = x + N
<1> DEFINE q == x \div N
           r == x % N
<1>1. q \in Int /\ r \in 0..(N - 1) /\ x = N * q + r /\ N \in Nat \ {0}
  BY Sizes, Division
<1> HIDE DEF q, r
<1>2. /\ q = 0 => x = r
      /\ q = 1 => x = N + r
      /\ q = -1 => x = r - N
      /\ q >= 2 => x >= 2 * N
      /\ q <= -2 => x < -N
  <2>1. q >= 2 => N * q >= N * 2
    BY <1>1
  <2>2. q <= -2 => N * q <= N * (-2)
    BY <1>1
  <2>3. q \in {0, 1, -1} => N * q \in {0, N, -N} /\ (q = 0 => N * q = 0)
                          /\ (q = 1 => N * q = N) /\ (q = -1 => N * q = -N)
    BY <1>1
  <2> QED BY <1>1, <2>1, <2>2, <2>3
<1>3. /\ x \in 0..(N - 1) => r = x
      /\ x - N \in 0..(N - 1) => r = x - N
      /\ x + N \in 0..(N - 1) => r = x + N
  BY <1>1, <1>2
<1> QED BY <1>3 DEF r

\* Which page lies j places behind page v, and how far page m is behind it.
LEMMA PlacesBehind ==
    ASSUME NEW v \in Numbers, NEW m \in Numbers, NEW j \in Numbers
    PROVE  /\ (m - v) % N \in Numbers
           /\ (v + j) % N \in Numbers
           /\ (v + j) % N = m <=> (m - v) % N = j
<1>1. v \in 0..(N - 1) /\ m \in 0..(N - 1) /\ j \in 0..(N - 1) /\ N \in Nat \ {0}
  BY Sizes DEF Numbers
<1>2. (v + j) % N = IF v + j < N THEN v + j ELSE v + j - N
  <2>1. CASE v + j < N
    BY <1>1, <2>1, Within
  <2>2. CASE ~(v + j < N)
    BY <1>1, <2>2, Within
  <2> QED BY <2>1, <2>2
<1>3. (m - v) % N = IF m >= v THEN m - v ELSE m - v + N
  <2>1. CASE m >= v
    BY <1>1, <2>1, Within
  <2>2. CASE ~(m >= v)
    BY <1>1, <2>2, Within
  <2> QED BY <2>1, <2>2
<1>4. (m - v) % N \in Numbers /\ (v + j) % N \in Numbers
  BY <1>1, <1>2, <1>3 DEF Numbers
<1>5. (v + j) % N = m <=> (m - v) % N = j
  <2> DEFINE a == (v + j) % N
             b == (m - v) % N
  <2>1. a = (IF v + j < N THEN v + j ELSE v + j - N) /\ b = IF m >= v THEN m - v ELSE m - v + N
    BY <1>2, <1>3
  <2> HIDE DEF a, b
  <2>2. a = m <=> b = j
    BY <1>1, <2>1
  <2> QED BY <2>2 DEF a, b
<1> QED BY <1>4, <1>5

-----------------------------------------------------------------------------
(* Tables of pages, seen as one array.                                       *)

\* The table of a directory entry, and the tables there are.
TableOf(i) == AddressPart(directory[i])
Tables == {TableOf(i) : i \in Indexes}
TableSets == [Tables -> [Indexes -> Addresses]]

\* paging_new_4GB gives each entry of the directory a table of its own.
Shape ==
    /\ directory \in [Indexes -> Addresses]
    /\ \A i, j \in Indexes : i # j => TableOf(i) # TableOf(j)

\* The entry of page n in the tables t.
Cell(t, n) == t[TableOf(n \div EntriesPerTable)][n % EntriesPerTable]

\* The tables whose entries are those of the array cells.
Index(a) == CHOOSE i \in Indexes : TableOf(i) = a
FromCells(cells) ==
    [a \in Tables |-> [b \in Indexes |-> cells[EntriesPerTable * Index(a) + b]]]

LEMMA GetIsCell ==
    ASSUME NEW n \in Numbers
    PROVE  /\ Get(n * PageSize) = Cell(table, n)
           /\ directory' = directory => Get(n * PageSize)' = Cell(table', n)
  BY IndexesOfPage DEF Get, Cell, TableOf

LEMMA CellIsAddress ==
    ASSUME NEW t \in TableSets, NEW n \in Numbers
    PROVE  Cell(t, n) \in Addresses
<1>1. n \div EntriesPerTable \in Indexes /\ n % EntriesPerTable \in Indexes
  BY IndexesOfPage
<1> QED BY <1>1 DEF Cell, TableSets, Tables

\* paging_set changes the entry of its page and of no other (paging.c:222-242).
LEMMA SetCell ==
    ASSUME Shape, NEW t \in TableSets, NEW n \in Numbers, NEW entry \in Addresses
    PROVE  /\ Set(t, n * PageSize, entry) \in TableSets
           /\ \A m \in Numbers :
                Cell(Set(t, n * PageSize, entry), m) = IF m = n THEN entry ELSE Cell(t, m)
<1> DEFINE i == n \div EntriesPerTable
           b == n % EntriesPerTable
           u == Set(t, n * PageSize, entry)
<1>1. i \in Indexes /\ b \in Indexes /\ n = EntriesPerTable * i + b
  BY IndexesOfPage
<1>2. u = [t EXCEPT ![TableOf(i)][b] = entry]
  BY IndexesOfPage DEF Set, TableOf
<1>3. TableOf(i) \in Tables
  BY <1>1 DEF Tables
<1> HIDE DEF i, b, u
<1>4. u \in TableSets
  BY <1>1, <1>2, <1>3 DEF TableSets
<1>5. ASSUME NEW m \in Numbers
      PROVE  Cell(u, m) = IF m = n THEN entry ELSE Cell(t, m)
  <2> DEFINE j == m \div EntriesPerTable
             c == m % EntriesPerTable
  <2>1. j \in Indexes /\ c \in Indexes /\ m = EntriesPerTable * j + c
    BY IndexesOfPage
  <2>2. TableOf(j) \in Tables
    BY <2>1 DEF Tables
  <2>3. m = n => j = i /\ c = b
    BY DEF i, b
  <2>4. TableOf(j) = TableOf(i) => j = i
    BY <1>1, <2>1 DEF Shape
  <2> HIDE DEF j, c
  <2>5. j = i /\ c = b => m = n
    BY <1>1, <2>1
  <2>6. u[TableOf(j)][c] = IF m = n THEN entry ELSE t[TableOf(j)][c]
    BY <1>1, <1>2, <1>3, <2>1, <2>2, <2>3, <2>4, <2>5 DEF TableSets
  <2> QED BY <2>6 DEF Cell, j, c
<1> QED BY <1>4, <1>5 DEF u

\* Tables are known by their pages' entries.
LEMMA SameCells ==
    ASSUME NEW t \in TableSets, NEW u \in TableSets,
           \A m \in Numbers : Cell(t, m) = Cell(u, m)
    PROVE  t = u
<1>1. ASSUME NEW i \in Indexes, NEW b \in Indexes
      PROVE  t[TableOf(i)][b] = u[TableOf(i)][b]
  <2> DEFINE m == EntriesPerTable * i + b
  <2>1. m \in Numbers /\ m \div EntriesPerTable = i /\ m % EntriesPerTable = b
    BY PageOfIndexes
  <2> HIDE DEF m
  <2> QED BY <2>1 DEF Cell
<1>2. ASSUME NEW a \in Tables PROVE t[a] = u[a]
  <2>1. PICK i \in Indexes : a = TableOf(i)
    BY DEF Tables
  <2>2. t[a] \in [Indexes -> Addresses] /\ u[a] \in [Indexes -> Addresses]
    BY DEF TableSets
  <2> QED BY <1>1, <2>1, <2>2
<1> QED BY <1>2 DEF TableSets

LEMMA CellsOf ==
    ASSUME Shape, NEW cells \in [Numbers -> Addresses]
    PROVE  /\ FromCells(cells) \in TableSets
           /\ \A m \in Numbers : Cell(FromCells(cells), m) = cells[m]
<1>1. ASSUME NEW i \in Indexes PROVE TableOf(i) \in Tables /\ Index(TableOf(i)) = i
  <2>1. TableOf(i) \in Tables
    BY DEF Tables
  <2>2. Index(TableOf(i)) \in Indexes /\ TableOf(Index(TableOf(i))) = TableOf(i)
    BY DEF Index
  <2>3. Index(TableOf(i)) = i
    BY <2>2 DEF Shape
  <2> QED BY <2>1, <2>3
<1>2. FromCells(cells) \in TableSets
  <2> SUFFICES ASSUME NEW a \in Tables, NEW b \in Indexes
               PROVE  cells[EntriesPerTable * Index(a) + b] \in Addresses
    BY DEF FromCells, TableSets
  <2>1. Index(a) \in Indexes
    BY <1>1 DEF Tables
  <2> QED BY <2>1, PageOfIndexes
<1>3. ASSUME NEW m \in Numbers PROVE Cell(FromCells(cells), m) = cells[m]
  <2> DEFINE j == m \div EntriesPerTable
             c == m % EntriesPerTable
  <2>1. j \in Indexes /\ c \in Indexes /\ m = EntriesPerTable * j + c
    BY IndexesOfPage
  <2>2. TableOf(j) \in Tables /\ Index(TableOf(j)) = j
    BY <1>1, <2>1
  <2> HIDE DEF j, c
  <2>3. FromCells(cells)[TableOf(j)][c] = cells[EntriesPerTable * j + c]
    BY <2>1, <2>2 DEF FromCells
  <2> QED BY <2>1, <2>3 DEF Cell, j, c
<1> QED BY <1>2, <1>3

-----------------------------------------------------------------------------
(* The loop of paging_map_virtual_to_physical_addresses.                     *)

\* The entries after k of the pages from v on got the frames from p on.
After(v, p, f, k) ==
    [m \in Numbers |-> IF (m - v) % N < k THEN (p + ((m - v) % N)) * PageSize + f
                       ELSE Cell(table, m)]

LEMMA AfterType ==
    ASSUME table \in TableSets, NEW v \in Numbers, NEW p \in Numbers, NEW c \in Numbers,
           p + c \in Numbers, NEW f \in 0..(PageSize - 1), NEW k \in 0..c
    PROVE  After(v, p, f, k) \in [Numbers -> Addresses]
<1> SUFFICES ASSUME NEW m \in Numbers
             PROVE  (IF (m - v) % N < k THEN (p + ((m - v) % N)) * PageSize + f
                     ELSE Cell(table, m)) \in Addresses
  BY DEF After
<1>1. CASE (m - v) % N < k
  <2>1. (m - v) % N \in Numbers
    BY PlacesBehind
  <2>2. p + ((m - v) % N) \in Numbers
    BY <1>1, <2>1, Sizes DEF Numbers
  <2> QED BY <1>1, <2>2, PageBelowWord
<1>2. CASE ~((m - v) % N < k)
  BY <1>2, CellIsAddress
<1> QED BY <1>1, <1>2

\* One turn of the loop: the page it sets is the next one.
LEMMA OneTurn ==
    ASSUME Shape, table \in TableSets,
           NEW v \in Numbers, NEW p \in Numbers, NEW c \in Numbers,
           p + c \in Numbers, NEW f \in 0..(PageSize - 1), NEW k \in 1..c
    PROVE  Set(FromCells(After(v, p, f, k - 1)), (v * PageSize + (k - 1) * PageSize) % Word,
               Or(p * PageSize + (k - 1) * PageSize, f))
             = FromCells(After(v, p, f, k))
<1> DEFINE n == (v + (k - 1)) % N
           entry == (p + (k - 1)) * PageSize + f
           t == FromCells(After(v, p, f, k - 1))
           u == FromCells(After(v, p, f, k))
<1>1. k - 1 \in Numbers /\ p + (k - 1) \in Numbers /\ k - 1 \in 0..c /\ k \in 0..c /\ k \in Nat
      /\ v \in Nat /\ p \in Nat
  BY Sizes DEF Numbers
<1>2. n \in Numbers /\ \A m \in Numbers : n = m <=> (m - v) % N = k - 1
  BY <1>1, PlacesBehind
<1>3. (v * PageSize + (k - 1) * PageSize) % Word = n * PageSize
  <2>1. v * PageSize + (k - 1) * PageSize = (v + (k - 1)) * PageSize + 0
    BY <1>1, Sizes
  <2>2. v + (k - 1) \in Nat /\ 0 \in 0..(PageSize - 1)
    BY <1>1, Sizes
  <2>3. ((v + (k - 1)) * PageSize + 0) % Word = n * PageSize + 0
    BY <2>2, WrapPage
  <2>4. n * PageSize \in Nat
    BY <1>2, PageStart, Sizes DEF Numbers
  <2> QED BY <2>1, <2>3, <2>4
<1>4. Or(p * PageSize + (k - 1) * PageSize, f) = entry
  <2>1. p * PageSize + (k - 1) * PageSize = (p + (k - 1)) * PageSize
    BY <1>1, Sizes
  <2> QED BY <2>1 DEF Or
<1>5. entry \in Addresses
  BY <1>1, PageBelowWord
<1>6. t \in TableSets /\ \A m \in Numbers : Cell(t, m) = After(v, p, f, k - 1)[m]
  BY <1>1, AfterType, CellsOf
<1>7. u \in TableSets /\ \A m \in Numbers : Cell(u, m) = After(v, p, f, k)[m]
  BY <1>1, AfterType, CellsOf
<1> DEFINE w == Set(t, n * PageSize, entry)
<1> HIDE DEF n, entry, t, u
<1>8. w \in TableSets /\ \A m \in Numbers : Cell(w, m) = IF m = n THEN entry ELSE Cell(t, m)
  BY <1>2, <1>5, <1>6, SetCell
<1>9. ASSUME NEW m \in Numbers PROVE Cell(w, m) = Cell(u, m)
  <2> DEFINE j == (m - v) % N
  <2>1. j \in Nat /\ (n = m <=> j = k - 1)
    BY <1>2, PlacesBehind, Sizes DEF Numbers
  <2>2. /\ Cell(t, m) = IF j < k - 1 THEN (p + j) * PageSize + f ELSE Cell(table, m)
        /\ Cell(u, m) = IF j < k THEN (p + j) * PageSize + f ELSE Cell(table, m)
    BY <1>6, <1>7 DEF After
  <2> HIDE DEF j
  <2>3. CASE n = m
    <3>1. Cell(w, m) = entry /\ j = k - 1
      BY <1>8, <2>1, <2>3
    <3> QED BY <1>1, <2>2, <3>1 DEF entry
  <2>4. CASE n # m
    <3>1. Cell(w, m) = Cell(t, m) /\ j # k - 1
      BY <1>8, <2>1, <2>4
    <3> QED BY <1>1, <2>1, <2>2, <3>1
  <2> QED BY <2>3, <2>4
<1> HIDE DEF w
<1>10. w = u
  BY <1>7, <1>8, <1>9, SameCells
<1> QED BY <1>3, <1>4, <1>10 DEF w, t, u

\* Every set of naturals has a least one.
LEMMA Least ==
    ASSUME NEW S \in SUBSET Nat, S # {}
    PROVE  \E k \in S : \A j \in S : k <= j
<1>1. PICK k \in S : \A j \in S : ~(<<j, k>> \in OpToRel(<, Nat))
  BY NatLessThanWellFounded, WFMin
<1>2. \A j \in S : ~(j < k)
  BY <1>1 DEF OpToRel
<1> QED BY <1>2

\* The whole loop: the c pages from v on get the c frames from p on, wrapping at
\* the end of the space, and no other entry changes (paging.c:119-141, 168-195).
LEMMA RangeIsSet ==
    ASSUME Shape, table \in TableSets,
           NEW v \in Numbers, NEW p \in Numbers, NEW c \in Numbers,
           p + c \in Numbers, NEW f \in 0..(PageSize - 1)
    PROVE  LET u == SetRange(v * PageSize, p * PageSize, (p + c) * PageSize, f)
           IN  /\ u \in TableSets
               /\ \A m \in Numbers : Cell(u, m) = After(v, p, f, c)[m]
<1> DEFINE virtual == v * PageSize
           physical == p * PageSize
           physical_end == (p + c) * PageSize
           Count == (physical_end - physical) \div PageSize
           u == SetRange(virtual, physical, physical_end, f)
           closed == [k \in 0..c |-> FromCells(After(v, p, f, k))]
<1>t. v \in Nat /\ p \in Nat /\ c \in Nat
  BY Sizes DEF Numbers
<1>1. physical_end - physical = c * PageSize /\ physical \in Nat /\ c * PageSize \in Nat
  BY <1>t, Sizes
<1>2. Count = c
  BY <1>1, <1>t, PageStart
<1>3. physical < physical_end <=> c > 0
  <2>1. CASE c > 0
    <3>1. c * PageSize > 0
      BY <2>1, <1>t, Sizes
    <3>2. physical_end = physical + c * PageSize
      BY <1>t, Sizes
    <3> QED BY <1>1, <2>1, <3>1, <3>2
  <2>2. CASE c = 0
    <3>1. physical_end = physical
      BY <2>2, <1>t, Sizes
    <3> QED BY <1>1, <2>2, <3>1
  <2> QED BY <1>t, <2>1, <2>2
<1>4. \A k \in 0..c : /\ closed[k] \in TableSets
                      /\ \A m \in Numbers : Cell(closed[k], m) = After(v, p, f, k)[m]
  BY AfterType, CellsOf
<1>5. closed[0] = table
  <2>1. closed[0] \in TableSets /\ \A m \in Numbers : Cell(closed[0], m) = After(v, p, f, 0)[m]
    BY <1>4, <1>t
  <2>2. \A m \in Numbers : After(v, p, f, 0)[m] = Cell(table, m)
    <3> SUFFICES ASSUME NEW m \in Numbers PROVE ~((m - v) % N < 0)
      BY DEF After
    <3> QED BY PlacesBehind, Sizes DEF Numbers
  <2> HIDE DEF closed
  <2> QED BY <2>1, <2>2, SameCells
<1> DEFINE Turn(g, k) == IF k = 0 THEN table
                         ELSE Set(g[k - 1], (virtual + (k - 1) * PageSize) % Word,
                                  Or(physical + (k - 1) * PageSize, f))
           after == CHOOSE g : g = [k \in 0..Count |-> Turn(g, k)]
<1>6. u = IF physical < physical_end THEN after[Count] ELSE table
  BY DEF SetRange
<1>7. ASSUME NEW k \in 0..c PROVE Turn(closed, k) = closed[k]
  <2>1. CASE k = 0
    BY <1>5, <2>1
  <2>2. CASE k # 0
    <3>1. k \in 1..c /\ k - 1 \in 0..c
      BY <1>t, <2>2
    <3>2. closed[k - 1] = FromCells(After(v, p, f, k - 1))
          /\ closed[k] = FromCells(After(v, p, f, k))
      BY <3>1
    <3>3. Set(closed[k - 1], (virtual + (k - 1) * PageSize) % Word,
              Or(physical + (k - 1) * PageSize, f)) = closed[k]
      BY <3>1, <3>2, OneTurn
    <3> QED BY <2>2, <3>3
  <2> QED BY <2>1, <2>2
<1>8. after = [k \in 0..c |-> Turn(after, k)]
  <2>1. closed = [k \in 0..c |-> Turn(closed, k)]
    <3>1. closed = [k \in 0..c |-> closed[k]]
      OBVIOUS
    <3> HIDE DEF closed, Turn
    <3> QED BY <1>7, <3>1
  <2>2. \E g : g = [k \in 0..Count |-> Turn(g, k)]
    <3> HIDE DEF closed, Turn, Count
    <3> QED BY <1>2, <2>1
  <2>3. after = [k \in 0..Count |-> Turn(after, k)]
    <3> HIDE DEF Turn, Count
    <3> QED BY <2>2
  <2> HIDE DEF Turn, Count, after
  <2> QED BY <1>2, <2>3
<1> HIDE DEF after, closed, Turn
<1>9. \A k \in 0..c : after[k] = closed[k]
  <2> DEFINE wrong == {k \in 0..c : after[k] # closed[k]}
  <2>1. wrong \in SUBSET Nat
    BY <1>t
  <2>2. ASSUME NEW k \in wrong, \A j \in wrong : k <= j PROVE FALSE
    <3>1. k \in 0..c /\ after[k] # closed[k]
      BY <2>2
    <3>2. after[k] = Turn(after, k) /\ Turn(closed, k) = closed[k]
      BY <1>7, <1>8, <3>1
    <3>3. CASE k = 0
      BY <3>1, <3>2, <3>3 DEF Turn
    <3>4. CASE k # 0
      <4>1. k - 1 \in 0..c /\ ~(k <= k - 1)
        BY <1>t, <3>1, <3>4
      <4>2. after[k - 1] = closed[k - 1]
        BY <2>2, <4>1
      <4> QED BY <3>1, <3>2, <3>4, <4>2 DEF Turn
    <3> QED BY <3>3, <3>4
  <2>3. wrong = {}
    <3> HIDE DEF wrong
    <3> QED BY <2>1, <2>2, Least
  <2> QED BY <2>3
<1>10. u = closed[c]
  <2> HIDE DEF u, Count, physical, physical_end
  <2>1. CASE c > 0
    BY <1>2, <1>3, <1>6, <1>9, <1>t, <2>1
  <2>2. CASE c = 0
    BY <1>3, <1>5, <1>6, <2>2
  <2> QED BY <1>t, <2>1, <2>2
<1> HIDE DEF u
<1>11. u \in TableSets /\ \A m \in Numbers : Cell(u, m) = After(v, p, f, c)[m]
  BY <1>4, <1>10, <1>t
<1> QED BY <1>11 DEF u

-----------------------------------------------------------------------------
(* Objects, entries and flags.                                               *)

LEMMA EntryParts ==
    ASSUME NEW q \in Nat, NEW f \in 0..(PageSize - 1)
    PROVE  /\ AddressPart(q * PageSize + f) = q * PageSize
           /\ FlagsPart(q * PageSize + f) = f
           /\ AddressPart(q * PageSize + f) \div PageSize = q
<1>1. q * PageSize \in Nat /\ (q * PageSize + f) % PageSize = f /\ (q * PageSize) \div PageSize = q
  BY InPage, PageStart
<1>2. FlagsPart(q * PageSize + f) = f
  BY <1>1 DEF FlagsPart
<1>3. AddressPart(q * PageSize + f) = q * PageSize
  BY <1>1 DEF AddressPart
<1> QED BY <1>1, <1>2, <1>3

\* An object lies at the same offset u of its first page in memory and in the
\* space, and its end is brought up to a page inside the space.
Spans(o, v, p, c, u) ==
    /\ o.virtual = v * PageSize + u /\ o.physical = p * PageSize + u
    /\ AlignToLowerPage(o.virtual) = v * PageSize
    /\ AlignToLowerPage(o.physical) = p * PageSize
    /\ AlignAddress(o.physical + o.bytes) = (p + c) * PageSize
    /\ o.physical + o.bytes <= (p + c) * PageSize
    /\ p + c \in Numbers

\* process.c:381-404, paging.c:71-96: the ends of an object become pages.
LEMMA ObjectSpans ==
    ASSUME NEW o \in Objects
    PROVE  \E v, p, c \in Numbers, u \in 0..(PageSize - 1) : Spans(o, v, p, c, u)
<1> DEFINE v == o.virtual \div PageSize
           u == o.virtual % PageSize
           p == o.physical \div PageSize
           w == o.physical % PageSize
           e == o.physical + o.bytes
           q == e \div PageSize
           x == e % PageSize
<1>1. /\ o.virtual \in Nat /\ o.virtual < Word
      /\ o.physical \in Nat /\ o.physical < Word
      /\ o.bytes \in Nat /\ e <= Word - PageSize /\ e \in Nat
      /\ (o.virtual - o.physical) % PageSize = 0
  BY PagingAssumption, ObjectsAssumption, Sizes DEF Addresses
<1>2. v \in Nat /\ u \in 0..(PageSize - 1) /\ o.virtual = v * PageSize + u
  BY <1>1, SplitAddress
<1>3. p \in Nat /\ w \in 0..(PageSize - 1) /\ o.physical = p * PageSize + w
  BY <1>1, SplitAddress
<1>4. q \in Nat /\ x \in 0..(PageSize - 1) /\ e = q * PageSize + x
  BY <1>1, SplitAddress
<1>l. AlignToLowerPage(o.virtual) = o.virtual - u /\ AlignToLowerPage(o.physical) = o.physical - w
  BY DEF AlignToLowerPage
<1>a. AlignAddress(e) = IF x = 0 THEN e ELSE (e + PageSize - x) % Word
  BY DEF AlignAddress, Aligned
<1>5. u = w
  <2> DEFINE z == (o.virtual - o.physical) \div PageSize
  <2>1. z \in Int /\ o.virtual - o.physical = PageSize * z + 0
    <3>1. o.virtual - o.physical \in Int
      BY <1>1
    <3> QED BY <1>1, <3>1, Division, Sizes
  <2> HIDE DEF z, v, u, p, w
  <2>2. u - w = PageSize * (z - v + p)
    <3>1. PageSize * (z - v + p) = PageSize * z - v * PageSize + p * PageSize
      BY <1>2, <1>3, <2>1, Sizes
    <3>2. v * PageSize \in Nat /\ p * PageSize \in Nat /\ PageSize * z \in Int
      BY <1>2, <1>3, <2>1, Sizes
    <3> QED BY <1>2, <1>3, <2>1, <3>1, <3>2
  <2> DEFINE y == z - v + p
  <2>3. y \in Int
    BY <1>2, <1>3, <2>1
  <2> HIDE DEF y
  <2>4. y >= 1 => PageSize * y >= PageSize
    BY <2>3, Sizes
  <2>5. y <= -1 => PageSize * y <= -PageSize
    BY <2>3, Sizes
  <2>6. y = 0
    <3>1. u - w = PageSize * y /\ u - w < PageSize /\ u - w > -PageSize
      BY <1>2, <1>3, <2>2, Sizes DEF y
    <3> QED BY <2>3, <2>4, <2>5, <3>1, Sizes
  <2>7. u - w = 0
    BY <2>2, <2>6, Sizes DEF y
  <2> QED BY <1>2, <1>3, <2>7
<1> DEFINE top == IF x = 0 THEN q ELSE q + 1
<1> HIDE DEF v, u, p, w, e, q, x
<1>6. v \in Numbers /\ p \in Numbers
  <2>1. v < N /\ p < N
    BY <1>1, <1>2, <1>3, BelowWord
  <2> QED BY <1>2, <1>3, <2>1, Sizes DEF Numbers
<1>7. top \in Numbers /\ e <= top * PageSize /\ AlignAddress(e) = top * PageSize
  <2>1. CASE x = 0
    <3>1. q < N
      BY <1>1, <1>4, BelowWord, Sizes
    <3> QED BY <1>4, <1>a, <2>1, <3>1, Sizes DEF Numbers
  <2>2. CASE x # 0
    <3>1. (q + 1) * PageSize = q * PageSize + PageSize /\ q * PageSize \in Nat
      BY <1>4, Sizes
    <3>2. q + 1 < N
      <4>1. (q + 1) * PageSize + 0 < Word
        BY <1>1, <1>4, <2>2, <3>1, Sizes
      <4>2. q + 1 \in Nat /\ 0 \in 0..(PageSize - 1)
        BY <1>4, Sizes
      <4> QED BY <4>1, <4>2, BelowWord
    <3>3. e + PageSize - x = (q + 1) * PageSize + 0
      BY <1>4, <3>1, Sizes
    <3>4. ((q + 1) * PageSize + 0) % Word = ((q + 1) % N) * PageSize + 0
      <4>1. 0 \in 0..(PageSize - 1) /\ q + 1 \in Nat
        BY <1>4, Sizes
      <4> QED BY <4>1, WrapPage
    <3>5. (q + 1) % N = q + 1
      BY <1>4, <3>2, Sizes, Within
    <3>6. AlignAddress(e) = (q + 1) * PageSize
      BY <1>4, <1>a, <2>2, <3>1, <3>3, <3>4, <3>5, Sizes
    <3>7. e <= (q + 1) * PageSize
      BY <1>4, <3>1, Sizes
    <3> QED BY <1>4, <2>2, <3>2, <3>6, <3>7, Sizes DEF Numbers
  <2> QED BY <2>1, <2>2
<1> HIDE DEF top
<1>8. top >= p
  <2>1. p * PageSize <= top * PageSize
    <3>1. p * PageSize \in Nat /\ top * PageSize \in Nat
      BY <1>6, <1>7, Sizes DEF Numbers
    <3> QED BY <1>1, <1>3, <1>7, <3>1 DEF e
  <2>2. top < p => (top + 1) * PageSize <= p * PageSize
    BY <1>6, <1>7, Sizes DEF Numbers
  <2>3. (top + 1) * PageSize = top * PageSize + PageSize /\ top * PageSize \in Nat
    BY <1>7, Sizes DEF Numbers
  <2> QED BY <1>6, <1>7, <2>1, <2>2, <2>3, Sizes DEF Numbers
<1>9. top - p \in Numbers /\ p + (top - p) = top
  BY <1>6, <1>7, <1>8, Sizes DEF Numbers
<1>10. o.virtual - u = v * PageSize /\ o.physical - u = p * PageSize
  <2>1. v * PageSize \in Nat /\ p * PageSize \in Nat
    BY <1>2, <1>3, Sizes
  <2> QED BY <1>2, <1>3, <1>5, <2>1
<1>11. Spans(o, v, p, top - p, u)
  BY <1>2, <1>3, <1>5, <1>7, <1>9, <1>10, <1>l DEF Spans, e
<1> QED BY <1>2, <1>6, <1>9, <1>11

-----------------------------------------------------------------------------
(* The invariant.                                                            *)

\* Besides the types: each entry of the directory has a table of its own, and
\* the processor is on the task's directory exactly while a buffer is mapped
\* there, at a page, with what was there before at hand.
IInv ==
    /\ Shape
    /\ table \in TableSets
    /\ loaded \in BOOLEAN /\ (loaded <=> tmp # NoCopy)
    /\ tmp # NoCopy => tmp \in Addresses /\ Aligned(tmp) /\ old_entry \in Addresses
    /\ tmp = NoCopy => old_entry = NoCopy

LEMMA IInvTypes == IInv => TypeOK
<1> SUFFICES ASSUME IInv PROVE TypeOK
  OBVIOUS
<1>1. \A i \in Indexes : AddressPart(directory[i]) \in DOMAIN table
  BY DEF IInv, TableSets, Tables, TableOf
<1>2. \A a \in DOMAIN table : table[a] \in [Indexes -> Addresses]
  BY DEF IInv, TableSets
<1> QED BY <1>1, <1>2 DEF IInv, TypeOK, Shape

\* paging_new_4GB: the pages are mapped one to one.
LEMMA FreshSpace ==
    ASSUME Init
    PROVE  /\ IInv /\ tmp = NoCopy /\ loaded = FALSE
           /\ \E f \in Flags : \A n \in Numbers : Cell(table, n) = n * PageSize + f
<1>1. PICK at \in [Indexes -> TablesAt], f \in Flags, d \in DirectoryFlags :
        /\ \A i, j \in Indexes : i # j => at[i] # at[j]
        /\ directory = [i \in Indexes |-> Or(at[i], d)]
        /\ table = [a \in {at[i] : i \in Indexes} |->
                      LET i == CHOOSE j \in Indexes : at[j] = a
                      IN  [b \in Indexes |-> Or((i * EntriesPerTable + b) * PageSize, f)]]
        /\ loaded = FALSE
        /\ tmp = NoCopy /\ old_entry = NoCopy
  BY DEF Init
<1>2. f \in 0..(PageSize - 1) /\ d \in 0..(PageSize - 1)
  BY PagingAssumption
<1>3. ASSUME NEW i \in Indexes
      PROVE  directory[i] \in Addresses /\ TableOf(i) = at[i]
  <2>1. at[i] \in Addresses /\ Aligned(at[i])
    BY PagingAssumption DEF Aligned
  <2>2. PICK n \in Numbers : at[i] = n * PageSize
    BY <2>1, AlignedIsPage
  <2>3. directory[i] = n * PageSize + d
    BY <1>1, <2>2 DEF Or
  <2>4. n \in Nat
    BY Sizes DEF Numbers
  <2> QED BY <1>2, <2>2, <2>3, <2>4, PageBelowWord, EntryParts DEF TableOf
<1>4. Shape
  BY <1>1, <1>3 DEF Shape
<1>5. Tables = {at[i] : i \in Indexes}
  BY <1>3 DEF Tables
<1> DEFINE which(a) == CHOOSE j \in Indexes : at[j] = a
<1>6. table = [a \in Tables |->
                 [b \in Indexes |-> (which(a) * EntriesPerTable + b) * PageSize + f]]
  BY <1>1, <1>5 DEF Or
<1>7. ASSUME NEW i \in Indexes PROVE which(TableOf(i)) = i
  <2>1. which(TableOf(i)) \in Indexes /\ at[which(TableOf(i))] = TableOf(i)
    BY <1>3
  <2> HIDE DEF which
  <2> QED BY <1>1, <1>3, <2>1
<1> HIDE DEF which
<1>8. table \in TableSets
  <2> SUFFICES ASSUME NEW a \in Tables, NEW b \in Indexes
               PROVE  (which(a) * EntriesPerTable + b) * PageSize + f \in Addresses
    BY <1>6 DEF TableSets
  <2>1. which(a) \in Indexes
    BY <1>7 DEF Tables
  <2>2. which(a) * EntriesPerTable + b = EntriesPerTable * which(a) + b
    BY <2>1, Sizes DEF Indexes
  <2>3. EntriesPerTable * which(a) + b \in Numbers
    BY <2>1, PageOfIndexes
  <2> QED BY <1>2, <2>2, <2>3, PageBelowWord
<1>9. ASSUME NEW n \in Numbers PROVE Cell(table, n) = n * PageSize + f
  <2> DEFINE i == n \div EntriesPerTable
             b == n % EntriesPerTable
  <2>1. i \in Indexes /\ b \in Indexes /\ n = EntriesPerTable * i + b
    BY IndexesOfPage
  <2>2. TableOf(i) \in Tables /\ which(TableOf(i)) = i
    BY <1>7, <2>1 DEF Tables
  <2> HIDE DEF i, b
  <2>3. table[TableOf(i)][b] = (i * EntriesPerTable + b) * PageSize + f
    BY <1>6, <2>1, <2>2
  <2>4. i * EntriesPerTable + b = n
    BY <2>1, Sizes DEF Indexes
  <2> QED BY <2>3, <2>4 DEF Cell, i, b
<1>10. IInv
  BY <1>1, <1>4, <1>8 DEF IInv
<1> QED BY <1>1, <1>9, <1>10

\* paging.c:119-195, process.c:381-404: an object changes the entries of its own
\* pages and of no other.
LEMMA MapObjectPages ==
    ASSUME IInv, NEW o \in Objects, NEW f \in Flags, MapObject(o, f)
    PROVE  /\ IInv'
           /\ \E v, p, c \in Numbers, u \in 0..(PageSize - 1) :
                /\ Spans(o, v, p, c, u)
                /\ \A m \in Numbers : Cell(table', m) = After(v, p, f, c)[m]
<1>1. PICK v \in Numbers, p \in Numbers, c \in Numbers, u \in 0..(PageSize - 1) :
        Spans(o, v, p, c, u)
  BY ObjectSpans
<1>2. f \in 0..(PageSize - 1)
  BY PagingAssumption
<1>3. table' = SetRange(v * PageSize, p * PageSize, (p + c) * PageSize, f)
  BY <1>1 DEF MapObject, Spans
<1>4. table' \in TableSets /\ \A m \in Numbers : Cell(table', m) = After(v, p, f, c)[m]
  <2>1. Shape /\ table \in TableSets /\ p + c \in Numbers
    BY <1>1 DEF IInv, Spans
  <2> QED BY <1>2, <1>3, <2>1, RangeIsSet
<1>5. UNCHANGED <<directory, loaded, tmp, old_entry>> /\ tmp = NoCopy
  BY DEF MapObject
<1>6. Shape' /\ TableSets' = TableSets
  BY <1>5 DEF IInv, Shape, TableOf, TableSets, Tables
<1>7. IInv'
  BY <1>4, <1>5, <1>6 DEF IInv
<1> QED BY <1>1, <1>4, <1>7

\* task.c:157-161: the buffer's page gets the buffer, the entry is kept.
LEMMA StartCopyPages ==
    ASSUME IInv, NEW buffer \in Addresses, Aligned(buffer), StartCopy(buffer)
    PROVE  /\ IInv'
           /\ \E n \in Numbers :
                /\ buffer = n * PageSize /\ old_entry' = Cell(table, n)
                /\ \A m \in Numbers \ {n} : Cell(table', m) = Cell(table, m)
<1>1. PICK n \in Numbers : buffer = n * PageSize
  BY AlignedIsPage
<1>2. WriteableFlags \in 0..(PageSize - 1) /\ n \in Nat
  BY PagingAssumption, Sizes DEF Numbers
<1>3. Or(buffer, WriteableFlags) \in Addresses
  BY <1>1, <1>2, PageBelowWord DEF Or
<1>4. /\ table' = Set(table, n * PageSize, Or(buffer, WriteableFlags))
      /\ tmp' = buffer /\ old_entry' = Get(buffer) /\ loaded' = TRUE /\ directory' = directory
  BY <1>1 DEF StartCopy
<1>5. /\ table' \in TableSets
      /\ \A m \in Numbers :
            Cell(table', m) = IF m = n THEN Or(buffer, WriteableFlags) ELSE Cell(table, m)
  BY <1>3, <1>4, SetCell DEF IInv
<1>6. old_entry' = Cell(table, n) /\ old_entry' \in Addresses
  BY <1>1, <1>4, GetIsCell, CellIsAddress DEF IInv
<1>7. Shape' /\ TableSets' = TableSets
  BY <1>4 DEF IInv, Shape, TableOf, TableSets, Tables
<1>8. buffer # NoCopy
  BY Sizes DEF NoCopy, Addresses
<1>9. IInv'
  BY <1>4, <1>5, <1>6, <1>7, <1>8 DEF IInv, Aligned
<1> QED BY <1>1, <1>5, <1>6, <1>9

\* task.c:162-171: the entry is put back.
LEMMA EndCopyPages ==
    ASSUME IInv, EndCopy
    PROVE  /\ IInv'
           /\ \E n \in Numbers :
                /\ tmp = n * PageSize
                /\ \A m \in Numbers :
                      Cell(table', m) = IF m = n THEN old_entry ELSE Cell(table, m)
<1>1. tmp \in Addresses /\ Aligned(tmp) /\ old_entry \in Addresses
  BY DEF EndCopy, IInv
<1>2. PICK n \in Numbers : tmp = n * PageSize
  BY <1>1, AlignedIsPage
<1>3. /\ table' = Set(table, n * PageSize, old_entry)
      /\ tmp' = NoCopy /\ old_entry' = NoCopy /\ loaded' = FALSE /\ directory' = directory
  BY <1>2 DEF EndCopy
<1>4. /\ table' \in TableSets
      /\ \A m \in Numbers : Cell(table', m) = IF m = n THEN old_entry ELSE Cell(table, m)
  BY <1>1, <1>3, SetCell DEF IInv
<1>5. Shape' /\ TableSets' = TableSets
  BY <1>3 DEF IInv, Shape, TableOf, TableSets, Tables
<1>6. IInv'
  BY <1>3, <1>4, <1>5 DEF IInv
<1> QED BY <1>2, <1>4, <1>6

LEMMA StepInv == IInv /\ [Next]_vars => IInv'
<1> SUFFICES ASSUME IInv, [Next]_vars PROVE IInv'
  OBVIOUS
<1>1. CASE UNCHANGED vars
  BY <1>1 DEF vars, IInv, Shape, TableOf, TableSets, Tables, Aligned
<1>2. CASE Next
  BY <1>2, MapObjectPages, StartCopyPages, EndCopyPages DEF Next
<1> QED BY <1>1, <1>2

\* The invariant of a page directory.
THEOREM PagingInvariant == Spec => []IInv
<1>1. Init => IInv
  BY FreshSpace
<1> QED BY <1>1, StepInv, PTL DEF Spec

\* Every entry of the directory leads to a table that is there, and every entry of
\* a table is a 32-bit word, whatever is mapped (paging.c:98-255).
THEOREM PagingTypeCorrect == Spec => []TypeOK
  BY PagingInvariant, IInvTypes, PTL

-----------------------------------------------------------------------------
(* What the mapping of an object does to its bytes.                          *)

LEMMA BytesMapped ==
    ASSUME IInv, NEW o \in Objects, NEW f \in Flags, MapObject(o, f),
           NEW k \in 0..(o.bytes - 1)
    PROVE  LET byte == (o.virtual + k) % Word
               entry == Get(AlignToLowerPage(byte))'
           IN  /\ AddressPart(entry) + (byte % PageSize) = o.physical + k
               /\ FlagsPart(entry) = f
               /\ Aligned(byte) => GetPhysicalAddress(byte)' = o.physical + k
<1>1. PICK v \in Numbers, p \in Numbers, c \in Numbers, u \in 0..(PageSize - 1) :
        /\ Spans(o, v, p, c, u)
        /\ \A m \in Numbers : Cell(table', m) = After(v, p, f, c)[m]
  BY MapObjectPages
<1>2. /\ o.virtual = v * PageSize + u /\ o.physical = p * PageSize + u
      /\ o.physical + o.bytes <= (p + c) * PageSize
  BY <1>1 DEF Spans
<1>3. /\ v \in Nat /\ p \in Nat /\ c \in Nat /\ k \in Nat /\ u \in Nat /\ k < o.bytes
      /\ o.bytes \in Nat /\ f \in 0..(PageSize - 1)
  BY PagingAssumption, Sizes DEF Numbers, Addresses
<1> DEFINE j == (u + k) \div PageSize
           w == (u + k) % PageSize
           m == (v + j) % N
           byte == (o.virtual + k) % Word
<1>4. j \in Nat /\ w \in 0..(PageSize - 1) /\ u + k = j * PageSize + w
  BY <1>3, SplitAddress
<1> HIDE DEF j, w
<1>5. o.virtual + k = (v + j) * PageSize + w /\ o.physical + k = (p + j) * PageSize + w
  <2>1. /\ (v + j) * PageSize = v * PageSize + j * PageSize
        /\ (p + j) * PageSize = p * PageSize + j * PageSize
    BY <1>3, <1>4, Sizes
  <2>2. v * PageSize \in Nat /\ p * PageSize \in Nat /\ j * PageSize \in Nat
    BY <1>3, <1>4, Sizes
  <2> QED BY <1>2, <1>3, <1>4, <2>1, <2>2
<1>6. j < c /\ j \in Numbers
  <2>1. (p + j) * PageSize + w < (p + c) * PageSize
    <3>1. (p + j) * PageSize \in Nat /\ (p + c) * PageSize \in Nat /\ p * PageSize \in Nat
      BY <1>3, <1>4, Sizes
    <3> QED BY <1>2, <1>3, <1>4, <1>5, <3>1
  <2>2. p + j >= p + c => (p + j) * PageSize >= (p + c) * PageSize
    BY <1>3, <1>4, Sizes
  <2>3. (p + j) * PageSize \in Nat /\ (p + c) * PageSize \in Nat
    BY <1>3, <1>4, Sizes
  <2>4. j < c
    BY <1>3, <1>4, <2>1, <2>2, <2>3
  <2> QED BY <1>4, <2>4, Sizes DEF Numbers
<1>7. m \in Numbers /\ byte = m * PageSize + w
  <2>1. v + j \in Nat
    BY <1>3, <1>4
  <2> QED BY <1>4, <1>5, <2>1, WrapPage
<1>8. (m - v) % N = j
  BY <1>6, <1>7, PlacesBehind
<1> HIDE DEF m, byte
<1>9. Cell(table', m) = (p + j) * PageSize + f
  BY <1>1, <1>6, <1>7, <1>8 DEF After
<1>10. m \in Nat
  BY <1>7, Sizes DEF Numbers
<1>11. byte % PageSize = w /\ AlignToLowerPage(byte) = m * PageSize /\ m * PageSize \in Nat
  <2>1. byte % PageSize = w /\ m * PageSize \in Nat
    BY <1>4, <1>7, <1>10, InPage, PageStart
  <2> QED BY <1>4, <1>7, <2>1 DEF AlignToLowerPage
<1>12. directory' = directory
  BY DEF MapObject
<1>13. Get(m * PageSize)' = (p + j) * PageSize + f
  BY <1>7, <1>9, <1>12, GetIsCell
<1>14. /\ AddressPart((p + j) * PageSize + f) = (p + j) * PageSize
       /\ FlagsPart((p + j) * PageSize + f) = f
  <2>1. p + j \in Nat
    BY <1>3, <1>4
  <2> QED BY <1>3, <2>1, EntryParts
<1> DEFINE entry == Get(AlignToLowerPage(byte))'
<1>15. entry = (p + j) * PageSize + f
  BY <1>11, <1>13 DEF Get
<1>16. AddressPart(entry) + (byte % PageSize) = o.physical + k /\ FlagsPart(entry) = f
  <2> HIDE DEF entry
  <2> QED BY <1>5, <1>11, <1>14, <1>15
<1>17. ASSUME Aligned(byte) PROVE GetPhysicalAddress(byte)' = o.physical + k
  <2>1. w = 0
    BY <1>11, <1>17 DEF Aligned
  <2>2. byte = m * PageSize
    BY <1>7, <1>11, <2>1
  <2>3. GetPhysicalAddress(m * PageSize)' =
          AddressPart(Get(m * PageSize)') + ((m * PageSize) % PageSize)
    <3>1. Aligned(m * PageSize)
      BY <1>17, <2>2
    <3> QED BY <3>1 DEF GetPhysicalAddress, Get, Aligned, AddressPart
  <2>4. GetPhysicalAddress(m * PageSize)' = (p + j) * PageSize + w
    BY <1>11, <1>13, <1>14, <2>2, <2>3
  <2>5. GetPhysicalAddress(byte)' = GetPhysicalAddress(m * PageSize)'
    BY <2>2 DEF GetPhysicalAddress, Get, Aligned, AddressPart
  <2> QED BY <1>5, <2>4, <2>5
<1> QED BY <1>16, <1>17 DEF byte

\* Each byte of every object that is mapped is found at its place with the flags
\* asked for, whether the object begins or ends inside a page, crosses a table or
\* wraps around the space (paging.c:119-141, process.c:381-404).
THEOREM ObjectsFullyMapped == Spec => EveryByteMapped
<1>1. IInv /\ [Next]_vars =>
        [\A o \in Objects, f \in Flags :
          MapObject(o, f) =>
              \A k \in 0..(o.bytes - 1) :
                  LET byte == (o.virtual + k) % Word
                      entry == Get(AlignToLowerPage(byte))'
                  IN  /\ AddressPart(entry) + (byte % PageSize) = o.physical + k
                      /\ FlagsPart(entry) = f
                      /\ Aligned(byte) => GetPhysicalAddress(byte)' = o.physical + k]_vars
  BY BytesMapped
<1> QED BY <1>1, PagingInvariant, PTL DEF Spec, EveryByteMapped

-----------------------------------------------------------------------------
(* The refinement.                                                           *)

Seen(entry) ==
    [frame |-> AddressPart(entry) \div PageSize, flags |-> FlagsPart(entry)]

\* What a task's pages are: those of its directory, but for the page a buffer is
\* mapped to for a while.
Space ==
    [n \in 0..(EntriesPerTable * EntriesPerTable - 1) |->
        LET entry == IF n * PageSize = tmp THEN old_entry ELSE Get(n * PageSize)
        IN  [frame |-> AddressPart(entry) \div PageSize, flags |-> FlagsPart(entry)]]

LEMMA SpaceOfPage ==
    ASSUME NEW n \in Numbers
    PROVE  /\ Space[n] = Seen(IF n * PageSize = tmp THEN old_entry ELSE Cell(table, n))
           /\ directory' = directory =>
                Space'[n] = Seen(IF n * PageSize = tmp' THEN old_entry' ELSE Cell(table', n))
<1>1. Space[n] = Seen(IF n * PageSize = tmp THEN old_entry ELSE Cell(table, n))
  BY GetIsCell DEF Space, Seen, Numbers, N
<1>2. ASSUME directory' = directory
      PROVE  Space'[n] = Seen(IF n * PageSize = tmp' THEN old_entry' ELSE Cell(table', n))
  <2>1. Get(n * PageSize)' = Cell(table', n)
    BY <1>2, GetIsCell
  <2>2. Space'[n] = Seen(IF n * PageSize = tmp' THEN old_entry' ELSE Get(n * PageSize)')
    BY DEF Space, Seen, Numbers, N, AddressPart, FlagsPart, Get
  <2> QED BY <2>1, <2>2
<1> QED BY <1>1, <1>2

LEMMA SpaceIsArray ==
    /\ Space = [n \in Numbers |-> Space[n]] /\ Space' = [n \in Numbers |-> Space'[n]]
  BY DEF Space, Numbers, N

LEMMA NotNoCopy == \A n \in Numbers : n * PageSize # NoCopy
<1> SUFFICES ASSUME NEW n \in Numbers PROVE n * PageSize # NoCopy
  OBVIOUS
<1>1. n * PageSize \in Nat
  BY Sizes DEF Numbers
<1> QED BY <1>1 DEF NoCopy

\* Mapping an object is the mapping of a range of pages.
LEMMA MapIsMap ==
    ASSUME IInv, NEW o \in Objects, NEW f \in Flags, MapObject(o, f)
    PROVE  /\ loaded = FALSE /\ loaded' = loaded
           /\ \E v, p, c \in Numbers :
                /\ p + c <= N
                /\ \A m \in Numbers :
                      Space'[m] = IF (m - v) % N < c
                                    THEN [frame |-> p + ((m - v) % N), flags |-> f]
                                    ELSE Space[m]
<1>1. PICK v \in Numbers, p \in Numbers, c \in Numbers, u \in 0..(PageSize - 1) :
        /\ Spans(o, v, p, c, u)
        /\ \A m \in Numbers : Cell(table', m) = After(v, p, f, c)[m]
  BY MapObjectPages
<1>2. UNCHANGED <<directory, loaded, tmp>> /\ tmp = NoCopy /\ loaded = FALSE
  BY DEF MapObject, IInv
<1>3. f \in 0..(PageSize - 1) /\ p + c <= N /\ p \in Nat /\ c \in Nat
  BY <1>1, PagingAssumption, Sizes DEF Spans, Numbers
<1>4. ASSUME NEW m \in Numbers
      PROVE  Space'[m] = IF (m - v) % N < c
                           THEN [frame |-> p + ((m - v) % N), flags |-> f] ELSE Space[m]
  <2> DEFINE j == (m - v) % N
  <2>1. Space'[m] = Seen(Cell(table', m)) /\ Space[m] = Seen(Cell(table, m))
    BY <1>2, NotNoCopy, SpaceOfPage
  <2>2. Cell(table', m) = IF j < c THEN (p + j) * PageSize + f ELSE Cell(table, m)
    BY <1>1 DEF After
  <2>3. j \in Nat
    BY PlacesBehind, Sizes DEF Numbers
  <2> HIDE DEF j
  <2>4. Seen((p + j) * PageSize + f) = [frame |-> p + j, flags |-> f]
    <3>1. p + j \in Nat
      BY <1>3, <2>3
    <3> QED BY <1>3, <3>1, EntryParts DEF Seen
  <2>5. Space'[m] = IF j < c THEN [frame |-> p + j, flags |-> f] ELSE Space[m]
    BY <2>1, <2>2, <2>4
  <2> QED BY <2>5 DEF j
<1> QED BY <1>2, <1>3, <1>4

LEMMA StartCopyIsCopy ==
    ASSUME IInv, NEW buffer \in Addresses, Aligned(buffer), StartCopy(buffer)
    PROVE  loaded' = ~loaded /\ Space' = Space
<1>1. PICK n \in Numbers :
        /\ buffer = n * PageSize /\ old_entry' = Cell(table, n)
        /\ \A m \in Numbers \ {n} : Cell(table', m) = Cell(table, m)
  BY StartCopyPages
<1>2. directory' = directory /\ tmp = NoCopy /\ tmp' = buffer /\ loaded = FALSE /\ loaded' = TRUE
  BY DEF StartCopy, IInv
<1>3. ASSUME NEW m \in Numbers PROVE Space'[m] = Space[m]
  <2>1. Space[m] = Seen(Cell(table, m))
    BY <1>2, NotNoCopy, SpaceOfPage
  <2>2. Space'[m] = Seen(IF m * PageSize = n * PageSize THEN old_entry' ELSE Cell(table', m))
    BY <1>1, <1>2, SpaceOfPage
  <2>3. m * PageSize = n * PageSize => m = n
    <3>1. m \in Nat /\ n \in Nat
      BY Sizes DEF Numbers
    <3> QED BY <3>1, PageStart
  <2> QED BY <1>1, <2>1, <2>2, <2>3
<1>4. Space' = Space
  <2> HIDE DEF Space
  <2> QED BY <1>3, SpaceIsArray
<1> QED BY <1>2, <1>4

LEMMA EndCopyIsCopy ==
    ASSUME IInv, EndCopy
    PROVE  loaded' = ~loaded /\ Space' = Space
<1>1. PICK n \in Numbers :
        /\ tmp = n * PageSize
        /\ \A m \in Numbers : Cell(table', m) = IF m = n THEN old_entry ELSE Cell(table, m)
  BY EndCopyPages
<1>2. directory' = directory /\ tmp' = NoCopy /\ loaded = TRUE /\ loaded' = FALSE
  BY DEF EndCopy, IInv
<1>3. ASSUME NEW m \in Numbers PROVE Space'[m] = Space[m]
  <2>1. Space[m] = Seen(IF m * PageSize = n * PageSize THEN old_entry ELSE Cell(table, m))
    BY <1>1, SpaceOfPage
  <2>2. Space'[m] = Seen(Cell(table', m))
    BY <1>2, NotNoCopy, SpaceOfPage
  <2>3. m * PageSize = n * PageSize <=> m = n
    <3>1. m \in Nat /\ n \in Nat
      BY Sizes DEF Numbers
    <3> QED BY <3>1, PageStart
  <2> QED BY <1>1, <2>1, <2>2, <2>3
<1>4. Space' = Space
  <2> HIDE DEF Space
  <2> QED BY <1>3, SpaceIsArray
<1> QED BY <1>2, <1>4

\* The page directory implements a flat address space: mapping an object changes
\* its own pages and no other, wherever the tables lie, and copying a string leaves
\* the space as it was (paging.c:98-255, task.c:142-177).
THEOREM PagingRefinesSpace == Spec => KeepsPromise
<1>1. Init => Pages!Init
  <2> SUFFICES ASSUME Init PROVE Pages!Init
    OBVIOUS
  <2>1. PICK f \in Flags : \A n \in Numbers : Cell(table, n) = n * PageSize + f
    BY FreshSpace
  <2>2. f \in 0..(PageSize - 1) /\ tmp = NoCopy /\ loaded = FALSE
    BY FreshSpace, PagingAssumption
  <2>3. ASSUME NEW n \in Numbers PROVE Space[n] = [frame |-> n, flags |-> f]
    <3>1. Space[n] = Seen(n * PageSize + f)
      BY <2>1, <2>2, NotNoCopy, SpaceOfPage
    <3>2. n \in Nat
      BY Sizes DEF Numbers
    <3> QED BY <2>2, <3>1, <3>2, EntryParts DEF Seen
  <2>4. Space = [n \in Numbers |-> [frame |-> n, flags |-> f]]
    <3> HIDE DEF Space
    <3> QED BY <2>3, SpaceIsArray
  <2> QED BY <2>2, <2>4 DEF Pages!Init, Pages!Numbers, Numbers, N, Space
<1>2. IInv /\ [Next]_vars => [Pages!Next]_<<Space, loaded>>
  <2> SUFFICES ASSUME IInv, [Next]_vars PROVE [Pages!Next]_<<Space, loaded>>
    OBVIOUS
  <2>1. ASSUME NEW o \in Objects, NEW f \in Flags, MapObject(o, f) PROVE Pages!Next
    <3>1. loaded = FALSE /\ loaded' = loaded
      BY <2>1, MapIsMap
    <3>2. PICK v \in Numbers, p \in Numbers, c \in Numbers :
            /\ p + c <= N
            /\ \A m \in Numbers :
                  Space'[m] = IF (m - v) % N < c
                                THEN [frame |-> p + ((m - v) % N), flags |-> f] ELSE Space[m]
      BY <2>1, MapIsMap
    <3>3. Space' = [m \in Numbers |->
                      IF (m - v) % N < c
                        THEN [frame |-> p + ((m - v) % N), flags |-> f] ELSE Space[m]]
      <4> HIDE DEF Space
      <4> QED BY <3>2, SpaceIsArray
    <3>4. Pages!Map(v, p, c, f)
      BY <3>1, <3>3 DEF Pages!Map, Pages!Numbers, Numbers, N, Space
    <3> QED BY <3>2, <3>4 DEF Pages!Next, Pages!Numbers, Numbers, N
  <2>2. ASSUME NEW buffer \in {a \in Addresses : Aligned(a)}, StartCopy(buffer)
        PROVE  Pages!Copy
    BY <2>2, StartCopyIsCopy DEF Pages!Copy, Space
  <2>3. CASE EndCopy
    <3>1. Pages!Copy
      BY <2>3, EndCopyIsCopy DEF Pages!Copy, Space
    <3> QED BY <3>1 DEF Pages!Next
  <2>4. CASE UNCHANGED vars
    BY <2>4 DEF vars, Space, Get
  <2> QED BY <2>1, <2>2, <2>3, <2>4 DEF Next, Pages!Next
<1> QED BY <1>1, <1>2, PagingInvariant, PTL DEF Spec, KeepsPromise, Pages!Spec, Space
=============================================================================
