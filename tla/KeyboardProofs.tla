--------------------------- MODULE KeyboardProofs ---------------------------
(***************************************************************************)
(* The ring of each process_t is a queue of keys until it is overrun, and    *)
(* the focus is on a live process, for every number of processes, every size *)
(* of the ring that divides Word and every set of keys.                      *)
(***************************************************************************)
EXTENDS Keyboard, SequenceTheorems, WellFoundedInduction, TLAPS

\* A ring with these cells, head and tail holds these keys.
Holds(cells, h, t, keys) ==
    /\ (t - h) % BufferSize = Len(keys) % BufferSize
    /\ \A i \in Cells :
          cells[(h + i) % BufferSize] = IF i < Len(keys) THEN keys[i + 1] ELSE Zero

Rings == [Cells -> Chars \cup {Zero}]
Indexes == 0..(Word - 1)
Contents == {keys \in Seq(Chars) : Len(keys) <= BufferSize}

\* The inductive invariant.  A slot without a process holds an empty ring, and
\* a ring that was overrun anything.
IInv ==
    /\ TypeOK
    /\ \A p \in Slots \ overrun : Holds(buffer[p], head[p], tail[p], unread[p])
    /\ FocusExists

-----------------------------------------------------------------------------
(* Arithmetic of the indices.                                                *)

LEMMA Division ==
    ASSUME NEW x \in Int, NEW n \in Nat \ {0}
    PROVE  x \div n \in Int /\ x % n \in 0..(n - 1) /\ x = n * (x \div n) + (x % n)
  OBVIOUS

LEMMA Remainder ==
    ASSUME NEW q \in Int, NEW r \in 0..(BufferSize - 1)
    PROVE  (BufferSize * q + r) % BufferSize = r
  BY SizeAssumption

LEMMA FullCircle ==
    ASSUME NEW x \in 0..BufferSize
    PROVE  x % BufferSize = IF x = BufferSize THEN 0 ELSE x
<1>1. CASE x = BufferSize
  <2>1. (BufferSize * 1 + 0) % BufferSize = 0 /\ BufferSize * 1 + 0 = x
    BY <1>1, SizeAssumption, Remainder
  <2> QED BY <1>1, <2>1
<1>2. CASE x # BufferSize
  BY <1>2, SizeAssumption
<1> QED BY <1>1, <1>2

\* The cell i places behind x: at most one wrap.
LEMMA CellBehind ==
    ASSUME NEW x \in Int, NEW i \in 0..BufferSize
    PROVE  (x + i) % BufferSize =
             IF (x % BufferSize) + i < BufferSize THEN (x % BufferSize) + i
             ELSE (x % BufferSize) + i - BufferSize
<1> DEFINE q == x \div BufferSize
           r == x % BufferSize
<1>1. q \in Int /\ r \in 0..(BufferSize - 1) /\ x = BufferSize * q + r
  BY SizeAssumption, Division
<1> HIDE DEF q, r
<1>2. CASE r + i < BufferSize
  <2>1. r + i \in 0..(BufferSize - 1) /\ x + i = BufferSize * q + (r + i)
    BY <1>1, <1>2, SizeAssumption
  <2> QED BY <1>1, <1>2, <2>1, Remainder, SizeAssumption DEF r
<1>3. CASE ~(r + i < BufferSize)
  <2>1. r + i - BufferSize \in 0..(BufferSize - 1) /\ q + 1 \in Int
    BY <1>1, <1>3, SizeAssumption
  <2>2. BufferSize * (q + 1) = BufferSize * q + BufferSize
    BY <1>1, SizeAssumption
  <2>3. x + i = BufferSize * (q + 1) + (r + i - BufferSize)
    BY <1>1, <2>2, SizeAssumption
  <2> QED BY <1>3, <2>1, <2>3, Remainder, SizeAssumption DEF r
<1> QED BY <1>2, <1>3 DEF r

\* How far y is behind x in the ring.
LEMMA Distance ==
    ASSUME NEW x \in Nat, NEW y \in Nat
    PROVE  (x - y) % BufferSize =
             IF x % BufferSize >= y % BufferSize
               THEN (x % BufferSize) - (y % BufferSize)
               ELSE (x % BufferSize) - (y % BufferSize) + BufferSize
<1> DEFINE q == x \div BufferSize
           r == x % BufferSize
           p == y \div BufferSize
           s == y % BufferSize
<1>1. q \in Int /\ r \in 0..(BufferSize - 1) /\ x = BufferSize * q + r
  BY SizeAssumption, Division
<1>2. p \in Int /\ s \in 0..(BufferSize - 1) /\ y = BufferSize * p + s
  BY SizeAssumption, Division
<1> HIDE DEF q, r, p, s
<1>3. CASE r >= s
  <2>1. /\ r - s \in 0..(BufferSize - 1) /\ q - p \in Int
        /\ x - y = BufferSize * (q - p) + (r - s)
    BY <1>1, <1>2, <1>3, SizeAssumption
  <2> QED BY <1>3, <2>1, Remainder, SizeAssumption DEF r, s
<1>4. CASE ~(r >= s)
  <2>1. /\ r - s + BufferSize \in 0..(BufferSize - 1) /\ q - p - 1 \in Int
        /\ x - y = BufferSize * (q - p - 1) + (r - s + BufferSize)
    BY <1>1, <1>2, <1>4, SizeAssumption
  <2> QED BY <1>4, <2>1, Remainder, SizeAssumption DEF r, s
<1> QED BY <1>3, <1>4 DEF r, s

\* An index that wraps at Word leads to the same cell.
LEMMA WrapKeepsCell ==
    ASSUME NEW x \in Nat
    PROVE  (x % Word) % BufferSize = x % BufferSize
<1> DEFINE q == x \div Word
           r == x % Word
           p == r \div BufferSize
           s == r % BufferSize
           m == Word \div BufferSize
<1>1. q \in Int /\ r \in Nat /\ x = Word * q + r
  BY SizeAssumption, Division
<1>2. p \in Int /\ s \in 0..(BufferSize - 1) /\ r = BufferSize * p + s
  BY <1>1, SizeAssumption, Division
<1>3. m \in Int /\ Word = BufferSize * m
  BY SizeAssumption, Division
<1> HIDE DEF q, r, p, s, m
<1>4. x = BufferSize * (m * q + p) + s /\ m * q + p \in Int
  <2>1. Word * q = BufferSize * (m * q)
    BY <1>1, <1>3, SizeAssumption
  <2> QED BY <1>1, <1>2, <1>3, <2>1, SizeAssumption
<1> QED BY <1>2, <1>4, Remainder, SizeAssumption DEF r, s

\* Head or tail goes to the next cell.
LEMMA NextIndex ==
    ASSUME NEW x \in Indexes
    PROVE  /\ (x + 1) % Word \in Indexes
           /\ ((x + 1) % Word) % BufferSize = (x + 1) % BufferSize
<1>1. x + 1 \in Nat /\ x + 1 \in Int /\ Word \in Nat \ {0}
  BY SizeAssumption DEF Indexes
<1>2. (x + 1) % Word \in Indexes
  BY <1>1, Division DEF Indexes
<1>3. ((x + 1) % Word) % BufferSize = (x + 1) % BufferSize
  BY <1>1, WrapKeepsCell
<1> QED BY <1>2, <1>3

\* The cell i places behind the next index.
LEMMA CellBehindNext ==
    ASSUME NEW x \in Indexes, NEW i \in Cells
    PROVE  (((x + 1) % Word) + i) % BufferSize =
             IF i = BufferSize - 1 THEN x % BufferSize
             ELSE (x + (i + 1)) % BufferSize
<1> DEFINE r == x % BufferSize
           y == (x + 1) % Word
           s == y % BufferSize
<1>1. x \in Int /\ y \in Int /\ i \in 0..BufferSize /\ i + 1 \in 0..BufferSize
      /\ 1 \in 0..BufferSize /\ BufferSize \in Nat \ {0}
  BY NextIndex, SizeAssumption DEF Indexes, Cells
<1>2. r \in 0..(BufferSize - 1)
  BY <1>1, Division
<1>3. s = IF r + 1 < BufferSize THEN r + 1 ELSE r + 1 - BufferSize
  BY <1>1, NextIndex, CellBehind
<1>4. (y + i) % BufferSize = IF s + i < BufferSize THEN s + i ELSE s + i - BufferSize
  BY <1>1, CellBehind
<1>5. (x + (i + 1)) % BufferSize =
        IF r + (i + 1) < BufferSize THEN r + (i + 1) ELSE r + (i + 1) - BufferSize
  BY <1>1, CellBehind
<1> HIDE DEF r, s
<1>6. CASE i = BufferSize - 1
  BY <1>1, <1>2, <1>3, <1>4, <1>6 DEF r
<1>7. CASE i # BufferSize - 1
  BY <1>1, <1>2, <1>3, <1>4, <1>5, <1>7 DEF Cells
<1> QED BY <1>6, <1>7

-----------------------------------------------------------------------------
(* What pushing and popping a key does to a ring.                            *)

LEMMA FreshHolds == Holds([c \in Cells |-> Zero], 0, 0, <<>>)
<1>1. \A i \in Cells : (0 + i) % BufferSize \in Cells
  BY SizeAssumption, Division DEF Cells
<1>2. (0 - 0) % BufferSize = Len(<<>>) % BufferSize
  OBVIOUS
<1>3. \A i \in Cells : ~(i < Len(<<>>))
  BY DEF Cells
<1> QED BY <1>1, <1>2, <1>3 DEF Holds

LEMMA PushHolds ==
    ASSUME NEW cells \in Rings, NEW h \in Indexes, NEW t \in Indexes,
           NEW keys \in Contents, Len(keys) # BufferSize, NEW c \in Chars,
           Holds(cells, h, t, keys)
    PROVE  /\ Append(keys, c) \in Contents
           /\ Holds([cells EXCEPT ![t % BufferSize] = c], h, (t + 1) % Word, Append(keys, c))
<1> DEFINE r == h % BufferSize
           s == t % BufferSize
           u == (t + 1) % Word
<1>1. /\ BufferSize \in Nat \ {0} /\ h \in Nat /\ t \in Nat /\ u \in Nat
      /\ Len(keys) \in 0..(BufferSize - 1) /\ 1 \in 0..BufferSize
      /\ keys \in Seq(Chars) /\ Len(keys) + 1 \in 0..BufferSize
  BY NextIndex, SizeAssumption DEF Indexes, Contents
<1>2. r \in 0..(BufferSize - 1) /\ s \in 0..(BufferSize - 1)
  BY <1>1, Division
<1>3. Len(keys) % BufferSize = Len(keys)
  BY <1>1, FullCircle
<1>4. (t - h) % BufferSize = IF s >= r THEN s - r ELSE s - r + BufferSize
  BY <1>1, Distance
<1>5. (t - h) % BufferSize = Len(keys)
  BY <1>3 DEF Holds
<1>6. u % BufferSize = IF s + 1 < BufferSize THEN s + 1 ELSE s + 1 - BufferSize
  <2>1. u % BufferSize = (t + 1) % BufferSize /\ t \in Int
    BY <1>1, NextIndex
  <2> QED BY <1>1, <2>1, CellBehind
<1>7. (u - h) % BufferSize =
        IF (u % BufferSize) >= r THEN (u % BufferSize) - r
        ELSE (u % BufferSize) - r + BufferSize
  BY <1>1, Distance
<1>8. (Len(keys) + 1) % BufferSize = IF Len(keys) + 1 = BufferSize THEN 0 ELSE Len(keys) + 1
  BY <1>1, FullCircle
<1>9. Append(keys, c) \in Contents /\ Len(Append(keys, c)) = Len(keys) + 1
  BY <1>1 DEF Contents
<1>10. (u - h) % BufferSize = Len(Append(keys, c)) % BufferSize
  <2> DEFINE n == Len(keys)
             v == u % BufferSize
             w == (u - h) % BufferSize
  <2>1. /\ n \in 0..(BufferSize - 1)
        /\ n = IF s >= r THEN s - r ELSE s - r + BufferSize
        /\ v = IF s + 1 < BufferSize THEN s + 1 ELSE s + 1 - BufferSize
        /\ w = IF v >= r THEN v - r ELSE v - r + BufferSize
    BY <1>1, <1>4, <1>5, <1>6, <1>7
  <2>2. (n + 1) % BufferSize = IF n + 1 = BufferSize THEN 0 ELSE n + 1
    BY <1>8
  <2> HIDE DEF r, s, u, n, v, w
  <2>3. BufferSize \in Nat \ {0}
    BY <1>1
  <2>4. w = IF n + 1 = BufferSize THEN 0 ELSE n + 1
    <3>1. CASE s + 1 < BufferSize
      BY <1>2, <2>1, <2>3, <3>1
    <3>2. CASE ~(s + 1 < BufferSize)
      BY <1>2, <2>1, <2>3, <3>2
    <3> QED BY <3>1, <3>2
  <2> QED BY <1>9, <2>2, <2>4 DEF n, w
<1>11. ASSUME NEW i \in Cells
       PROVE  [cells EXCEPT ![s] = c][(h + i) % BufferSize] =
                IF i < Len(Append(keys, c)) THEN Append(keys, c)[i + 1] ELSE Zero
  <2>1. (h + i) % BufferSize = IF r + i < BufferSize THEN r + i ELSE r + i - BufferSize
    <3>1. h \in Int /\ i \in 0..BufferSize
      BY <1>1 DEF Cells
    <3> QED BY <3>1, CellBehind
  <2>2. (h + i) % BufferSize \in Cells /\ ((h + i) % BufferSize = s <=> i = Len(keys))
    <3> HIDE DEF r, s
    <3> QED BY <1>1, <1>2, <1>4, <1>5, <2>1 DEF Cells
  <2>3. cells[(h + i) % BufferSize] = IF i < Len(keys) THEN keys[i + 1] ELSE Zero
    BY DEF Holds
  <2>4. i \in Nat /\ (i < Len(keys) => Append(keys, c)[i + 1] = keys[i + 1])
        /\ Append(keys, c)[Len(keys) + 1] = c
    BY <1>1 DEF Cells
  <2> HIDE DEF s
  <2>5. CASE i = Len(keys)
    BY <1>1, <1>9, <2>2, <2>4, <2>5 DEF Rings
  <2>6. CASE i # Len(keys)
    BY <1>1, <1>9, <2>2, <2>3, <2>4, <2>6 DEF Rings
  <2> QED BY <2>5, <2>6
<1> QED BY <1>9, <1>10, <1>11 DEF Holds

LEMMA PopHolds ==
    ASSUME NEW cells \in Rings, NEW h \in Indexes, NEW t \in Indexes,
           NEW keys \in Contents,
           Holds(cells, h, t, keys), cells[h % BufferSize] # Zero
    PROVE  /\ keys # <<>> /\ Tail(keys) \in Contents
           /\ Holds([cells EXCEPT ![h % BufferSize] = Zero], (h + 1) % Word, t, Tail(keys))
<1> DEFINE r == h % BufferSize
           s == t % BufferSize
           g == (h + 1) % Word
<1>1. /\ BufferSize \in Nat \ {0} /\ h \in Nat /\ t \in Nat /\ g \in Nat
      /\ Len(keys) \in 0..BufferSize /\ keys \in Seq(Chars)
      /\ 0 \in 0..BufferSize /\ 1 \in 0..BufferSize /\ 0 \in Cells
  BY NextIndex, SizeAssumption DEF Indexes, Contents, Cells
<1>2. r \in 0..(BufferSize - 1) /\ s \in 0..(BufferSize - 1)
  BY <1>1, Division
<1>3. Len(keys) > 0
  <2>1. (h + 0) % BufferSize = r
    BY <1>1
  <2>2. cells[(h + 0) % BufferSize] = IF 0 < Len(keys) THEN keys[0 + 1] ELSE Zero
    BY <1>1 DEF Holds
  <2> QED BY <1>1, <2>1, <2>2
<1>4. /\ keys # <<>> /\ Tail(keys) \in Contents /\ Len(Tail(keys)) = Len(keys) - 1
      /\ \A i \in 1..(Len(keys) - 1) : Tail(keys)[i] = keys[i + 1]
  BY <1>1, <1>3 DEF Contents
<1>5. (t - h) % BufferSize = IF s >= r THEN s - r ELSE s - r + BufferSize
  BY <1>1, Distance
<1>6. g % BufferSize = IF r + 1 < BufferSize THEN r + 1 ELSE r + 1 - BufferSize
  <2>1. g % BufferSize = (h + 1) % BufferSize /\ h \in Int
    BY <1>1, NextIndex
  <2> QED BY <1>1, <2>1, CellBehind
<1>7. (t - g) % BufferSize =
        IF s >= (g % BufferSize) THEN s - (g % BufferSize)
        ELSE s - (g % BufferSize) + BufferSize
  BY <1>1, Distance
<1>8. Len(keys) % BufferSize = IF Len(keys) = BufferSize THEN 0 ELSE Len(keys)
  BY <1>1, FullCircle
<1>9. (Len(keys) - 1) % BufferSize = Len(keys) - 1
  <2>1. Len(keys) - 1 \in 0..BufferSize /\ Len(keys) - 1 # BufferSize
    BY <1>1, <1>3
  <2> QED BY <2>1, FullCircle
<1>10. (t - g) % BufferSize = Len(Tail(keys)) % BufferSize
  <2>1. (t - h) % BufferSize = Len(keys) % BufferSize
    BY DEF Holds
  <2> DEFINE before == (t - h) % BufferSize
             after == (t - g) % BufferSize
             next == g % BufferSize
             n == Len(keys)
  <2>2. /\ before = IF n = BufferSize THEN 0 ELSE n
        /\ before = IF s >= r THEN s - r ELSE s - r + BufferSize
        /\ next = IF r + 1 < BufferSize THEN r + 1 ELSE r + 1 - BufferSize
        /\ after = IF s >= next THEN s - next ELSE s - next + BufferSize
        /\ n \in 1..BufferSize
    BY <1>1, <1>3, <1>5, <1>6, <1>7, <1>8, <2>1
  <2>3. after = n - 1
    <3> HIDE DEF before, after, next, n, r, s
    <3> QED BY <1>1, <1>2, <2>2
  <2> QED BY <1>4, <1>9, <2>3
<1>11. ASSUME NEW i \in Cells
       PROVE  [cells EXCEPT ![r] = Zero][(g + i) % BufferSize] =
                IF i < Len(Tail(keys)) THEN Tail(keys)[i + 1] ELSE Zero
  <2>1. (g + i) % BufferSize = IF i = BufferSize - 1 THEN r ELSE (h + (i + 1)) % BufferSize
    BY CellBehindNext
  <2>2. CASE i = BufferSize - 1
    <3>1. ~(i < Len(Tail(keys))) /\ r \in Cells
      BY <1>1, <1>2, <1>4, <2>2 DEF Cells
    <3> QED BY <2>1, <2>2, <3>1 DEF Rings
  <2>3. CASE i # BufferSize - 1
    <3>1. i + 1 \in Cells /\ i + 1 \in 0..BufferSize /\ i \in Nat
      BY <1>1, <2>3 DEF Cells
    <3>2. (h + (i + 1)) % BufferSize =
            IF r + (i + 1) < BufferSize THEN r + (i + 1) ELSE r + (i + 1) - BufferSize
      <4>1. h \in Int
        BY <1>1
      <4> QED BY <3>1, <4>1, CellBehind
    <3>3. (h + (i + 1)) % BufferSize # r /\ (h + (i + 1)) % BufferSize \in Cells
      <4> HIDE DEF r
      <4> QED BY <1>1, <1>2, <2>3, <3>1, <3>2 DEF Cells
    <3>4. cells[(h + (i + 1)) % BufferSize] =
            IF i + 1 < Len(keys) THEN keys[(i + 1) + 1] ELSE Zero
      BY <3>1 DEF Holds
    <3>5. i < Len(Tail(keys)) => Tail(keys)[i + 1] = keys[(i + 1) + 1]
      BY <1>1, <1>4, <3>1
    <3>6. i < Len(Tail(keys)) <=> i + 1 < Len(keys)
      BY <1>1, <1>4, <3>1
    <3> HIDE DEF r, g
    <3> QED BY <2>1, <2>3, <3>3, <3>4, <3>5, <3>6 DEF Rings
  <2> QED BY <2>2, <2>3
<1> QED BY <1>4, <1>10, <1>11 DEF Holds

-----------------------------------------------------------------------------
(* The steps.                                                                *)

LEMMA SlotsNonEmpty == 0 \in Slots
  BY SizeAssumption DEF Slots

LEMMA ZeroIsNoKey == Zero \notin Chars
<1>1. \A c \in Chars : c.code \in Letters \cup Symbols
  BY DEF Chars, Char
<1>2. Zero.code = "0"
  BY DEF Zero, Char
<1> QED BY <1>1, <1>2, ZeroAssumption

\* Every set of slots has a least one.
LEMMA LeastOfSlots ==
    ASSUME NEW slots \in SUBSET Nat, slots # {}
    PROVE  \E p \in slots : \A q \in slots : p <= q
<1>1. PICK p \in slots : \A q \in slots : ~(<<q, p>> \in OpToRel(<, Nat))
  BY NatLessThanWellFounded, WFMin
<1>2. \A q \in slots : ~(q < p)
  BY <1>1 DEF OpToRel
<1> QED BY <1>2

\* Lowest is what its name says of any occupied slots.
LEMMA LowestIsIn ==
    ASSUME NEW slots \in SUBSET Slots, slots # {}
    PROVE  Lowest(slots) \in slots
<1>1. PICK n \in slots : TRUE
  OBVIOUS
<1>2. slots \subseteq Nat
  BY DEF Slots
<1>3. \E p \in slots : \A q \in slots : p <= q
  BY <1>2, LeastOfSlots
<1> QED BY <1>3 DEF Lowest

LEMMA InitInv == Init => IInv
<1> SUFFICES ASSUME Init PROVE IInv
  OBVIOUS
<1>1. TypeOK
  BY SlotsNonEmpty, SizeAssumption DEF Init, TypeOK
<1>2. \A p \in Slots : Holds(buffer[p], head[p], tail[p], unread[p])
  BY FreshHolds DEF Init
<1> QED BY <1>1, <1>2 DEF Init, IInv, FocusExists

\* A key for the process with the focus.
LEMMA PushInv ==
    ASSUME IInv, ~panicked, NEW c \in Chars, Push(c),
           UNCHANGED <<processes, current_process, head, panicked>>,
           capslock_state' \in BOOLEAN
    PROVE  IInv'
<1> DEFINE p == current_process
<1>1. /\ p \in processes /\ p \in Slots /\ p # NoProcess
      /\ buffer[p] \in Rings /\ head[p] \in Indexes /\ tail[p] \in Indexes
      /\ unread[p] \in Contents
  BY DEF IInv, TypeOK, FocusExists, Slots, NoProcess, Rings, Indexes, Contents
<1>2. /\ buffer' = [buffer EXCEPT ![p][tail[p] % BufferSize] = c]
      /\ tail' = [tail EXCEPT ![p] = (tail[p] + 1) % Word]
      /\ Pushed(p, c)
  BY <1>1 DEF Push
<1> HIDE DEF p
<1>3. \A q \in Slots \ {p} :
         /\ buffer'[q] = buffer[q] /\ tail'[q] = tail[q] /\ unread'[q] = unread[q]
         /\ q \in overrun' <=> q \in overrun
  BY <1>1, <1>2 DEF IInv, TypeOK, Pushed
<1>4. /\ buffer'[p] = [buffer[p] EXCEPT ![tail[p] % BufferSize] = c]
      /\ tail'[p] = (tail[p] + 1) % Word
  BY <1>1, <1>2 DEF IInv, TypeOK
<1>5. CASE p \in overrun \/ Len(unread[p]) = BufferSize
  <2>1. overrun' = overrun \cup {p} /\ unread' = [unread EXCEPT ![p] = <<>>]
    BY <1>2, <1>5 DEF Pushed
  <2>2. TypeOK'
    <3>1. tail'[p] \in Indexes
      BY <1>1, <1>4, NextIndex
    <3>2. tail' \in [Slots -> Indexes]
      BY <1>2, <1>4, <3>1 DEF IInv, TypeOK, Indexes
    <3>3. buffer' \in [Slots -> Rings]
      BY <1>1, <1>2 DEF IInv, TypeOK, Rings
    <3>4. unread' \in [Slots -> Seq(Chars)] /\ \A q \in Slots : Len(unread'[q]) <= BufferSize
      <4>1. <<>> \in Seq(Chars) /\ Len(<<>>) <= BufferSize
        BY SizeAssumption
      <4> QED BY <2>1, <4>1 DEF IInv, TypeOK
    <3> QED BY <1>1, <2>1, <3>2, <3>3, <3>4 DEF IInv, TypeOK, Rings, Indexes
  <2>3. \A q \in Slots \ overrun' : Holds(buffer'[q], head'[q], tail'[q], unread'[q])
    BY <1>3, <2>1 DEF IInv
  <2> QED BY <2>2, <2>3 DEF IInv, FocusExists
<1>6. CASE ~(p \in overrun \/ Len(unread[p]) = BufferSize)
  <2>1. overrun' = overrun /\ unread' = [unread EXCEPT ![p] = Append(unread[p], c)]
    BY <1>2, <1>6 DEF Pushed
  <2>2. unread'[p] = Append(unread[p], c)
    BY <1>1, <2>1 DEF IInv, TypeOK
  <2>3. /\ Append(unread[p], c) \in Contents
        /\ Holds(buffer'[p], head'[p], tail'[p], unread'[p])
    <3>1. Holds(buffer[p], head[p], tail[p], unread[p]) /\ Len(unread[p]) # BufferSize
      BY <1>1, <1>6 DEF IInv
    <3>2. head'[p] = head[p]
      OBVIOUS
    <3> QED BY <1>1, <1>4, <2>2, <3>1, <3>2, PushHolds
  <2>4. TypeOK'
    <3>1. tail'[p] \in Indexes
      BY <1>1, <1>4, NextIndex
    <3>2. tail' \in [Slots -> Indexes]
      BY <1>2, <1>4, <3>1 DEF IInv, TypeOK, Indexes
    <3>3. buffer' \in [Slots -> Rings]
      BY <1>1, <1>2 DEF IInv, TypeOK, Rings
    <3>4. unread' \in [Slots -> Seq(Chars)] /\ \A q \in Slots : Len(unread'[q]) <= BufferSize
      BY <2>1, <2>3 DEF IInv, TypeOK, Contents
    <3> QED BY <1>1, <2>1, <3>2, <3>3, <3>4 DEF IInv, TypeOK, Rings, Indexes
  <2>5. \A q \in Slots \ overrun' : Holds(buffer'[q], head'[q], tail'[q], unread'[q])
    <3> SUFFICES ASSUME NEW q \in Slots \ overrun', q # p
                 PROVE  Holds(buffer'[q], head'[q], tail'[q], unread'[q])
      BY <2>3
    <3>1. Holds(buffer[q], head[q], tail[q], unread[q])
      BY <2>1 DEF IInv
    <3> QED BY <1>3, <3>1
  <2> QED BY <2>4, <2>5 DEF IInv, FocusExists
<1> QED BY <1>5, <1>6

LEMMA GetKeyInv ==
    ASSUME IInv, NEW p \in Slots, GetKey(p)
    PROVE  IInv'
<1> DEFINE i == head[p] % BufferSize
<1>1. /\ buffer[p] \in Rings /\ head[p] \in Indexes /\ tail[p] \in Indexes
      /\ unread[p] \in Contents
  BY DEF IInv, TypeOK, Rings, Indexes, Contents
<1>2. /\ p \in processes /\ buffer[p][i] # Zero
      /\ buffer' = [buffer EXCEPT ![p][i] = Zero]
      /\ head' = [head EXCEPT ![p] = (head[p] + 1) % Word]
      /\ unread' = [unread EXCEPT ![p] = IF p \in overrun THEN <<>> ELSE Tail(unread[p])]
      /\ UNCHANGED <<processes, current_process, tail, capslock_state, panicked, overrun>>
  BY DEF GetKey, Popped
<1>3. \A q \in Slots \ {p} :
         buffer'[q] = buffer[q] /\ head'[q] = head[q] /\ unread'[q] = unread[q]
  BY <1>2 DEF IInv, TypeOK
<1>4. /\ buffer'[p] = [buffer[p] EXCEPT ![i] = Zero]
      /\ head'[p] = (head[p] + 1) % Word
      /\ unread'[p] = IF p \in overrun THEN <<>> ELSE Tail(unread[p])
  BY <1>2 DEF IInv, TypeOK
<1>5. p \notin overrun => Tail(unread[p]) \in Contents
                          /\ Holds(buffer'[p], head'[p], tail'[p], unread'[p])
  <2> SUFFICES ASSUME p \notin overrun
               PROVE  Tail(unread[p]) \in Contents
                      /\ Holds(buffer'[p], head'[p], tail'[p], unread'[p])
    OBVIOUS
  <2>1. Holds(buffer[p], head[p], tail[p], unread[p])
    BY DEF IInv
  <2>2. /\ Tail(unread[p]) \in Contents
        /\ Holds([buffer[p] EXCEPT ![i] = Zero], (head[p] + 1) % Word, tail[p], Tail(unread[p]))
    BY <1>1, <1>2, <2>1, PopHolds
  <2>3. unread'[p] = Tail(unread[p]) /\ tail'[p] = tail[p]
    BY <1>2, <1>4
  <2> QED BY <1>4, <2>2, <2>3
<1>6. TypeOK'
  <2>1. head' \in [Slots -> Indexes]
    <3>1. (head[p] + 1) % Word \in Indexes
      BY <1>1, NextIndex
    <3> QED BY <1>2, <3>1 DEF IInv, TypeOK, Indexes
  <2>2. buffer' \in [Slots -> Rings]
    BY <1>1, <1>2 DEF IInv, TypeOK, Rings
  <2>3. unread' \in [Slots -> Seq(Chars)] /\ \A q \in Slots : Len(unread'[q]) <= BufferSize
    <3>1. unread'[p] \in Contents
      BY <1>4, <1>5, SizeAssumption DEF Contents
    <3> QED BY <1>2, <1>4, <3>1 DEF IInv, TypeOK, Contents
  <2> QED BY <1>2, <2>1, <2>2, <2>3 DEF IInv, TypeOK, Rings, Indexes
<1>7. \A q \in Slots \ overrun' : Holds(buffer'[q], head'[q], tail'[q], unread'[q])
  BY <1>2, <1>3, <1>5 DEF IInv
<1> QED BY <1>2, <1>6, <1>7 DEF IInv, FocusExists

\* A process_t that comes or goes takes its ring with it.
LEMMA ClearedInv ==
    ASSUME IInv, NEW p \in Slots, Cleared(p),
           processes' \subseteq Slots, overrun \ {p} \subseteq processes',
           current_process' \in Slots, panicked' \in BOOLEAN, FocusExists',
           UNCHANGED capslock_state
    PROVE  IInv'
<1>1. /\ buffer' = [buffer EXCEPT ![p] = [c \in Cells |-> Zero]]
      /\ head' = [head EXCEPT ![p] = 0] /\ tail' = [tail EXCEPT ![p] = 0]
      /\ unread' = [unread EXCEPT ![p] = <<>>] /\ overrun' = overrun \ {p}
  BY DEF Cleared
<1>2. TypeOK'
  BY <1>1, SizeAssumption DEF IInv, TypeOK
<1>3. ASSUME NEW q \in Slots \ overrun' PROVE Holds(buffer'[q], head'[q], tail'[q], unread'[q])
  <2>1. CASE q = p
    <3>1. buffer'[p] = [c \in Cells |-> Zero] /\ head'[p] = 0 /\ tail'[p] = 0 /\ unread'[p] = <<>>
      BY <1>1 DEF IInv, TypeOK
    <3> QED BY <2>1, <3>1, FreshHolds
  <2>2. CASE q # p
    <3>1. /\ buffer'[q] = buffer[q] /\ head'[q] = head[q] /\ tail'[q] = tail[q]
          /\ unread'[q] = unread[q] /\ q \notin overrun
      BY <1>1, <1>3, <2>2 DEF IInv, TypeOK
    <3> QED BY <3>1 DEF IInv
  <2> QED BY <2>1, <2>2
<1> QED BY <1>2, <1>3 DEF IInv

LEMMA LoadSwitchInv == ASSUME IInv, LoadSwitch PROVE IInv'
<1> DEFINE p == Lowest(Slots \ processes)
<1>1. p \in Slots /\ p \notin processes
  BY LowestIsIn DEF LoadSwitch
<1>2. /\ processes' = processes \cup {p} /\ current_process' = p /\ Cleared(p)
      /\ UNCHANGED <<capslock_state, panicked>>
  BY DEF LoadSwitch
<1> HIDE DEF p
<1>3. FocusExists'
  BY <1>2 DEF FocusExists
<1> QED BY <1>1, <1>2, <1>3, ClearedInv DEF IInv, TypeOK

LEMMA UnlinkInv == ASSUME IInv, NEW p \in Slots, Unlink(p) PROVE IInv'
<1>1. /\ ~panicked /\ p \in processes /\ processes' = processes \ {p}
      /\ Cleared(p) /\ UNCHANGED capslock_state
  BY DEF Unlink
<1>2. CASE current_process # p
  <2>1. UNCHANGED <<current_process, panicked>>
    BY <1>2 DEF Unlink
  <2>2. FocusExists'
    BY <1>1, <1>2, <2>1 DEF IInv, FocusExists
  <2> QED BY <1>1, <2>1, <2>2, ClearedInv DEF IInv, TypeOK
<1>3. CASE current_process = p /\ processes' = {}
  <2>1. panicked' = TRUE /\ UNCHANGED current_process
    BY <1>3 DEF Unlink
  <2>2. FocusExists'
    BY <2>1 DEF FocusExists
  <2> QED BY <1>1, <2>1, <2>2, ClearedInv DEF IInv, TypeOK
<1>4. CASE current_process = p /\ processes' # {}
  <2>1. current_process' = Lowest(processes') /\ UNCHANGED panicked
    BY <1>4 DEF Unlink
  <2>2. current_process' \in processes' /\ processes' \subseteq Slots
    BY <1>1, <1>4, <2>1, LowestIsIn DEF IInv, TypeOK
  <2>3. FocusExists'
    BY <2>2 DEF FocusExists
  <2> QED BY <1>1, <2>1, <2>2, <2>3, ClearedInv DEF IInv, TypeOK
<1> QED BY <1>2, <1>3, <1>4

\* The interrupt pushes a character.
LEMMA PressPushes ==
    ASSUME IInv, KeyPressed \/ KeyPastTable
    PROVE  /\ ~panicked /\ \E c \in Chars : Push(c)
           /\ UNCHANGED <<processes, current_process, head, capslock_state, panicked>>
<1>1. \A s \in Letters : Char(s, capslock_state) \in Chars
  BY DEF Chars, Char, IInv, TypeOK
<1>2. \A s \in Symbols : Char(s, FALSE) \in Chars
  BY DEF Chars, Char
<1> QED BY <1>1, <1>2 DEF KeyPressed, KeyPastTable

LEMMA StepInv == IInv /\ [Next]_vars => IInv'
<1> SUFFICES ASSUME IInv, [Next]_vars PROVE IInv'
  OBVIOUS
<1>1. CASE KeyPressed \/ KeyPastTable
  <2>1. /\ ~panicked /\ \E c \in Chars : Push(c)
        /\ UNCHANGED <<processes, current_process, head, capslock_state, panicked>>
    BY <1>1, PressPushes
  <2> QED BY <2>1, PushInv DEF IInv, TypeOK
<1>2. CASE CapsLockPressed
  BY <1>2 DEF CapsLockPressed, ring, IInv, TypeOK, FocusExists
<1>3. CASE LoadSwitch
  BY <1>3, LoadSwitchInv
<1>4. ASSUME NEW p \in Slots, GetKey(p) \/ Unlink(p) PROVE IInv'
  BY <1>4, GetKeyInv, UnlinkInv
<1>5. CASE UNCHANGED vars
  BY <1>5 DEF vars, IInv, TypeOK, FocusExists
<1> QED BY <1>1, <1>2, <1>3, <1>4, <1>5 DEF Next

-----------------------------------------------------------------------------
(* The theorems.                                                             *)

\* The inductive invariant of the process table and the rings.
THEOREM KeyboardInvariant == Spec => []IInv
  BY InitInv, StepInv, PTL DEF Spec

\* Types of the keyboard's state, for every size of the tables.
THEOREM KeyboardTypeCorrect == Spec => []TypeOK
<1>1. IInv => TypeOK
  BY DEF IInv
<1> QED BY <1>1, KeyboardInvariant, PTL

\* process_unlink and process_load_switch keep the focus on a live process, so
\* that no interrupt pushes a key to a process that has ended.
THEOREM FocusIsLive == Spec => []FocusExists
<1>1. IInv => FocusExists
  BY DEF IInv
<1> QED BY <1>1, KeyboardInvariant, PTL

\* However head and tail wrap, the ring of every process that was not overrun
\* holds its unread keys in order from head on, and zeroes elsewhere.
THEOREM RingIsExact == Spec => []RingHoldsUnread
<1>1. IInv => RingHoldsUnread
  <2> SUFFICES ASSUME IInv, NEW p \in processes \ overrun
               PROVE  Holds(buffer[p], head[p], tail[p], unread[p])
    BY DEF RingHoldsUnread, Holds, Cells
  <2> QED BY DEF IInv, TypeOK
<1> QED BY <1>1, KeyboardInvariant, PTL

\* What keyboard_pop would return one after the other from a ring with these
\* cells and this head.
InRing(cells, h) ==
    LET Cell(i) == cells[(h + i) % BufferSize]
        n == CHOOSE n \in 0..BufferSize :
                /\ \A i \in 0..(n - 1) : Cell(i) # Zero
                /\ n = BufferSize \/ Cell(n) = Zero
    IN  [i \in 1..n |-> Cell(i - 1)]

\* A ring gives back the keys it holds.
LEMMA HoldsContents ==
    ASSUME NEW cells, NEW h, NEW t, NEW keys \in Contents, Holds(cells, h, t, keys)
    PROVE  InRing(cells, h) = keys
<1> DEFINE Cell(i) == cells[(h + i) % BufferSize]
           Ends(n) == /\ \A i \in 0..(n - 1) : Cell(i) # Zero
                      /\ n = BufferSize \/ Cell(n) = Zero
<1>1. keys \in Seq(Chars) /\ Len(keys) \in 0..BufferSize /\ BufferSize \in Nat \ {0}
  BY SizeAssumption DEF Contents
<1>2. \A i \in Cells : Cell(i) = IF i < Len(keys) THEN keys[i + 1] ELSE Zero
  BY DEF Holds
<1>3. \A i \in 0..(Len(keys) - 1) : Cell(i) = keys[i + 1] /\ Cell(i) # Zero
  <2> SUFFICES ASSUME NEW i \in 0..(Len(keys) - 1)
               PROVE  Cell(i) = keys[i + 1] /\ Cell(i) # Zero
    OBVIOUS
  <2>1. i \in Cells /\ i < Len(keys) /\ i + 1 \in 1..Len(keys)
    BY <1>1 DEF Cells
  <2>2. keys[i + 1] \in Chars
    BY <1>1, <2>1
  <2> QED BY <1>2, <2>1, <2>2, ZeroIsNoKey
<1>4. Len(keys) = BufferSize \/ Cell(Len(keys)) = Zero
  <2>1. Len(keys) # BufferSize => Len(keys) \in Cells /\ ~(Len(keys) < Len(keys))
    BY <1>1 DEF Cells
  <2> QED BY <1>2, <2>1
<1>5. \A n \in 0..BufferSize : Ends(n) <=> n = Len(keys)
  <2> HIDE DEF Cell
  <2> QED BY <1>1, <1>3, <1>4
<1>6. (CHOOSE n \in 0..BufferSize : Ends(n)) = Len(keys)
  <2> HIDE DEF Ends
  <2> QED BY <1>1, <1>5
<1>7. InRing(cells, h) = [i \in 1..Len(keys) |-> Cell(i - 1)]
  BY <1>6 DEF InRing
<1>8. \A i \in 1..Len(keys) : Cell(i - 1) = keys[i]
  <2> SUFFICES ASSUME NEW i \in 1..Len(keys) PROVE Cell(i - 1) = keys[i]
    OBVIOUS
  <2>1. i - 1 \in 0..(Len(keys) - 1) /\ (i - 1) + 1 = i
    BY <1>1
  <2> HIDE DEF Cell
  <2> QED BY <1>3, <2>1
<1> HIDE DEF Cell
<1> QED BY <1>1, <1>7, <1>8

\* What a program would pop is what it has not read, unless its ring was overrun.
LEMMA WaitingIsUnread ==
    ASSUME IInv, NEW p \in Slots \ overrun
    PROVE  InRing(buffer[p], head[p]) = unread[p]
<1>1. unread[p] \in Contents /\ Holds(buffer[p], head[p], tail[p], unread[p])
  BY DEF IInv, TypeOK, Contents
<1> QED BY <1>1, HoldsContents

\* A step that touches the ring of one process touches its queue only, and unless
\* the ring is overrun its queue is what was not read.
LEMMA QueueStep ==
    ASSUME IInv, IInv', NEW p \in Slots,
           \A q \in Slots \ {p} : /\ buffer'[q] = buffer[q] /\ head'[q] = head[q]
                                  /\ (q \in overrun') <=> (q \in overrun)
    PROVE  /\ \A q \in Slots \ {p} : Waiting(q)' = Waiting(q)
           /\ p \notin overrun => Waiting(p) = unread[p]
           /\ p \notin overrun' => Waiting(p)' = unread'[p]
           /\ Queues!OthersStay(p)
<1>1. \A q \in Slots : Waiting(q) = InRing(buffer[q], head[q])
                       /\ Waiting(q)' = InRing(buffer'[q], head'[q])
  BY DEF Waiting, InRing
<1>2. p \notin overrun => Waiting(p) = unread[p]
  BY <1>1, WaitingIsUnread
<1>3. p \notin overrun' => Waiting(p)' = unread'[p]
  <2> SUFFICES ASSUME p \notin overrun' PROVE InRing(buffer'[p], head'[p]) = unread'[p]
    BY <1>1
  <2>1. unread'[p] \in Contents /\ Holds(buffer'[p], head'[p], tail'[p], unread'[p])
    BY DEF IInv, TypeOK, Contents
  <2> QED BY <2>1, HoldsContents
<1>4. \A q \in Slots \ {p} : Waiting(q)' = Waiting(q)
  BY <1>1
<1>5. Queues!OthersStay(p)
  BY <1>4 DEF Queues!OthersStay
<1> QED BY <1>2, <1>3, <1>4, <1>5

\* A process_t that comes or goes leaves an empty queue.
LEMMA ClearedQueue ==
    ASSUME IInv, IInv', NEW p \in Slots, Cleared(p)
    PROVE  Queues!Fresh(p) /\ Queues!OthersStay(p)
<1>1. /\ overrun' = overrun \ {p} /\ unread'[p] = <<>>
      /\ \A q \in Slots \ {p} : buffer'[q] = buffer[q] /\ head'[q] = head[q]
  BY DEF Cleared, IInv, TypeOK
<1>2. Waiting(p)' = <<>> /\ Queues!OthersStay(p)
  BY <1>1, QueueStep
<1> QED BY <1>1, <1>2 DEF Queues!Fresh

AbstractVars == <<processes, current_process, [p \in Slots |-> Waiting(p)], overrun>>

LEMMA StepOfQueues ==
    ASSUME IInv, IInv', [Next]_vars
    PROVE  [Queues!Next]_AbstractVars
<1>1. ASSUME NEW c \in Chars, Push(c), ~panicked,
             UNCHANGED <<processes, current_process, head, capslock_state, panicked>>
      PROVE  Queues!Next
  <2>a. current_process \in Slots /\ current_process # NoProcess
        /\ current_process \in processes
    BY <1>1 DEF IInv, TypeOK, Slots, NoProcess, FocusExists
  <2>b. PICK p \in Slots : p = current_process
    BY <2>a
  <2>1. p \in Slots /\ p # NoProcess /\ p \in processes
    BY <2>a, <2>b
  <2>2. buffer' = [buffer EXCEPT ![p][tail[p] % BufferSize] = c] /\ Pushed(p, c)
    BY <1>1, <2>1, <2>b DEF Push
  <2>3. UNCHANGED <<processes, current_process>> /\ p = current_process
    BY <1>1, <2>b
  <2>4. \A q \in Slots \ {p} : /\ buffer'[q] = buffer[q] /\ head'[q] = head[q]
                               /\ (q \in overrun') <=> (q \in overrun)
    BY <1>1, <2>1, <2>2 DEF Pushed, IInv, TypeOK
  <2>5. CASE p \in overrun \/ Len(unread[p]) = BufferSize
    <3>1. p \in overrun'
      BY <2>2, <2>5 DEF Pushed
    <3>2. p \in overrun \/ Len(Waiting(p)) = BufferSize
      BY <2>1, <2>4, <2>5, QueueStep
    <3>3. Queues!OthersStay(p)
      BY <2>1, <2>4, QueueStep
    <3>4. Queues!Type(p)
      BY <2>1, <2>3, <3>1, <3>2, <3>3 DEF Queues!Type
    <3> QED BY <2>1, <3>4 DEF Queues!Next
  <2>6. CASE ~(p \in overrun \/ Len(unread[p]) = BufferSize)
    <3>1. /\ unread'[p] = Append(unread[p], c) /\ overrun' = overrun
          /\ p \notin overrun
      BY <2>1, <2>2, <2>6 DEF Pushed, IInv, TypeOK
    <3>2. Waiting(p) = unread[p] /\ Waiting(p)' = unread'[p] /\ Queues!OthersStay(p)
      <4>1. p \notin overrun'
        BY <3>1
      <4>2. Waiting(p) = unread[p]
        BY <2>1, <2>4, <3>1, QueueStep
      <4>3. Waiting(p)' = unread'[p]
        BY <2>1, <2>4, <4>1, QueueStep
      <4>4. Queues!OthersStay(p)
        BY <2>1, <2>4, QueueStep
      <4> QED BY <4>2, <4>3, <4>4
    <3>3. Waiting(p)' = Append(Waiting(p), c)
      BY <3>1, <3>2
    <3>4. Queues!Kept(p)
      BY <3>1 DEF Queues!Kept
    <3>5. \E k \in Chars : Waiting(p)' = Append(Waiting(p), k)
      BY <1>1, <3>3
    <3>6. Queues!Type(p)
      BY <2>1, <2>3, <3>2, <3>4, <3>5 DEF Queues!Type
    <3> QED BY <2>1, <3>6 DEF Queues!Next
  <2> QED BY <2>5, <2>6
<1>2. ASSUME NEW p \in Slots, GetKey(p) PROVE Queues!Next
  <2>1. /\ overrun' = overrun /\ p \in processes /\ UNCHANGED <<processes, current_process>>
        /\ unread'[p] = IF p \in overrun THEN <<>> ELSE Tail(unread[p])
        /\ \A q \in Slots \ {p} : buffer'[q] = buffer[q] /\ head'[q] = head[q]
    BY <1>2 DEF GetKey, Popped, IInv, TypeOK
  <2>2. p \notin overrun => unread[p] # <<>>
    <3> SUFFICES ASSUME p \notin overrun PROVE unread[p] # <<>>
      OBVIOUS
    <3>1. /\ buffer[p] \in Rings /\ head[p] \in Indexes /\ tail[p] \in Indexes
          /\ unread[p] \in Contents /\ Holds(buffer[p], head[p], tail[p], unread[p])
          /\ buffer[p][head[p] % BufferSize] # Zero
      BY <1>2 DEF IInv, TypeOK, Rings, Indexes, Contents, GetKey
    <3> QED BY <3>1, PopHolds
  <2>3. /\ p \notin overrun => Waiting(p) # <<>> /\ Waiting(p)' = Tail(Waiting(p))
        /\ Queues!OthersStay(p)
    BY <2>1, <2>2, QueueStep
  <2>4. Queues!Read(p)
    BY <2>1, <2>3 DEF Queues!Read, Queues!Kept
  <2> QED BY <2>4 DEF Queues!Next
<1>3. CASE KeyPressed \/ KeyPastTable
  BY <1>1, <1>3, PressPushes
<1>4. CASE LoadSwitch
  <2> DEFINE p == Lowest(Slots \ processes)
  <2>1. /\ p \in Slots /\ p \notin processes /\ Cleared(p)
        /\ processes' = processes \cup {p} /\ current_process' = p
    BY <1>4, LowestIsIn DEF LoadSwitch
  <2> HIDE DEF p
  <2>2. Queues!Start(p)
    BY <2>1, ClearedQueue DEF Queues!Start
  <2> QED BY <2>1, <2>2 DEF Queues!Next
<1>5. ASSUME NEW p \in Slots, Unlink(p) PROVE Queues!Next
  <2>1. /\ p \in processes /\ processes' = processes \ {p} /\ Cleared(p)
        /\ IF current_process # p THEN UNCHANGED current_process
           ELSE processes' # {} => current_process' = Lowest(processes')
    BY <1>5 DEF Unlink
  <2>2. processes' # {} => Lowest(processes') \in processes'
    BY <2>1, LowestIsIn DEF IInv, TypeOK
  <2>3. Queues!End(p)
    BY <2>1, <2>2, ClearedQueue DEF Queues!End
  <2> QED BY <2>3 DEF Queues!Next
<1>6. CASE CapsLockPressed \/ UNCHANGED vars
  <2>1. UNCHANGED <<processes, current_process, buffer, head, overrun>>
    BY <1>6 DEF CapsLockPressed, vars, ring
  <2> QED BY <2>1 DEF Waiting, AbstractVars
<1> QED BY <1>2, <1>3, <1>4, <1>5, <1>6 DEF Next

\* The rings are queues: each key reaches the live program that had the focus when
\* it was typed and no other, once and in order, until the program lets its ring be
\* overrun; a program that starts or ends disturbs no other one's keys.
THEOREM KeyboardRefinesQueues == Spec => KeepsPromise
<1>1. Init => Queues!Init
  <2> SUFFICES ASSUME Init PROVE Queues!Init
    OBVIOUS
  <2>1. IInv /\ overrun = {} /\ unread = [p \in Slots |-> <<>>]
    BY InitInv DEF Init
  <2>2. \A p \in Slots : Waiting(p) = <<>>
    <3>1. \A p \in Slots : Waiting(p) = InRing(buffer[p], head[p])
      BY DEF Waiting, InRing
    <3> QED BY <2>1, <3>1, WaitingIsUnread
  <2> QED BY <2>1, <2>2 DEF Init, Queues!Init
<1>2. IInv /\ IInv' /\ [Next]_vars
        => [Queues!Next]_<<processes, current_process, [p \in Slots |-> Waiting(p)], overrun>>
  BY StepOfQueues DEF AbstractVars
<1> QED BY <1>1, <1>2, KeyboardInvariant, PTL DEF Spec, KeepsPromise, Queues!Spec
=============================================================================
