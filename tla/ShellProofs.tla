----------------------------- MODULE ShellProofs -----------------------------
EXTENDS Shell, SequenceTheorems, WellFoundedInduction, TLAPS

\* A set of numbers that is not empty has a least member.
LEMMA Least ==
    ASSUME NEW S \in SUBSET Nat, S # {}
    PROVE  \E k \in S : \A j \in S : k <= j
<1>1. PICK k \in S : \A j \in S : ~(<<j, k>> \in OpToRel(<, Nat))
  BY NatLessThanWellFounded, WFMin
<1>2. \A j \in S : ~(j < k)
  BY <1>1 DEF OpToRel
<1> QED BY <1>2

\* g is the function defined from its value at the number before.
Follows(g, S, n, first, F) ==
    g \in [0..n -> S] /\ g[0] = first /\ \A m \in 1..n : g[m] = F[m][g[m - 1]]

HasFollower(S, n, first, F) == \E g : Follows(g, S, n, first, F)

\* There is one.
LEMMA Recursion ==
    ASSUME NEW S, NEW n \in Nat, NEW first \in S, NEW F, \A m \in 1..n : \A x \in S : F[m][x] \in S
    PROVE  HasFollower(S, n, first, F)
<1> DEFINE Defined(g, k) == g[0] = first /\ \A m \in 1..k : g[m] = F[m][g[m - 1]]
           bad == {k \in 0..n : ~\E g \in [0..k -> S] : Defined(g, k)}
<1>1. ASSUME NEW k \in bad, \A j \in bad : k <= j PROVE FALSE
  <2>1. k \in 0..n /\ ~\E g \in [0..k -> S] : Defined(g, k)
    BY <1>1
  <2>2. CASE k = 0
    <3>1. [m \in 0..k |-> first] \in [0..k -> S] /\ Defined([m \in 0..k |-> first], k)
      BY <2>2
    <3> QED BY <2>1, <3>1
  <2>3. CASE k # 0
    <3>1. k - 1 \in 0..n /\ k \in 1..n /\ ~(k <= k - 1)
      BY <2>1, <2>3
    <3>2. PICK g \in [0..(k - 1) -> S] : Defined(g, k - 1)
      BY <1>1, <3>1
    <3> DEFINE h == [m \in 0..k |-> IF m = k THEN F[k][g[k - 1]] ELSE g[m]]
    <3>3. g[k - 1] \in S
      BY <3>1
    <3>4. F[k][g[k - 1]] \in S
      BY <3>1, <3>3
    <3>5. h \in [0..k -> S]
      BY <3>1, <3>4
    <3>6. \A m \in 0..(k - 1) : h[m] = g[m]
      BY <3>1
    <3>7. h[k] = F[k][g[k - 1]]
      BY <3>1
    <3> HIDE DEF h
    <3>8. h[0] = first
      BY <3>1, <3>2, <3>6
    <3>9. ASSUME NEW m \in 1..k PROVE h[m] = F[m][h[m - 1]]
      <4>1. m - 1 \in 0..(k - 1)
        BY <3>1
      <4>2. h[m - 1] = g[m - 1]
        BY <3>6, <4>1
      <4>3. CASE m = k
        BY <3>7, <4>2, <4>3
      <4>4. CASE m # k
        <5>1. m \in 1..(k - 1) /\ m \in 0..(k - 1)
          BY <3>1, <4>4
        <5> QED BY <3>2, <3>6, <4>2, <5>1
      <4> QED BY <4>3, <4>4
    <3>10. Defined(h, k)
      BY <3>8, <3>9
    <3> QED BY <2>1, <3>5, <3>10
  <2> QED BY <2>2, <2>3
<1>2. bad \in SUBSET Nat
  OBVIOUS
<1>3. bad = {}
  <2> HIDE DEF bad
  <2> QED BY <1>1, <1>2, Least
<1>4. n \in 0..n
  OBVIOUS
<1> QED BY <1>3, <1>4 DEF HasFollower, Follows


\* Everything that is typed, printed or found in memory.
Characters ==
    Keys \cup Texts \cup {Blank, Newline, NUL, Garbage}
        \cup {Welcome[k] : k \in DOMAIN Welcome} \cup {Prompt[k] : k \in DOMAIN Prompt}

LEMMA CharactersHas ==
    /\ Keys \subseteq Characters /\ Texts \subseteq Characters
    /\ Blank \in Characters /\ Newline \in Characters
    /\ NUL \in Characters /\ Garbage \in Characters
  BY DEF Characters

Terms == [vram : [Cells -> Characters], row : Nat, column : 0..VGA_WIDTH]

\* What is written stays a terminal, with the cursor in a row or behind its last
\* column (kernel.c:30-83).
LEMMA DrawnType ==
    ASSUME NEW t \in Terms, NEW c \in Characters
    PROVE  Drawn(t, c) \in [Cells -> Characters]
  BY DEF Drawn, Terms

LEMMA PutType ==
    ASSUME NEW t \in Terms, NEW c \in Characters
    PROVE  Put(t, c) \in Terms
<1>1. t.row \in Nat /\ t.column \in 0..VGA_WIDTH /\ VGA_WIDTH \in Nat \ {0}
  BY TerminalAssumption DEF Terms
<1> QED BY <1>1, DrawnType DEF Put, NextRow, Terms

LEMMA EraseType ==
    ASSUME NEW t \in Terms PROVE Erase(t) \in Terms
<1>1. t.row \in Nat /\ t.column \in 0..VGA_WIDTH /\ VGA_WIDTH \in Nat \ {0}
  BY TerminalAssumption DEF Terms
<1>2. CASE t.row = 0 /\ t.column = 0
  BY <1>2 DEF Erase
<1>3. CASE ~(t.row = 0 /\ t.column = 0)
  <2>1. Back(t) \in Terms /\ Back(t).column < VGA_WIDTH
    BY <1>1, <1>3 DEF Back, Left, Terms
  <2>2. Put(Back(t), Blank) \in Terms
    BY <2>1, PutType, CharactersHas
  <2>3. Put(Back(t), Blank).column >= 1
    BY <1>1, <2>1 DEF Put, Terms
  <2>4. Erase(t) = Left(Put(Back(t), Blank))
    BY <1>3 DEF Erase
  <2> QED BY <1>1, <2>2, <2>3, <2>4 DEF Terms, Left
<1> QED BY <1>2, <1>3

LEMMA WriteType ==
    ASSUME NEW t \in Terms, NEW c \in Characters PROVE Write(t, c) \in Terms
<1>1. \A x \in Terms : Put(x, Blank) \in Terms
  BY PutType, CharactersHas
<1>2. Put(t, c) \in Terms
  BY PutType
<1>3. NextRow(t) \in Terms
  <2>1. 0 \in 0..VGA_WIDTH
    BY TerminalAssumption
  <2> QED BY <2>1 DEF NextRow, Terms
<1>4. Put(Put(Put(Put(t, Blank), Blank), Blank), Blank) \in Terms
  BY <1>1
<1> QED BY <1>2, <1>3, <1>4, EraseType DEF Write

\* print (kernel.c:86-93).
LEMMA WriteAllType ==
    ASSUME NEW t \in Terms, NEW text \in Seq(Characters)
    PROVE  WriteAll(t, text) \in Terms
<1> DEFINE n == Len(text)
           Turn(g, m) == IF m = 0 THEN t
                         ELSE Write(g[m - 1], text[m])
           after == CHOOSE g : g = [m \in 0..n |-> Turn(g, m)]
           F == [m \in 1..n |-> [x \in Terms |-> Write(x, text[m])]]
<1>1. WriteAll(t, text) = after[n]
  BY DEF WriteAll
<1>t. \A m \in 1..n : text[m] \in Characters
  OBVIOUS
<1>2. \A m \in 1..n : \A x \in Terms : F[m][x] \in Terms
  BY <1>t, WriteType
<1>3. n \in Nat
  OBVIOUS
<1> HIDE DEF n
<1>4. PICK g \in [0..n -> Terms] :
          g[0] = t /\ \A m \in 1..n : g[m] = F[m][g[m - 1]]
  <2> HIDE DEF F, Turn, after
  <2>1. HasFollower(Terms, n, t, F)
    BY <1>2, <1>3, Recursion
  <2> QED BY <2>1 DEF HasFollower, Follows
<1>5. ASSUME NEW m \in 0..n PROVE g[m] = Turn(g, m)
  <2>1. CASE m = 0
    BY <1>4, <2>1
  <2>2. CASE m # 0
    <3>1. m \in 1..n /\ m - 1 \in 0..n
      BY <1>3, <2>2
    <3>2. g[m] = F[m][g[m - 1]] /\ g[m - 1] \in Terms
      BY <1>4, <3>1
    <3>3. F[m][g[m - 1]] = Write(g[m - 1], text[m])
      BY <3>1, <3>2
    <3> QED BY <2>2, <3>2, <3>3
  <2> QED BY <2>1, <2>2
<1>6. g = [m \in 0..n |-> Turn(g, m)]
  <2>1. g = [m \in 0..n |-> g[m]]
    OBVIOUS
  <2> HIDE DEF Turn
  <2> QED BY <1>5, <2>1
<1>7. after = [m \in 0..n |-> Turn(after, m)]
  <2> HIDE DEF Turn
  <2> QED BY <1>6
<1> HIDE DEF after
<1>8. after[0] = t
  BY <1>3, <1>7
<1>9. \A m \in 1..n : after[m] = Write(after[m - 1], text[m])
  <2> SUFFICES ASSUME NEW m \in 1..n PROVE after[m] = Write(after[m - 1], text[m])
    OBVIOUS
  <2>1. m \in 0..n /\ m # 0
    BY <1>3
  <2>2. after[m] = Turn(after, m)
    <3> HIDE DEF Turn
    <3> QED BY <1>7, <2>1
  <2> QED BY <2>1, <2>2
<1>10. \A m \in 0..n : after[m] \in Terms
  <2> DEFINE bad == {m \in 0..n : after[m] \notin Terms}
  <2>1. ASSUME NEW m \in bad, \A j \in bad : m <= j PROVE FALSE
    <3>1. m \in 0..n /\ after[m] \notin Terms
      BY <2>1
    <3>2. m # 0
      BY <1>8, <3>1
    <3>3. m - 1 \in 0..n /\ m \in 1..n /\ ~(m <= m - 1)
      BY <1>3, <3>1, <3>2
    <3>4. after[m - 1] \in Terms
      BY <2>1, <3>3
    <3>5. after[m] \in Terms
      BY <1>9, <3>3, <3>4, <1>t, WriteType
    <3> QED BY <3>1, <3>5
  <2>2. bad \in SUBSET Nat
    BY <1>3
  <2>3. bad = {}
    <3> HIDE DEF bad
    <3> QED BY <2>1, <2>2, Least
  <2> QED BY <2>3
<1> QED BY <1>1, <1>3, <1>10

LEMMA TextsTyped == Welcome \in Seq(Characters) /\ Prompt \in Seq(Characters)
<1>1. \A k \in 1..Len(Welcome) : Welcome[k] \in Characters
  BY ShellAssumption DEF Characters
<1>2. \A k \in 1..Len(Prompt) : Prompt[k] \in Characters
  BY ShellAssumption DEF Characters
<1>3. ASSUME NEW text \in Seq(STRING), \A k \in 1..Len(text) : text[k] \in Characters
      PROVE  text \in Seq(Characters)
  BY <1>3
<1> QED BY <1>1, <1>2, <1>3, ShellAssumption

-----------------------------------------------------------------------------
(* The invariant.                                                            *)

ShellTypeOK ==
    /\ term \in Terms
    /\ pc \in {"prompt", "read", "newline", "parse", "invoke", "after"}
    /\ buf \in [0..(max - 1) -> Characters] /\ i \in 0..(max - 1)
    /\ pc = "read" => i < max - 1
    /\ scommand \in [0..(max - 1) -> Characters] /\ sp \in {Null} \cup 0..(max - 1)
    /\ arguments \in Seq(Seq(Characters))
    /\ line \in Seq(Keys)
    /\ base \in Nat \X Nat /\ whole \in BOOLEAN
    /\ failed \in BOOLEAN \X BOOLEAN

\* The line in memory is the line that was typed, whatever was typed.
LineKept ==
    /\ i = Len(line)
    /\ \A k \in 1..i : buf[k - 1] = line[k]
    /\ pc = "newline" => buf[i] = NUL
    /\ pc = "prompt" => i = 0

LineFits == whole => base[2] + Len(line) <= VGA_WIDTH

\* Where strtok goes on.
Position == IF sp = Null THEN 0 ELSE sp

EndsFrom(at) ==
    \E end \in at..(max - 1) :
        scommand[end] = NUL /\ \A k \in at..(end - 1) : scommand[k] # Garbage

TextEnds == sp # Null \/ pc = "parse" => EndsFrom(Position)

WordsTo(words, text, upto) ==
    \E b \in [DOMAIN words -> Begins(text)] :
        /\ \A n, m \in DOMAIN words : n < m => b[n] < b[m]
        /\ \A k \in Begins(text) : k <= upto => \E n \in DOMAIN words : b[n] = k
        /\ \A n \in DOMAIN words : b[n] <= upto /\ words[n] = Cut(WordAt(text, b[n]))

NoneFailed == failed = <<FALSE, FALSE>>

\* Between two tokens: what is left of the line is still to be cut, and the
\* arguments are the words before.
Between ==
    /\ Position <= Len(line)
    /\ \A k \in Position..(Len(line) - 1) : scommand[k] = line[k + 1]
    /\ scommand[Len(line)] = NUL
    /\ Position = 0 \/ Position = Len(line) \/ line[Position] = Blank
    /\ WordsTo(arguments, line, Position)

WordsKept ==
    /\ ~failed[2] /\ pc # "parse" => sp = Null
    /\ pc = "parse" /\ NoneFailed => Between
    /\ pc = "invoke" /\ NoneFailed => AreWords(arguments, line)
    /\ pc # "after" => started = NotStarted

IInv ==
    /\ ShellTypeOK /\ LineKept /\ LineFits /\ LineOnScreen
    /\ TextEnds /\ WordsKept /\ ArgumentsAsTyped

-----------------------------------------------------------------------------
(* Each step keeps it.                                                       *)

LEMMA InitInv == Init => IInv
<1> SUFFICES ASSUME Init PROVE IInv
  OBVIOUS
<1>1. term \in Terms
  <2>1. Cleared \in Terms
    BY TerminalAssumption, CharactersHas DEF Cleared, Terms
  <2> QED BY <2>1, TextsTyped, WriteAllType DEF Init
<1>2. /\ pc = "prompt" /\ i = 0 /\ line = <<>> /\ sp = Null /\ ~whole
      /\ failed = <<FALSE, FALSE>> /\ started = NotStarted
      /\ arguments = <<>> /\ base = <<0, 0>>
  BY DEF Init
<1>3. buf \in [0..(max - 1) -> Characters] /\ scommand \in [0..(max - 1) -> Characters]
  BY CharactersHas DEF Init, Fresh
<1>4. ShellTypeOK
  <2>1. 0 \in 0..(max - 1) /\ 0 \in 0..VGA_WIDTH
    BY ShellAssumption, TerminalAssumption
  <2>2. i < max - 1 /\ i \in 0..(max - 1)
    BY <1>2, ShellAssumption
  <2>3. arguments \in Seq(Seq(Characters)) /\ line \in Seq(Keys)
    BY <1>2, EmptySeq
  <2>4. base \in Nat \X Nat
    BY <1>2
  <2>5. failed \in BOOLEAN \X BOOLEAN
    BY <1>2, Zenon
  <2>6. whole \in BOOLEAN
    BY <1>2 DEF Init
  <2> QED BY <1>1, <1>2, <1>3, <2>2, <2>3, <2>4, <2>5, <2>6 DEF ShellTypeOK
<1>5. LineKept /\ LineFits /\ LineOnScreen /\ TextEnds /\ WordsKept /\ ArgumentsAsTyped
  BY <1>2 DEF LineKept, LineFits, LineOnScreen, TextEnds, WordsKept, ArgumentsAsTyped
<1> QED BY <1>4, <1>5 DEF IInv

LEMMA ShowPromptInv == IInv /\ ShowPrompt => IInv'
<1> SUFFICES ASSUME IInv, ShowPrompt PROVE IInv'
  OBVIOUS
<1>1. /\ pc = "prompt" /\ pc' = "read" /\ term' = WriteAll(term, Prompt)
      /\ base' = <<term'.row, term'.column>> /\ whole' = TRUE
      /\ UNCHANGED <<buf, i, line, scommand, sp, arguments, allocations, failed, programs, started>>
  BY DEF ShowPrompt, parsing
<1>2. i = 0 /\ line = <<>>
  BY <1>1 DEF IInv, LineKept, ShellTypeOK
<1>3. ShellTypeOK'
  <2>1. term' \in Terms
    BY <1>1, TextsTyped, WriteAllType DEF IInv, ShellTypeOK
  <2>2. base' \in Nat \X Nat
    BY <1>1, <2>1 DEF Terms
  <2>3. i' < max - 1
    BY <1>1, <1>2, ShellAssumption
  <2> QED BY <1>1, <2>1, <2>2, <2>3 DEF IInv, ShellTypeOK
<1>4. LineKept'
  BY <1>1, <1>2
     DEF IInv, LineKept
<1>5. LineFits' /\ LineOnScreen'
  <2>1. base'[1] = term'.row /\ base'[2] = term'.column /\ term'.column \in 0..VGA_WIDTH
    BY <1>1, <1>3 DEF ShellTypeOK, Terms
  <2>2. Len(line') = 0 /\ i' = 0
    BY <1>1, <1>2
  <2> QED BY <2>1, <2>2, TerminalAssumption DEF LineFits, LineOnScreen
<1>6. TextEnds'
  BY <1>1 DEF IInv, TextEnds, EndsFrom, Position
<1>7. WordsKept' /\ ArgumentsAsTyped'
  BY <1>1 DEF IInv, WordsKept, ArgumentsAsTyped, NoneFailed
<1> QED BY <1>3, <1>4, <1>5, <1>6, <1>7 DEF IInv

LEMMA EndLineInv == IInv /\ EndLine => IInv'
<1> SUFFICES ASSUME IInv, EndLine PROVE IInv'
  OBVIOUS
<1>1. /\ pc = "read" /\ pc' = "newline" /\ buf' = [buf EXCEPT ![i] = NUL]
      /\ UNCHANGED <<term, i, line, base, whole, scommand, sp, arguments, allocations, failed,
                     programs, started>>
  BY DEF EndLine, parsing
<1>2. buf' \in [0..(max - 1) -> Characters] /\ buf'[i] = NUL
      /\ \A k \in 0..(max - 1) : k # i => buf'[k] = buf[k]
  BY <1>1, CharactersHas DEF IInv, ShellTypeOK
<1>3. ShellTypeOK'
  BY <1>1, <1>2 DEF IInv, ShellTypeOK
<1>4. LineKept'
  <2>1. ASSUME NEW k \in 1..i PROVE buf'[k - 1] = buf[k - 1]
    BY <1>2, ShellAssumption DEF IInv, ShellTypeOK
  <2> QED BY <1>1, <1>2, <2>1 DEF IInv, LineKept
<1>5. LineFits' /\ LineOnScreen'
  BY <1>1, <1>4 DEF IInv, LineFits, LineOnScreen, LineKept
<1>6. TextEnds'
  BY <1>1 DEF IInv, TextEnds, EndsFrom, Position
<1>7. WordsKept' /\ ArgumentsAsTyped'
  BY <1>1 DEF IInv, WordsKept, ArgumentsAsTyped, NoneFailed
<1> QED BY <1>3, <1>4, <1>5, <1>6, <1>7 DEF IInv

\* A character that stays in its row (kernel.c:76-77).
LEMMA PutInRow ==
    ASSUME NEW t \in Terms, NEW c \in Characters, t.column < VGA_WIDTH
    PROVE  /\ Put(t, c).row = t.row /\ Put(t, c).column = t.column + 1
           /\ \A k \in Cells : Put(t, c).vram[k] = IF k = Cell(t.row, t.column) THEN c ELSE t.vram[k]
<1>1. t.column \in Nat /\ VGA_WIDTH \in Nat /\ t.vram \in [Cells -> Characters]
  BY TerminalAssumption DEF Terms
<1>2. Put(t, c) = [vram |-> Drawn(t, c), row |-> t.row, column |-> t.column + 1]
  BY <1>1 DEF Put
<1>3. \A k \in Cells : Drawn(t, c)[k] = IF k = Cell(t.row, t.column) THEN c ELSE t.vram[k]
  BY <1>1 DEF Drawn
<1> QED BY <1>2, <1>3

\* The cursor goes back onto the character it erases (kernel.c:35-51).
LEMMA EraseInRow ==
    ASSUME NEW t \in Terms, t.column > 0
    PROVE  /\ Erase(t).row = t.row /\ Erase(t).column = t.column - 1
           /\ \A k \in Cells : Erase(t).vram[k] =
                 IF k = Cell(t.row, t.column - 1) THEN Blank ELSE t.vram[k]
<1> DEFINE back == [vram |-> t.vram, row |-> t.row, column |-> t.column - 1]
<1>1. t.column \in 0..VGA_WIDTH /\ VGA_WIDTH \in Nat /\ t.row \in Nat
  BY TerminalAssumption DEF Terms
<1>2. Back(t) = back
  BY <1>1 DEF Back, Left
<1>3. back \in Terms /\ back.column < VGA_WIDTH
  BY <1>1 DEF Terms
<1>4. back.row = t.row /\ back.column = t.column - 1 /\ back.vram = t.vram
  OBVIOUS
<1>5. Erase(t) = Left(Put(back, Blank))
  BY <1>1, <1>2 DEF Erase
<1> HIDE DEF back
<1>6. /\ Put(back, Blank).row = t.row /\ Put(back, Blank).column = t.column - 1 + 1
      /\ \A k \in Cells : Put(back, Blank).vram[k] =
             IF k = Cell(t.row, t.column - 1) THEN Blank ELSE t.vram[k]
  BY <1>3, <1>4, PutInRow, CharactersHas
<1> QED BY <1>1, <1>5, <1>6 DEF Left

\* Two columns of a row are two cells.
LEMMA CellsDiffer ==
    ASSUME NEW row \in Nat, NEW c \in Int, NEW d \in Int, c # d
    PROVE  Cell(row, c) # Cell(row, d)
<1>1. row * VGA_WIDTH \in Int
  BY TerminalAssumption
<1> QED BY <1>1 DEF Cell

LEMMA FrontOf ==
    ASSUME NEW S, NEW s \in Seq(S), s # <<>>
    PROVE  /\ Front(s) \in Seq(S) /\ Len(Front(s)) = Len(s) - 1
           /\ \A k \in 1..(Len(s) - 1) : Front(s)[k] = s[k]
<1>1. Len(s) \in Nat /\ Len(s) > 0
  BY EmptySeq, LenProperties
<1>2. Front(s) = SubSeq(s, 1, Len(s) - 1)
  BY DEF Front
<1>3. \A k \in 1..(Len(s) - 1) : s[k] \in S
  BY <1>1
<1>4. 1 \in Int /\ Len(s) - 1 \in Int
  BY <1>1
<1>5. /\ SubSeq(s, 1, Len(s) - 1) \in Seq(S)
      /\ Len(SubSeq(s, 1, Len(s) - 1)) = IF 1 <= Len(s) - 1 THEN Len(s) - 1 - 1 + 1 ELSE 0
      /\ \A k \in 1..(Len(s) - 1 - 1 + 1) : SubSeq(s, 1, Len(s) - 1)[k] = s[1 + k - 1]
  BY <1>3, <1>4, SubSeqProperties
<1>6. Len(s) - 1 - 1 + 1 = Len(s) - 1 /\ \A k \in 1..(Len(s) - 1) : 1 + k - 1 = k
  BY <1>1
<1>7. /\ Front(s) \in Seq(S)
      /\ Len(Front(s)) = IF 1 <= Len(s) - 1 THEN Len(s) - 1 ELSE 0
      /\ \A k \in 1..(Len(s) - 1) : Front(s)[k] = s[k]
  BY <1>2, <1>5, <1>6
<1>8. (IF 1 <= Len(s) - 1 THEN Len(s) - 1 ELSE 0) = Len(s) - 1
  <2>1. ASSUME NEW n \in Nat, n > 0 PROVE (IF 1 <= n - 1 THEN n - 1 ELSE 0) = n - 1
    <3>1. CASE n = 1
      BY <3>1
    <3>2. CASE n # 1
      <4>1. 1 <= n - 1
        BY <2>1, <3>2
      <4> QED BY <4>1
    <3> QED BY <3>1, <3>2
  <2> QED BY <1>1, <2>1
<1> QED BY <1>7, <1>8

LEMMA TypeKeyInv == ASSUME IInv, NEW key \in Keys, TypeKey(key) PROVE IInv'
<1> DEFINE typed == IF key = Backspace /\ line # <<>> THEN Front(line) ELSE Append(line, key)
<1>1. /\ pc = "read" /\ term' = Write(term, key) /\ line' = typed /\ i' = Index(key)
      /\ whole' = (/\ whole /\ key # Tab /\ (key = Backspace => line # <<>>)
                   /\ base[2] + Len(line') <= VGA_WIDTH)
      /\ \/ i' < max - 1 /\ pc' = "read" /\ buf' = Stored(key)
         \/ i' >= max - 1 /\ pc' = "newline" /\ buf' = [Stored(key) EXCEPT ![i'] = NUL]
      /\ UNCHANGED <<base, scommand, sp, arguments, allocations, failed, programs, started>>
  <2>1. Index(key) \in Int
    BY ShellAssumption DEF IInv, ShellTypeOK, Index
  <2> QED BY <2>1, ShellAssumption DEF TypeKey, parsing
<1>2. /\ i = Len(line) /\ i \in Nat /\ i < max - 1 /\ line \in Seq(Keys)
      /\ \A k \in 1..i : buf[k - 1] = line[k]
      /\ buf \in [0..(max - 1) -> Characters] /\ max \in Nat /\ max > 1
      /\ term \in Terms /\ base[1] \in Nat /\ base[2] \in Nat
  BY <1>1, ShellAssumption DEF IInv, ShellTypeOK, LineKept
<1>3. key \in Characters /\ key # NUL /\ key # Newline /\ key # Garbage
  BY CharactersHas, KeysAssumption
<1>4. CASE key = Backspace /\ i >= 1
  <2>1. line # <<>> /\ typed = Front(line)
    BY <1>2, <1>4
  <2> HIDE DEF typed
  <2>2. /\ i' = i - 1 /\ Stored(key) = [buf EXCEPT ![i - 1] = NUL]
        /\ i' < max - 1
    BY <1>1, <1>2, <1>4 DEF Index, Stored
  <2>3. /\ line' \in Seq(Keys) /\ Len(line') = i - 1
        /\ \A k \in 1..(i - 1) : line'[k] = line[k]
    BY <1>1, <1>2, <1>4, <2>1, FrontOf
  <2>4. pc' = "read" /\ buf' \in [0..(max - 1) -> Characters]
        /\ \A k \in 0..(max - 1) : k # i - 1 => buf'[k] = buf[k]
    BY <1>1, <1>2, <2>2, CharactersHas
  <2>5. term' = Erase(term)
    BY <1>1, <1>4 DEF Write, Backspace, Newline, Tab
  <2>6. term' \in Terms
    BY <1>2, <2>5, EraseType
  <2>7. ShellTypeOK'
    <3>1. i' \in 0..(max - 1)
      BY <1>2, <1>4, <2>2
    <3> QED BY <1>1, <2>2, <2>3, <2>4, <2>6, <3>1 DEF IInv, ShellTypeOK
  <2>8. LineKept'
    <3>1. ASSUME NEW k \in 1..(i - 1) PROVE buf'[k - 1] = line'[k]
      <4>1. k \in 1..i /\ k - 1 \in 0..(max - 1) /\ k - 1 # i - 1
        BY <1>2
      <4> QED BY <1>2, <2>3, <2>4, <4>1
    <3> QED BY <2>2, <2>3, <2>4, <3>1 DEF LineKept
  <2>9. LineFits'
    BY <1>1 DEF LineFits
  <2>10. LineOnScreen'
    <3> SUFFICES ASSUME whole PROVE
             /\ term'.row = base[1] /\ term'.column = base[2] + (i - 1)
             /\ \A k \in 1..(i - 1) : Cell(base[1], base[2] + k - 1) \in Cells =>
                     term'.vram[Cell(base[1], base[2] + k - 1)] = line[k]
      BY <1>1, <2>2, <2>3, <2>8 DEF LineOnScreen, LineKept
    <3>1. /\ term.row = base[1] /\ term.column = base[2] + i
          /\ \A k \in 1..i : Cell(base[1], base[2] + k - 1) \in Cells =>
                     term.vram[Cell(base[1], base[2] + k - 1)] = line[k]
      BY <1>1 DEF IInv, LineOnScreen
    <3>2. base[1] \in Nat /\ base[2] \in Nat
      BY <1>2
    <3>3. term.column > 0 /\ term.column - 1 = base[2] + i - 1
      BY <1>2, <1>4, <3>1, <3>2
    <3>4. /\ term'.row = term.row /\ term'.column = term.column - 1
          /\ \A k \in Cells : term'.vram[k] =
                 IF k = Cell(term.row, term.column - 1) THEN Blank ELSE term.vram[k]
      BY <1>2, <2>5, <3>3, EraseInRow
    <3>5. ASSUME NEW k \in 1..(i - 1), Cell(base[1], base[2] + k - 1) \in Cells
          PROVE  term'.vram[Cell(base[1], base[2] + k - 1)] = line[k]
      <4>1. k \in 1..i /\ base[2] + k - 1 # base[2] + i - 1
            /\ base[2] + k - 1 \in Int /\ base[2] + i - 1 \in Int
        BY <1>2, <3>2
      <4>2. Cell(base[1], base[2] + k - 1) # Cell(term.row, term.column - 1)
        BY <3>1, <3>2, <3>3, <4>1, CellsDiffer
      <4> QED BY <3>1, <3>4, <3>5, <4>1, <4>2
    <3> QED BY <1>2, <3>1, <3>2, <3>3, <3>4, <3>5
  <2>11. TextEnds'
    BY <1>1, <2>4 DEF IInv, TextEnds, EndsFrom, Position
  <2>12. WordsKept' /\ ArgumentsAsTyped'
    BY <1>1, <2>4 DEF IInv, WordsKept, ArgumentsAsTyped, NoneFailed
  <2> QED BY <2>7, <2>8, <2>9, <2>10, <2>11, <2>12 DEF IInv
<1>5. CASE ~(key = Backspace /\ i >= 1)
  <2>1. typed = Append(line, key)
    BY <1>2, <1>5
  <2> HIDE DEF typed
  <2>2. /\ i' = i + 1 /\ Stored(key) = [buf EXCEPT ![i] = key]
    BY <1>1, <1>2, <1>5 DEF Index, Stored
  <2>3. /\ line' \in Seq(Keys) /\ Len(line') = i + 1 /\ line'[i + 1] = key
        /\ \A k \in 1..i : line'[k] = line[k]
    <3>1. line' = Append(line, key)
      BY <1>1, <2>1
    <3> QED BY <1>2, <3>1, AppendProperties
  <2>4. /\ buf' \in [0..(max - 1) -> Characters] /\ buf'[i] = key
        /\ \A k \in 0..(i - 1) : buf'[k] = buf[k]
        /\ (pc' = "read" /\ i' < max - 1) \/ (pc' = "newline" /\ buf'[i'] = NUL)
    <3>1. CASE pc' = "read" /\ buf' = [buf EXCEPT ![i] = key] /\ i' < max - 1
      BY <1>2, <1>3, <3>1
    <3>2. CASE pc' = "newline" /\ buf' = [[buf EXCEPT ![i] = key] EXCEPT ![i + 1] = NUL]
      <4>1. NUL \in Characters /\ i + 1 \in 0..(max - 1)
        BY <1>2, CharactersHas
      <4> QED BY <1>2, <1>3, <2>2, <3>2, <4>1
    <3> QED BY <1>1, <2>2, <3>1, <3>2
  <2>5. term' \in Terms
    BY <1>1, <1>2, <1>3, WriteType
  <2>7. ShellTypeOK'
    <3>1. i' \in 0..(max - 1)
      BY <1>2, <2>2
    <3> QED BY <1>1, <2>2, <2>3, <2>4, <2>5, <3>1 DEF IInv, ShellTypeOK
  <2>8. LineKept'
    <3>1. ASSUME NEW k \in 1..(i + 1) PROVE buf'[k - 1] = line'[k]
      <4>1. CASE k = i + 1
        BY <1>2, <2>3, <2>4, <4>1
      <4>2. CASE k # i + 1
        <5>1. k \in 1..i /\ k - 1 \in 0..(i - 1)
          BY <1>2, <4>2
        <5> QED BY <1>2, <2>3, <2>4, <5>1
      <4> QED BY <4>1, <4>2
    <3> QED BY <2>2, <2>3, <2>4, <3>1 DEF LineKept
  <2>9. LineFits'
    BY <1>1 DEF LineFits
  <2>10. LineOnScreen'
    <3>0. whole' => whole /\ key # Tab /\ key # Backspace /\ base[2] + (i + 1) <= VGA_WIDTH
      <4>1. key = Backspace => line = <<>>
        BY <1>2, <1>5, EmptySeq
      <4> QED BY <1>1, <2>3, <4>1
    <3> SUFFICES ASSUME whole, key # Tab, key # Backspace, base[2] + (i + 1) <= VGA_WIDTH PROVE
             /\ term'.row = base[1] /\ term'.column = base[2] + (i + 1)
             /\ \A k \in 1..(i + 1) : Cell(base[1], base[2] + k - 1) \in Cells =>
                     term'.vram[Cell(base[1], base[2] + k - 1)] = line'[k]
      BY <1>1, <2>2, <2>3, <2>8, <3>0 DEF LineOnScreen, LineKept
    <3>1. /\ term.row = base[1] /\ term.column = base[2] + i
          /\ \A k \in 1..i : Cell(base[1], base[2] + k - 1) \in Cells =>
                     term.vram[Cell(base[1], base[2] + k - 1)] = line[k]
      BY <1>1 DEF IInv, LineOnScreen
    <3>2. base[1] \in Nat /\ base[2] \in Nat /\ VGA_WIDTH \in Nat
      BY <1>2, TerminalAssumption
    <3>3. term.column < VGA_WIDTH
      BY <1>2, <3>1, <3>2
    <3>4. term' = Put(term, key)
      BY <1>1, <1>3 DEF Write
    <3>5. /\ term'.row = term.row /\ term'.column = term.column + 1
          /\ \A k \in Cells : term'.vram[k] =
                 IF k = Cell(term.row, term.column) THEN key ELSE term.vram[k]
      BY <1>2, <1>3, <3>3, <3>4, PutInRow
    <3>6. ASSUME NEW k \in 1..(i + 1), Cell(base[1], base[2] + k - 1) \in Cells
          PROVE  term'.vram[Cell(base[1], base[2] + k - 1)] = line'[k]
      <4>1. CASE k = i + 1
        <5>1. base[2] + k - 1 = term.column
          BY <1>2, <3>1, <3>2, <4>1
        <5> QED BY <2>3, <3>1, <3>5, <3>6, <4>1, <5>1
      <4>2. CASE k # i + 1
        <5>1. k \in 1..i /\ base[2] + k - 1 # base[2] + i
              /\ base[2] + k - 1 \in Int /\ base[2] + i \in Int
          BY <1>2, <3>2, <4>2
        <5>2. Cell(base[1], base[2] + k - 1) # Cell(term.row, term.column)
          BY <3>1, <3>2, <5>1, CellsDiffer
        <5> QED BY <2>3, <3>1, <3>5, <3>6, <5>1, <5>2
      <4> QED BY <4>1, <4>2
    <3>7. term'.row = base[1] /\ term'.column = base[2] + (i + 1)
      <4>1. i \in Nat /\ (base[2] + i) + 1 = base[2] + (i + 1)
        BY <1>2, <3>2
      <4> QED BY <3>1, <3>5, <4>1
    <3> QED BY <3>6, <3>7
  <2>11. TextEnds'
    BY <1>1, <2>4 DEF IInv, TextEnds, EndsFrom, Position
  <2>12. WordsKept' /\ ArgumentsAsTyped'
    BY <1>1, <2>4 DEF IInv, WordsKept, ArgumentsAsTyped, NoneFailed
  <2> QED BY <2>7, <2>8, <2>9, <2>10, <2>11, <2>12 DEF IInv
<1> QED BY <1>4, <1>5

\* The first place that FirstFrom chooses.
LEMMA FirstFromIs ==
    ASSUME NEW start \in Nat, NEW text, NEW set, NEW e \in start..(max - 1), text[e] \in set
    PROVE  /\ FirstFrom(start, text, set) \in start..e
           /\ text[FirstFrom(start, text, set)] \in set
           /\ \A j \in start..(FirstFrom(start, text, set) - 1) : text[j] \notin set
<1> DEFINE S == {k \in start..(max - 1) : text[k] \in set}
           IsFirst(k) == text[k] \in set /\ \A j \in start..(k - 1) : text[j] \notin set
<1>1. S \in SUBSET Nat /\ e \in S
  OBVIOUS
<1>2. PICK k \in S : \A j \in S : k <= j
  <2> HIDE DEF S
  <2> QED BY <1>1, Least
<1>3. k \in start..(max - 1) /\ IsFirst(k)
  <2>1. k \in start..(max - 1) /\ text[k] \in set /\ k \in Nat
    BY <1>2
  <2>2. ASSUME NEW j \in start..(k - 1), text[j] \in set PROVE FALSE
    <3>1. j \in S /\ ~(k <= j)
      BY <2>1, <2>2, ShellAssumption
    <3> QED BY <1>2, <3>1
  <2> QED BY <2>1, <2>2
<1> DEFINE n == FirstFrom(start, text, set)
<1>4. n \in start..(max - 1) /\ IsFirst(n)
  <2>1. n = CHOOSE m \in start..(max - 1) : IsFirst(m)
    BY DEF FirstFrom
  <2> HIDE DEF IsFirst, n
  <2> QED BY <1>3, <2>1
<1>5. ASSUME e < n PROVE FALSE
  <2>1. e \in start..(n - 1)
    BY <1>4, <1>5
  <2> QED BY <1>4, <2>1
<1> HIDE DEF n
<1>6. n \in start..e
  BY <1>4, <1>5
<1> QED BY <1>4, <1>6 DEF n

\* The line is copied to where strtok cuts it; an older, longer text behind keeps
\* its end (os.c:130-147, string.c:99-112).
LEMMA RunLineInv == IInv /\ RunLine => IInv'
<1> SUFFICES ASSUME IInv, RunLine PROVE IInv'
  OBVIOUS
<1> DEFINE n == FirstFrom(0, buf, {NUL})
<1>1. /\ pc = "newline" /\ pc' = "parse" /\ term' = WriteAll(term, <<Newline>>)
      /\ scommand' = [k \in DOMAIN scommand |-> IF k <= n THEN buf[k] ELSE scommand[k]]
      /\ arguments' = <<>> /\ failed' = <<failed[2], FALSE>>
      /\ UNCHANGED <<buf, i, line, base, whole, sp, allocations, programs, started>>
  BY DEF RunLine, reading
<1>2. /\ i = Len(line) /\ i \in 0..(max - 1) /\ i \in Nat /\ line \in Seq(Keys) /\ buf[i] = NUL
      /\ \A k \in 1..i : buf[k - 1] = line[k]
      /\ buf \in [0..(max - 1) -> Characters]
      /\ scommand \in [0..(max - 1) -> Characters]
      /\ max \in Nat /\ max > 1
      /\ sp \in {Null} \cup 0..(max - 1)
  BY <1>1, ShellAssumption DEF IInv, ShellTypeOK, LineKept
<1>3. \A k \in 0..(i - 1) : buf[k] = line[k + 1] /\ line[k + 1] # NUL /\ line[k + 1] # Garbage
  <2> SUFFICES ASSUME NEW k \in 0..(i - 1)
               PROVE  buf[k] = line[k + 1] /\ line[k + 1] # NUL /\ line[k + 1] # Garbage
    OBVIOUS
  <2>1. k + 1 \in 1..i /\ (k + 1) - 1 = k
    BY <1>2
  <2>2. line[k + 1] \in Keys
    BY <1>2, <2>1
  <2> QED BY <1>2, <2>1, <2>2, KeysAssumption
<1>4. n = i
  <2>1. n \in 0..i /\ buf[n] \in {NUL}
    BY <1>2, FirstFromIs
  <2> HIDE DEF n
  <2>2. n < i => n \in 0..(i - 1)
    BY <1>2, <2>1
  <2> QED BY <1>2, <1>3, <2>1, <2>2
<1> HIDE DEF n
<1>5. /\ scommand' \in [0..(max - 1) -> Characters]
      /\ \A k \in 0..(max - 1) : scommand'[k] = IF k <= i THEN buf[k] ELSE scommand[k]
  BY <1>1, <1>2, <1>4
<1>6. scommand'[i] = NUL /\ \A k \in 0..(i - 1) : scommand'[k] = line[k + 1]
  <2>1. \A k \in 0..(i - 1) : k \in 0..(max - 1) /\ k <= i
    BY <1>2
  <2> QED BY <1>2, <1>3, <1>5, <2>1
<1>7. ShellTypeOK'
  <2>1. <<Newline>> \in Seq(Characters)
    BY CharactersHas
  <2>2. term' \in Terms
    BY <1>1, <2>1, WriteAllType DEF IInv, ShellTypeOK
  <2>3. arguments' \in Seq(Seq(Characters))
    BY <1>1, EmptySeq
  <2>4. failed' \in BOOLEAN \X BOOLEAN
    BY <1>1 DEF IInv, ShellTypeOK
  <2> QED BY <1>1, <1>5, <2>2, <2>3, <2>4 DEF IInv, ShellTypeOK
<1>8. LineKept' /\ LineFits' /\ LineOnScreen' /\ ArgumentsAsTyped'
  BY <1>1 DEF IInv, LineKept, LineFits, LineOnScreen, ArgumentsAsTyped
<1>9. ASSUME NEW at \in 0..i PROVE EndsFrom(at)'
  <2>1. i \in at..(max - 1)
    BY <1>2
  <2>2. \A k \in at..(i - 1) : k \in 0..(i - 1)
    BY <1>2
  <2> QED BY <1>3, <1>6, <2>1, <2>2 DEF EndsFrom
<1>10. TextEnds'
  <2>1. CASE sp = Null
    <3>1. Position' = 0 /\ 0 \in 0..i
      BY <1>1, <1>2, <2>1 DEF Position
    <3> QED BY <1>9, <3>1 DEF TextEnds, EndsFrom
  <2>2. CASE sp # Null /\ sp <= i
    <3>1. Position' = sp /\ sp \in 0..i
      BY <1>1, <1>2, <2>2 DEF Position
    <3> QED BY <1>9, <3>1 DEF TextEnds, EndsFrom
  <2>3. CASE sp # Null /\ sp > i
    <3>1. Position' = sp /\ Position = sp /\ sp \in 0..(max - 1)
      BY <1>1, <1>2, <2>3 DEF Position
    <3>2. PICK end \in sp..(max - 1) :
             scommand[end] = NUL /\ \A k \in sp..(end - 1) : scommand[k] # Garbage
      BY <2>3, <3>1 DEF IInv, TextEnds, EndsFrom
    <3>3. \A k \in sp..end : k \in 0..(max - 1) /\ ~(k <= i)
      BY <1>2, <2>3, <3>1
    <3>4. \A k \in sp..end : scommand'[k] = scommand[k]
      BY <1>5, <3>3
    <3>5. end \in sp..end /\ \A k \in sp..(end - 1) : k \in sp..end
      BY <3>1
    <3>6. scommand'[end] = NUL /\ \A k \in sp..(end - 1) : scommand'[k] # Garbage
      BY <3>2, <3>4, <3>5
    <3> QED BY <3>1, <3>6 DEF TextEnds, EndsFrom
  <2> QED BY <1>2, <2>1, <2>2, <2>3
<1>11. ASSUME NoneFailed' PROVE Between'
  <2>1. sp = Null
    <3>1. failed'[1] = failed[2]
      BY <1>1, Zenon
    <3>2. failed'[1] = FALSE
      BY <1>11, Zenon DEF NoneFailed
    <3>3. failed[2] = FALSE
      BY <3>1, <3>2, Zenon
    <3> QED BY <1>1, <3>3 DEF IInv, WordsKept
  <2>2. Position' = 0
    BY <1>1, <2>1 DEF Position
  <2>3. WordsTo(<<>>, line, 0)
    <3>1. DOMAIN <<>> = {}
      OBVIOUS
    <3>2. [k \in {} |-> 1] \in [DOMAIN <<>> -> Begins(line)]
      BY <3>1
    <3>3. \A k \in Begins(line) : ~(k <= 0)
      BY <1>2 DEF Begins
    <3> QED BY <3>1, <3>2, <3>3 DEF WordsTo
  <2>4. line' = line /\ arguments' = <<>>
    BY <1>1
  <2>5. WordsTo(arguments', line', Position')
    BY <2>2, <2>3, <2>4
  <2> QED BY <1>2, <1>6, <2>2, <2>4, <2>5 DEF Between
<1>12. WordsKept'
  BY <1>1, <1>11 DEF IInv, WordsKept
<1> QED BY <1>7, <1>8, <1>10, <1>12 DEF IInv

\* The first character that is not a blank (string.c:283).
FirstBehind(start, text) ==
    CHOOSE k \in start..(max - 1) :
        text[k] # Blank /\ \A j \in start..(k - 1) : text[j] = Blank

LEMMA FirstBehindIs ==
    ASSUME NEW start \in Nat, NEW text, NEW e \in start..(max - 1), text[e] # Blank
    PROVE  /\ FirstBehind(start, text) \in start..e
           /\ text[FirstBehind(start, text)] # Blank
           /\ \A j \in start..(FirstBehind(start, text) - 1) : text[j] = Blank
<1> DEFINE S == {k \in start..(max - 1) : text[k] # Blank}
           IsFirst(k) == text[k] # Blank /\ \A j \in start..(k - 1) : text[j] = Blank
<1>1. S \in SUBSET Nat /\ e \in S
  OBVIOUS
<1>2. PICK k \in S : \A j \in S : k <= j
  <2> HIDE DEF S
  <2> QED BY <1>1, Least
<1>3. k \in start..(max - 1) /\ IsFirst(k)
  <2>1. k \in start..(max - 1) /\ text[k] # Blank /\ k \in Nat
    BY <1>2
  <2>2. ASSUME NEW j \in start..(k - 1), text[j] # Blank PROVE FALSE
    <3>1. j \in S /\ ~(k <= j)
      BY <2>1, <2>2, ShellAssumption
    <3> QED BY <1>2, <3>1
  <2> QED BY <2>1, <2>2
<1> DEFINE n == FirstBehind(start, text)
<1>4. n \in start..(max - 1) /\ IsFirst(n)
  <2>1. n = CHOOSE m \in start..(max - 1) : IsFirst(m)
    BY DEF FirstBehind
  <2> HIDE DEF IsFirst, n
  <2> QED BY <1>3, <2>1
<1>5. ASSUME e < n PROVE FALSE
  <2>1. e \in start..(n - 1)
    BY <1>4, <1>5
  <2> QED BY <1>4, <2>1
<1> HIDE DEF n
<1>6. n \in start..e
  BY <1>4, <1>5
<1> QED BY <1>4, <1>6 DEF n

\* A word is the characters from where it begins to the blank behind it, or to the
\* end of the text.
LEMMA WordEnds ==
    ASSUME NEW text \in Seq(Keys), NEW b \in Nat, NEW e \in b..Len(text),
           \A k \in b..e : text[k] # Blank, e < Len(text) => text[e + 1] = Blank
    PROVE  WordAt(text, b) = SubSeq(text, b, e)
<1> DEFINE IsEnd(x) == /\ \A k \in b..x : text[k] # Blank
                       /\ x < Len(text) => text[x + 1] = Blank
           end == CHOOSE x \in b..Len(text) : IsEnd(x)
<1>1. WordAt(text, b) = SubSeq(text, b, end)
  BY DEF WordAt
<1>2. end \in b..Len(text) /\ IsEnd(end)
  <2>1. IsEnd(e)
    OBVIOUS
  <2> HIDE DEF IsEnd
  <2> QED BY <2>1
<1> HIDE DEF end
<1>3. Len(text) \in Nat
  OBVIOUS
<1>4. ASSUME end < e PROVE FALSE
  <2>1. end + 1 \in b..e /\ end < Len(text)
    BY <1>2, <1>3, <1>4
  <2> QED BY <1>2, <2>1
<1>5. ASSUME e < end PROVE FALSE
  <2>1. e + 1 \in b..end /\ e < Len(text)
    BY <1>2, <1>3, <1>5
  <2> QED BY <1>2, <2>1
<1>6. end = e
  BY <1>2, <1>3, <1>4, <1>5
<1> QED BY <1>1, <1>6

\* The next word of the text, after those before.
LEMMA OneMoreWord ==
    ASSUME NEW words \in Seq(Seq(Characters)), NEW text \in Seq(Keys), NEW p \in Nat, NEW q \in Nat,
           NEW b \in Begins(text), b \in Nat, p < b, b <= q,
           WordsTo(words, text, p),
           \A k \in Begins(text) : k <= q => k <= p \/ k = b,
           NEW word \in Seq(Characters), word = Cut(WordAt(text, b))
    PROVE  WordsTo(Append(words, word), text, q)
<1> DEFINE n == Len(words)
           more == Append(words, word)
<1>1. PICK c \in [DOMAIN words -> Begins(text)] :
          /\ \A m, k \in DOMAIN words : m < k => c[m] < c[k]
          /\ \A k \in Begins(text) : k <= p => \E m \in DOMAIN words : c[m] = k
          /\ \A m \in DOMAIN words : c[m] <= p /\ words[m] = Cut(WordAt(text, c[m]))
  BY DEF WordsTo
<1>2. n \in Nat /\ DOMAIN words = 1..n
  BY LenProperties
<1>3. /\ DOMAIN more = 1..(n + 1) /\ more[n + 1] = word
      /\ \A m \in 1..n : more[m] = words[m]
  BY AppendProperties
<1> HIDE DEF n, more
<1> DEFINE d == [m \in 1..(n + 1) |-> IF m = n + 1 THEN b ELSE c[m]]
<1>4. d[n + 1] = b /\ \A m \in 1..n : d[m] = c[m]
  BY <1>2
<1>5. d \in [DOMAIN more -> Begins(text)]
  <2>1. \A m \in 1..(n + 1) : (IF m = n + 1 THEN b ELSE c[m]) \in Begins(text)
    BY <1>1, <1>2
  <2> QED BY <1>3, <2>1
<1> HIDE DEF d
<1>6. \A m \in 1..(n + 1) : m \in 1..n \/ m = n + 1
  BY <1>2
<1>n. \A m \in 1..n : c[m] \in Nat
  <2>1. Begins(text) \subseteq Nat
    BY DEF Begins
  <2> QED BY <1>1, <1>2, <2>1
<1>7. ASSUME NEW m \in 1..(n + 1), NEW k \in 1..(n + 1), m < k PROVE d[m] < d[k]
  <2>1. m \in 1..n
    BY <1>2, <1>7
  <2>2. CASE k \in 1..n
    BY <1>1, <1>2, <1>4, <2>1, <2>2, <1>7
  <2>3. CASE k = n + 1
    <3>1. d[m] <= p /\ d[k] = b /\ d[m] \in Nat
      BY <1>1, <1>2, <1>4, <1>n, <2>1, <2>3
    <3> QED BY <3>1
  <2> QED BY <1>6, <2>2, <2>3
<1>8. ASSUME NEW k \in Begins(text), k <= q PROVE \E m \in 1..(n + 1) : d[m] = k
  <2>1. CASE k <= p
    <3>1. PICK m \in 1..n : c[m] = k
      BY <1>1, <1>2, <2>1
    <3>2. m \in 1..(n + 1)
      BY <1>2
    <3> QED BY <1>4, <3>1, <3>2
  <2>2. CASE k = b
    <3>1. n + 1 \in 1..(n + 1)
      BY <1>2
    <3> QED BY <1>4, <2>2, <3>1
  <2> QED BY <1>8, <2>1, <2>2
<1>9. ASSUME NEW m \in 1..(n + 1)
      PROVE  d[m] <= q /\ more[m] = Cut(WordAt(text, d[m]))
  <2>1. CASE m \in 1..n
    <3>1. d[m] = c[m] /\ c[m] \in Nat /\ c[m] <= p /\ more[m] = Cut(WordAt(text, c[m]))
      BY <1>1, <1>2, <1>3, <1>4, <1>n, <2>1
    <3> QED BY <3>1
  <2>2. CASE m = n + 1
    BY <1>3, <1>4, <2>2
  <2> QED BY <1>6, <2>1, <2>2
<1>10. WordsTo(more, text, q)
  <2>1. DOMAIN more = 1..(n + 1)
    BY <1>3
  <2>2. \A m, k \in DOMAIN more : m < k => d[m] < d[k]
    BY <1>7, <2>1
  <2>3. \A k \in Begins(text) : k <= q => \E m \in DOMAIN more : d[m] = k
    BY <1>8, <2>1
  <2>4. \A m \in DOMAIN more : d[m] <= q /\ more[m] = Cut(WordAt(text, d[m]))
    BY <1>9, <2>1
  <2> QED BY <1>5, <2>2, <2>3, <2>4, Zenon DEF WordsTo
<1> QED BY <1>10 DEF more

LEMMA CutType ==
    ASSUME NEW word \in Seq(Characters) PROVE Cut(word) \in Seq(Characters)
<1>1. CASE Len(word) < ArgumentSize
  BY <1>1 DEF Cut
<1>2. CASE ~(Len(word) < ArgumentSize)
  <2>1. 1 \in Int /\ ArgumentSize - 1 \in Int /\ ArgumentSize - 1 <= Len(word)
    BY <1>2, ShellAssumption
  <2>2. \A k \in 1..(ArgumentSize - 1) : word[k] \in Characters
    BY <2>1
  <2>3. SubSeq(word, 1, ArgumentSize - 1) \in Seq(Characters)
    BY <2>1, <2>2, SubSeqProperties
  <2> QED BY <1>2, <2>3 DEF Cut
<1> QED BY <1>1, <1>2

\* A token is taken from the line, or nothing is left of it (os.c:28-60,
\* string.c:276-330).
LEMMA ParseTokenInv == IInv /\ ParseToken => IInv'
<1> SUFFICES ASSUME IInv, ParseToken PROVE IInv'
  OBVIOUS
<1> DEFINE at == FirstBehind(Position, scommand)
           end == FirstFrom(at, scommand, {Blank, NUL})
           word == [j \in 1..(end - at) |-> scommand[at + j - 1]]
           after == IF arguments = <<>> THEN "after" ELSE "invoke"
<1>1. /\ pc = "parse"
      /\ UNCHANGED <<term, buf, i, line, base, whole, programs, started, count>>
      /\ \/ /\ scommand[at] = NUL /\ sp' = Null /\ pc' = after
            /\ UNCHANGED <<scommand, arguments, allocations, failed>>
         \/ /\ scommand[at] # NUL /\ Token(end)
            /\ pc' = "parse" /\ arguments' = Append(arguments, Cut(word))
            /\ UNCHANGED failed
         \/ /\ scommand[at] # NUL /\ Token(end)
            /\ failed' = <<failed[1], TRUE>>
            /\ pc' = after /\ UNCHANGED arguments
  BY DEF ParseToken, NoToken, Position, FirstBehind, reading
<1> HIDE DEF word
<1>2. /\ scommand \in [0..(max - 1) -> Characters] /\ max \in Nat /\ max > 1
      /\ sp \in {Null} \cup 0..(max - 1) /\ Position \in 0..(max - 1) /\ Position \in Nat
      /\ line \in Seq(Keys) /\ Len(line) \in 0..(max - 1) /\ Len(line) \in Nat
      /\ arguments \in Seq(Seq(Characters)) /\ failed \in BOOLEAN \X BOOLEAN
  BY ShellAssumption DEF IInv, ShellTypeOK, LineKept, Position, Null
<1>3. PICK E \in Position..(max - 1) :
          scommand[E] = NUL /\ \A k \in Position..(E - 1) : scommand[k] # Garbage
  BY <1>1 DEF IInv, TextEnds, EndsFrom
<1>4. NUL # Blank
  BY DEF NUL, Blank
<1>5. /\ at \in Position..E /\ scommand[at] # Blank
      /\ \A j \in Position..(at - 1) : scommand[j] = Blank
  <2>1. scommand[E] # Blank
    BY <1>3, <1>4
  <2>2. Position \in Nat /\ E \in Position..(max - 1)
    BY <1>2, <1>3
  <2> QED BY ONLY <2>1, <2>2, FirstBehindIs DEF at
<1>6. at \in Nat /\ at \in 0..(max - 1)
  BY <1>2, <1>5
<1> HIDE DEF at
<1>7. /\ end \in at..E /\ scommand[end] \in {Blank, NUL}
      /\ \A j \in at..(end - 1) : scommand[j] \notin {Blank, NUL}
  <2>1. E \in at..(max - 1) /\ scommand[E] \in {Blank, NUL}
    BY <1>2, <1>3, <1>5
  <2> QED BY <1>6, <2>1, FirstFromIs
<1>8. end \in Nat /\ end \in 0..(max - 1)
  BY <1>2, <1>3, <1>6, <1>7
<1> HIDE DEF end
<1>w. Cut(word) \in Seq(Characters)
  <2>1. \A j \in 1..(end - at) : at + j - 1 \in 0..(max - 1)
    BY <1>2, <1>6, <1>8
  <2>2. \A j \in 1..(end - at) : scommand[at + j - 1] \in Characters
    BY <1>2, <2>1
  <2>3. end - at \in Nat
    BY <1>6, <1>7, <1>8
  <2>4. word \in Seq(Characters)
    BY <2>2, <2>3 DEF word
  <2> QED BY <2>4, CutType
<1>9. LineKept' /\ LineFits' /\ LineOnScreen' /\ ArgumentsAsTyped'
  <2>1. started = NotStarted
    BY <1>1 DEF IInv, WordsKept
  <2>2. pc' \in {"parse", "after", "invoke"}
    BY <1>1
  <2> QED BY <1>1, <2>1, <2>2 DEF IInv, LineKept, LineFits, LineOnScreen, ArgumentsAsTyped
<1>10. started' = NotStarted
  BY <1>1 DEF IInv, WordsKept
<1>a. ASSUME NoneFailed, pc = "parse"
      PROVE  /\ Between /\ at <= Len(line)
             /\ \A k \in Begins(line) : k <= at => k <= Position
             /\ scommand[at] = NUL => at = Len(line)
  <2>1. Between
    BY <1>a DEF IInv, WordsKept
  <2>2. scommand[Len(line)] # Blank
    BY <1>4, <2>1 DEF Between
  <2>3. at <= Len(line)
    <3>1. Len(line) < at => Len(line) \in Position..(at - 1)
      BY <1>2, <1>6, <2>1 DEF Between
    <3> QED BY <1>2, <1>5, <1>6, <2>2, <3>1
  <2>4. ASSUME NEW k \in Begins(line), k <= at, ~(k <= Position) PROVE FALSE
    <3>1. k \in 1..Len(line) /\ line[k] # Blank
      BY <1>2 DEF Begins
    <3>2. k - 1 \in Position..(at - 1) /\ k - 1 \in Position..(Len(line) - 1) /\ (k - 1) + 1 = k
      BY <1>2, <1>6, <2>4, <3>1
    <3>3. scommand[k - 1] = line[k]
      BY <2>1, <3>2 DEF Between
    <3> QED BY <1>5, <3>1, <3>2, <3>3
  <2>5. ASSUME scommand[at] = NUL, at # Len(line) PROVE FALSE
    <3>1. at \in Position..(Len(line) - 1) /\ at + 1 \in 1..Len(line)
      BY <1>2, <1>5, <1>6, <2>3, <2>5
    <3>2. scommand[at] = line[at + 1] /\ line[at + 1] \in Keys
      BY <1>2, <2>1, <3>1 DEF Between
    <3> QED BY <2>5, <3>2, KeysAssumption
  <2> QED BY <2>1, <2>3, <2>4, <2>5
<1>11. CASE /\ scommand[at] = NUL /\ sp' = Null /\ pc' = after
            /\ UNCHANGED <<scommand, arguments, allocations, failed>>
  <2>1. ShellTypeOK'
    BY <1>1, <1>2, <1>11 DEF IInv, ShellTypeOK
  <2>2. TextEnds'
    BY <1>11 DEF TextEnds
  <2>3. WordsKept'
    <3>1. ASSUME NoneFailed PROVE AreWords(arguments, line)
      <4>1. /\ WordsTo(arguments, line, Position) /\ at = Len(line)
            /\ \A k \in Begins(line) : k <= at => k <= Position
        BY <1>1, <1>11, <1>a, <3>1 DEF Between
      <4>2. \A k \in Begins(line) : k <= Position
        <5>1. \A k \in Begins(line) : k <= Len(line)
          BY <1>2 DEF Begins
        <5> QED BY <4>1, <5>1
      <4> QED BY <4>1, <4>2 DEF WordsTo, AreWords
    <3> QED BY <1>1, <1>10, <1>11, <3>1 DEF WordsKept, NoneFailed
  <2> QED BY <1>9, <2>1, <2>2, <2>3 DEF IInv
<1>12. ASSUME Token(end)
       PROVE  /\ sp' = IF scommand[end] = Blank THEN end + 1 ELSE end
              /\ sp' \in 0..(max - 1) /\ Position' = sp' /\ sp' # Null
              /\ scommand' \in [0..(max - 1) -> Characters] /\ scommand'[end] = NUL
              /\ \A k \in 0..(max - 1) : k # end => scommand'[k] = scommand[k]
              /\ TextEnds'
  <2>1. /\ sp' = IF scommand[end] = Blank THEN end + 1 ELSE end
        /\ scommand' = [scommand EXCEPT ![end] = NUL]
    BY <1>12 DEF Token
  <2>2. /\ scommand' \in [0..(max - 1) -> Characters] /\ scommand'[end] = NUL
        /\ \A k \in 0..(max - 1) : k # end => scommand'[k] = scommand[k]
    BY <1>2, <1>8, <2>1, CharactersHas
  <2>3. CASE scommand[end] = Blank
    <3>1. sp' = end + 1
      BY <2>1, <2>3
    <3>2. end # E
      BY <1>3, <1>4, <2>3
    <3>3. E \in sp'..(max - 1) /\ sp' \in 0..(max - 1) /\ sp' # Null /\ E \in 0..(max - 1)
      BY <1>2, <1>3, <1>6, <1>7, <1>8, <3>1, <3>2 DEF Null
    <3>4. Position' = sp'
      BY <3>3 DEF Position
    <3>5. \A k \in sp'..(E - 1) : k \in Position..(E - 1) /\ k \in 0..(max - 1) /\ k # end
      BY <1>2, <1>3, <1>5, <1>6, <1>7, <1>8, <3>1
    <3>6. scommand'[E] = NUL /\ \A k \in sp'..(E - 1) : scommand'[k] # Garbage
      BY <1>3, <2>2, <3>2, <3>3, <3>5
    <3> QED BY <2>1, <2>2, <3>3, <3>4, <3>6 DEF TextEnds, EndsFrom
  <2>4. CASE scommand[end] # Blank
    <3>1. sp' = end
      BY <2>1, <2>4
    <3>2. end \in sp'..(max - 1) /\ sp' \in 0..(max - 1) /\ sp' # Null
      BY <1>2, <1>8, <3>1 DEF Null
    <3>3. Position' = sp'
      BY <3>2 DEF Position
    <3>4. \A k \in sp'..(end - 1) : FALSE
      BY <1>8, <3>1
    <3> QED BY <2>1, <2>2, <3>2, <3>3, <3>4 DEF TextEnds, EndsFrom
  <2> QED BY <2>3, <2>4
<1>13. CASE /\ scommand[at] # NUL /\ Token(end)
            /\ failed' = <<failed[1], TRUE>>
            /\ pc' = after /\ UNCHANGED arguments
  <2>1. failed' \in BOOLEAN \X BOOLEAN /\ failed'[2]
    <3>1. PICK a \in BOOLEAN, b \in BOOLEAN : failed = <<a, b>>
      BY <1>2
    <3>2. failed' = <<a, TRUE>>
      BY <1>13, <3>1
    <3> QED BY <3>2
  <2>2. ShellTypeOK'
    BY <1>1, <1>2, <1>12, <1>13, <2>1 DEF IInv, ShellTypeOK
  <2>3. ~NoneFailed'
    <3>1. ASSUME NoneFailed' PROVE failed'[2] = FALSE
      BY <3>1, Zenon DEF NoneFailed
    <3> QED BY <2>1, <3>1
  <2>4. WordsKept'
    BY <1>10, <2>1, <2>3 DEF WordsKept
  <2> QED BY <1>9, <1>12, <1>13, <2>2, <2>4 DEF IInv
<1>14. CASE /\ scommand[at] # NUL /\ Token(end)
            /\ pc' = "parse" /\ arguments' = Append(arguments, Cut(word))
            /\ UNCHANGED failed
  <2>1. ShellTypeOK'
    <3>1. arguments' \in Seq(Seq(Characters))
      BY <1>2, <1>w, <1>14, AppendProperties
    <3> QED BY <1>1, <1>2, <1>12, <1>14, <3>1 DEF IInv, ShellTypeOK
  <2>2. ASSUME NoneFailed PROVE Between'
    <3>1. /\ Position <= Len(line)
          /\ \A k \in Position..(Len(line) - 1) : scommand[k] = line[k + 1]
          /\ scommand[Len(line)] = NUL
          /\ Position = 0 \/ Position = Len(line) \/ line[Position] = Blank
          /\ WordsTo(arguments, line, Position)
          /\ at <= Len(line)
          /\ \A k \in Begins(line) : k <= at => k <= Position
      BY <1>1, <1>a, <2>2 DEF Between
    <3>2. at < Len(line)
      BY <1>2, <1>6, <1>14, <3>1
    <3>3. at < end
      <4>1. at # end
        BY <1>5, <1>7, <1>14
      <4> QED BY <1>6, <1>7, <1>8, <4>1
    <3>4. end <= Len(line)
      <4>1. Len(line) < end => Len(line) \in at..(end - 1)
        BY <1>2, <1>6, <1>8, <3>2
      <4> QED BY <1>2, <1>7, <1>8, <3>1, <4>1
    <3>5. \A k \in at..(Len(line) - 1) : scommand[k] = line[k + 1]
      BY <1>2, <1>5, <1>6, <3>1
    <3>6. ASSUME NEW k \in (at + 1)..end PROVE line[k] # Blank
      <4>1. k - 1 \in at..(end - 1) /\ k - 1 \in at..(Len(line) - 1) /\ (k - 1) + 1 = k
        BY <1>2, <1>6, <1>8, <3>4
      <4> QED BY <1>7, <3>5, <4>1
    <3>7. ASSUME end < Len(line) PROVE line[end + 1] = Blank /\ scommand[end] = Blank
      <4>1. end \in at..(Len(line) - 1) /\ end + 1 \in 1..Len(line)
        BY <1>2, <1>6, <1>8, <3>3, <3>7
      <4>2. scommand[end] = line[end + 1] /\ line[end + 1] \in Keys
        BY <1>2, <3>5, <4>1
      <4> QED BY <1>7, <4>2, KeysAssumption
    <3>8. at + 1 \in Begins(line)
      <4>1. at + 1 \in DOMAIN line /\ line[at + 1] # Blank
        <5>1. at + 1 \in 1..Len(line) /\ at + 1 \in (at + 1)..end
          BY <1>2, <1>6, <1>8, <3>2, <3>3
        <5> QED BY <1>2, <3>6, <5>1
      <4>2. ASSUME at + 1 > 1 PROVE line[at] = Blank
        <5>1. CASE at = Position
          BY <1>2, <1>6, <3>1, <3>2, <4>2, <5>1
        <5>2. CASE at # Position
          <6>1. /\ at - 1 \in Position..(at - 1) /\ at - 1 \in Position..(Len(line) - 1)
                /\ (at - 1) + 1 = at
            BY <1>2, <1>5, <1>6, <3>2, <5>2
          <6> QED BY <1>5, <3>1, <6>1
        <5> QED BY <5>1, <5>2
      <4>3. (at + 1) - 1 = at
        BY <1>6
      <4> QED BY <4>1, <4>2, <4>3 DEF Begins
    <3>9. WordAt(line, at + 1) = SubSeq(line, at + 1, end)
      <4>1. at + 1 \in Nat /\ end \in (at + 1)..Len(line)
        BY <1>2, <1>6, <1>8, <3>3, <3>4
      <4> QED BY <1>2, <3>6, <3>7, <4>1, WordEnds
    <3>10. word = SubSeq(line, at + 1, end)
      <4>1. SubSeq(line, at + 1, end) = [j \in 1..(end - (at + 1) + 1) |-> line[(at + 1) + j - 1]]
        BY <1>2, <1>6, <1>8
      <4>2. end - (at + 1) + 1 = end - at
        BY <1>6, <1>8
      <4>3. ASSUME NEW j \in 1..(end - at) PROVE scommand[at + j - 1] = line[(at + 1) + j - 1]
        <5>1. /\ at + j - 1 \in at..(Len(line) - 1) /\ (at + j - 1) + 1 = (at + 1) + j - 1
          BY <1>2, <1>6, <1>8, <3>4
        <5> QED BY <3>5, <5>1
      <4> QED BY <4>1, <4>2, <4>3 DEF word
    <3> DEFINE q == sp'
    <3>11. q \in Nat /\ ((q = end + 1 /\ end < Len(line)) \/ (q = end /\ end = Len(line)))
      <4>1. CASE end < Len(line)
        BY <1>8, <1>12, <1>14, <3>7, <4>1
      <4>2. CASE end = Len(line)
        BY <1>4, <1>8, <1>12, <1>14, <3>1, <4>2
      <4> QED BY <1>2, <1>8, <3>4, <4>1, <4>2
    <3>12. ASSUME NEW k \in Begins(line), k <= q PROVE k <= Position \/ k = at + 1
      <4>1. /\ k \in 1..Len(line) /\ line[k] # Blank /\ (k > 1 => line[k - 1] = Blank)
        BY <1>2 DEF Begins
      <4>2. CASE k <= at
        BY <3>1, <4>2
      <4>3. CASE k > at + 1 /\ k <= end
        <5>1. k - 1 \in (at + 1)..end /\ k > 1
          BY <1>2, <1>6, <1>8, <4>1, <4>3
        <5> QED BY <3>6, <4>1, <5>1
      <4>4. CASE k = end + 1
        BY <1>2, <1>8, <3>7, <4>1, <4>4
      <4> QED BY <1>2, <1>6, <1>8, <3>11, <3>12, <4>1, <4>2, <4>3, <4>4
    <3>13. at + 1 \in Nat /\ Position < at + 1 /\ at + 1 <= q
      BY <1>2, <1>5, <1>6, <1>8, <3>3, <3>11
    <3> HIDE DEF q
    <3>14. WordsTo(Append(arguments, Cut(word)), line, q)
      BY <1>2, <1>w, <3>1, <3>8, <3>9, <3>10, <3>11, <3>12, <3>13, OneMoreWord
    <3>15. Position' = q /\ line' = line /\ q <= Len(line)
      BY <1>1, <1>2, <1>8, <1>12, <1>14, <3>11 DEF q
    <3>16. \A k \in q..(Len(line) - 1) : scommand'[k] = line[k + 1]
      <4>1. \A k \in q..(Len(line) - 1) :
                k \in 0..(max - 1) /\ k # end /\ k \in at..(Len(line) - 1)
        BY <1>2, <1>6, <1>8, <3>3, <3>11
      <4> QED BY <1>12, <1>14, <3>5, <4>1
    <3>17. scommand'[Len(line)] = NUL
      BY <1>2, <1>12, <1>14, <3>1
    <3>18. q = 0 \/ q = Len(line) \/ line[q] = Blank
      BY <3>7, <3>11
    <3>19. WordsTo(arguments', line', Position')
      BY <1>14, <3>14, <3>15
    <3> QED BY <3>15, <3>16, <3>17, <3>18, <3>19 DEF Between
  <2>3. WordsKept'
    BY <1>10, <1>14, <2>2 DEF WordsKept, NoneFailed
  <2> QED BY <1>9, <1>12, <1>14, <2>1, <2>3 DEF IInv
<1> QED BY <1>1, <1>11, <1>13, <1>14

\* The program, when one is loaded, gets the arguments or none
\* (isr80h/process.c, task/process.c:217-275).
LEMMA InvokeInv == IInv /\ Invoke => IInv'
<1> SUFFICES ASSUME IInv, Invoke PROVE IInv'
  OBVIOUS
<1>1. /\ pc = "invoke" /\ pc' = "after" /\ arguments' = <<>>
      /\ started' \in {started, arguments, <<>>}
      /\ UNCHANGED <<term, buf, i, line, base, whole, scommand, sp, allocations, failed>>
  BY DEF Invoke, reading, Injected
<1>2. ShellTypeOK'
  BY <1>1, EmptySeq DEF IInv, ShellTypeOK
<1>3. LineKept' /\ LineFits' /\ LineOnScreen'
  BY <1>1 DEF IInv, LineKept, LineFits, LineOnScreen
<1>4. TextEnds'
  BY <1>1 DEF IInv, TextEnds, EndsFrom, Position
<1>5. WordsKept'
  BY <1>1 DEF IInv, WordsKept
<1>6. ArgumentsAsTyped'
  <2> SUFFICES ASSUME started' # NotStarted, started' # <<>>, NoneFailed
               PROVE  AreWords(started', line)
    BY <1>1 DEF ArgumentsAsTyped, NoneFailed
  <2>1. started = NotStarted
    BY <1>1 DEF IInv, WordsKept
  <2>2. started' = arguments
    BY <1>1, <2>1
  <2> QED BY <1>1, <2>2 DEF IInv, WordsKept
<1> QED BY <1>2, <1>3, <1>4, <1>5, <1>6 DEF IInv

LEMMA AfterRunInv == IInv /\ AfterRun => IInv'
<1> SUFFICES ASSUME IInv, AfterRun PROVE IInv'
  OBVIOUS
<1>1. /\ pc = "after" /\ pc' = "prompt" /\ term' = WriteAll(term, <<Newline>>)
      /\ buf' = Fresh(max) /\ i' = 0 /\ line' = <<>>
      /\ base' = <<0, 0>> /\ whole' = FALSE /\ started' = NotStarted
      /\ UNCHANGED <<scommand, sp, arguments, allocations, failed>>
  BY DEF AfterRun, NoLine, parsing
<1>2. ShellTypeOK'
  <2>1. <<Newline>> \in Seq(Characters)
    BY CharactersHas
  <2>2. term' \in Terms
    BY <1>1, <2>1, WriteAllType DEF IInv, ShellTypeOK
  <2>3. buf' \in [0..(max - 1) -> Characters]
    BY <1>1, CharactersHas DEF Fresh
  <2>4. 0 \in 0..(max - 1) /\ line' \in Seq(Keys) /\ base' \in Nat \X Nat
    BY <1>1, ShellAssumption, EmptySeq
  <2> QED BY <1>1, <2>2, <2>3, <2>4 DEF IInv, ShellTypeOK
<1>3. LineKept' /\ LineFits' /\ LineOnScreen'
  BY <1>1 DEF LineKept, LineFits, LineOnScreen
<1>4. TextEnds'
  BY <1>1 DEF IInv, TextEnds, EndsFrom, Position
<1>5. WordsKept' /\ ArgumentsAsTyped'
  BY <1>1 DEF IInv, WordsKept, ArgumentsAsTyped, NoneFailed
<1> QED BY <1>2, <1>3, <1>4, <1>5 DEF IInv

\* What another program prints stands anywhere: the screen is no longer the line's.
LEMMA OtherPrintsInv == ASSUME IInv, NEW c \in Texts, OtherPrints(c) PROVE IInv'
<1>1. /\ term' = Write(term, c) /\ whole' = FALSE
      /\ UNCHANGED <<pc, buf, i, line, base, scommand, sp, arguments, allocations, failed,
                     started>>
  BY DEF OtherPrints, parsing
<1>2. ShellTypeOK'
  <2>1. term' \in Terms
    BY <1>1, WriteType, CharactersHas DEF IInv, ShellTypeOK
  <2> QED BY <1>1, <2>1 DEF IInv, ShellTypeOK
<1>3. LineKept' /\ LineFits' /\ LineOnScreen'
  BY <1>1 DEF IInv, LineKept, LineFits, LineOnScreen
<1>4. TextEnds'
  BY <1>1 DEF IInv, TextEnds, EndsFrom, Position
<1>5. WordsKept' /\ ArgumentsAsTyped'
  BY <1>1 DEF IInv, WordsKept, ArgumentsAsTyped, NoneFailed, Between, Position, WordsTo
<1> QED BY <1>2, <1>3, <1>4, <1>5 DEF IInv

LEMMA Unchanged ==
    ASSUME IInv, UNCHANGED <<term, pc, reading, parsing, started>> PROVE IInv'
<1>1. UNCHANGED <<term, pc, buf, i, line, base, whole, scommand, sp, arguments, allocations,
                  failed, started>>
  BY DEF reading, parsing
<1>2. ShellTypeOK' /\ LineKept' /\ LineFits' /\ LineOnScreen'
  BY <1>1 DEF IInv, ShellTypeOK, LineKept, LineFits, LineOnScreen
<1>3. TextEnds'
  BY <1>1 DEF IInv, TextEnds, EndsFrom, Position
<1>4. WordsKept' /\ ArgumentsAsTyped'
  BY <1>1 DEF IInv, WordsKept, ArgumentsAsTyped, NoneFailed, Between, Position, WordsTo
<1> QED BY <1>2, <1>3, <1>4 DEF IInv

-----------------------------------------------------------------------------
(* The theorems.                                                             *)

\* The shell's line, its tokens, its arguments and the screen stay related through
\* every key, command, failure and program.
THEOREM ShellInvariant == Spec => []IInv
<1>1. Init => IInv
  BY InitInv
<1>2. IInv /\ [Next]_vars => IInv'
  <2> SUFFICES ASSUME IInv, [Next]_vars PROVE IInv'
    OBVIOUS
  <2>1. CASE ShowPrompt
    BY <2>1, ShowPromptInv
  <2>2. CASE EndLine
    BY <2>2, EndLineInv
  <2>3. CASE RunLine
    BY <2>3, RunLineInv
  <2>4. ASSUME NEW key \in Keys, TypeKey(key) PROVE IInv'
    BY <2>4, TypeKeyInv
  <2>5. CASE ParseToken
    BY <2>5, ParseTokenInv
  <2>6. CASE Invoke
    BY <2>6, InvokeInv
  <2>7. CASE AfterRun
    BY <2>7, AfterRunInv
  <2>8. ASSUME NEW c \in Texts, OtherPrints(c) PROVE IInv'
    BY <2>8, OtherPrintsInv
  <2>9. CASE OtherEnds
    BY <2>9, Unchanged DEF OtherEnds
  <2>10. CASE UNCHANGED vars
    BY <2>10, Unchanged DEF vars
  <2> QED BY <2>1, <2>2, <2>3, <2>4, <2>5, <2>6, <2>7, <2>8, <2>9, <2>10 DEF Next
<1> QED BY <1>1, <1>2, PTL DEF Spec

\* While the shell alone prints and the line fits its row, what readline has got is
\* what stands on the screen, with the cursor behind it (kernel.c:30-83, os.c:89-128).
THEOREM LineStaysOnScreen == Spec => []LineOnScreen
<1>1. IInv => LineOnScreen
  BY DEF IInv
<1> QED BY <1>1, ShellInvariant, PTL

\* A program that is given arguments is given the words of the line that was typed
\* for it, unless an allocation failed in this command or the one before
\* (string.c:276-330, os.c:18-66).
THEOREM ProgramsGetTheirWords == Spec => []ArgumentsAsTyped
<1>1. IInv => ArgumentsAsTyped
  BY DEF IInv
<1> QED BY <1>1, ShellInvariant, PTL

\* What strtok goes on with ends inside the buffer, in characters that were written
\* there, whatever commands were given up half-way (string.c:276-330).
THEOREM RestOfTheLineEnds == Spec => []TokensEnd
<1>1. IInv => TokensEnd
  BY DEF IInv, TextEnds, EndsFrom, Position, TokensEnd
<1> QED BY <1>1, ShellInvariant, PTL
=============================================================================
