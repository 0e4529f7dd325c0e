------------------------------ MODULE Terminal ------------------------------
(***************************************************************************)
(* The text screen of the kernel (kernel/kernel.c): a terminal is the memory *)
(* of the screen with the cursor.  The row has no bound in the code either   *)
(* (its 16 bits are never used up here); what is written behind the screen   *)
(* goes to other memory and is dropped.                                      *)
(***************************************************************************)
EXTENDS Integers, Sequences

CONSTANTS VGA_WIDTH, VGA_HEIGHT

ASSUME TerminalAssumption == VGA_WIDTH \in Nat \ {0} /\ VGA_HEIGHT \in Nat \ {0}

Backspace == "BS"
Newline == "LF"
Tab == "TAB"
Blank == " "

Cells == 0..(VGA_WIDTH * VGA_HEIGHT - 1)
Cell(row, column) == row * VGA_WIDTH + column

\* term_init
Cleared == [vram |-> [k \in Cells |-> Blank], row |-> 0, column |-> 0]

NextRow(t) == [vram |-> t.vram, row |-> t.row + 1, column |-> 0]

\* term_putchar
Drawn(t, c) ==
    LET k == Cell(t.row, t.column)
    IN  IF k \in Cells THEN [t.vram EXCEPT ![k] = c] ELSE t.vram

\* term_putchar, and the cursor behind it
Put(t, c) ==
    LET next == [vram |-> Drawn(t, c), row |-> t.row, column |-> t.column + 1]
    IN  IF next.column > VGA_WIDTH THEN NextRow(next) ELSE next

\* terminal_backspace: the cursor goes back over a blank; mutant: it stays behind it.
Left(t) == [vram |-> t.vram, row |-> t.row, column |-> t.column - 1]
Back(t) == Left(IF t.column = 0
                  THEN [vram |-> t.vram, row |-> t.row - 1, column |-> VGA_WIDTH] ELSE t)
EraseOnly(t) == IF t.row = 0 /\ t.column = 0 THEN t ELSE Put(Back(t), Blank)
Erase(t) == IF t.row = 0 /\ t.column = 0 THEN t ELSE Left(Put(Back(t), Blank))

\* term_writechar
Write(t, c) ==
    CASE c = Newline   -> NextRow(t)
      [] c = Backspace -> Erase(t)
      [] c = Tab       -> Put(Put(Put(Put(t, Blank), Blank), Blank), Blank)
      [] OTHER         -> Put(t, c)

\* print
WriteAll(t, text) ==
    LET after[n \in 0..Len(text)] == IF n = 0 THEN t ELSE Write(after[n - 1], text[n])
    IN  after[Len(text)]
=============================================================================
