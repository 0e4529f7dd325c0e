-------------------------------- MODULE Shell --------------------------------
(***************************************************************************)
(* The shell (tools/shell/src/shell.c) with the library it is built from     *)
(* (lib/stdlib/src/os.c, strtok and strncpy of lib/stdlib/src/string.c), and *)
(* the kernel's side of a command (isr80h/process.c, task/process.c:217-275). *)
(* A step is what the shell does from one system call to the next; programs  *)
(* that were started print and end in between.  Keys typed ahead are read    *)
(* while a program has the focus.                                            *)
(***************************************************************************)
EXTENDS Terminal, SequencesExt

CONSTANTS
    Keys,               \* what the keyboard gives, without the carriage return
    Texts,              \* what programs print, a character at a time
    Welcome, Prompt,
    max,                \* the size of the shell's line, its NUL included
    ArgumentSize,       \* the size of an argument, its NUL included
    MAX_PROGRAM_ALLOCATIONS,
    MaxPrograms,        \* bound: other programs alive
    MaxCount            \* bound: prompts shown and characters programs print, together

ASSUME ShellAssumption ==
    /\ max \in Nat \ {0, 1} /\ ArgumentSize \in Nat \ {0}
    /\ MAX_PROGRAM_ALLOCATIONS \in Nat /\ MaxPrograms \in Nat
    /\ MaxCount \in Nat
    /\ Welcome \in Seq(STRING) /\ Prompt \in Seq(STRING)

NUL == "NUL"
Garbage == "?"          \* what memory holds that was never written
Null == -1

\* sys_getkeyblock waits for a character that is not 0, no key is a newline
\* (classic.c:15-27), and the mark of unwritten memory is not a key's.
ASSUME KeysAssumption == Keys \cap {NUL, Newline, Garbage} = {}

VARIABLES
    term,               \* the terminal
    pc,                 \* where the shell is
    buf, i,             \* readline: the line and the index
    scommand, sp,       \* strtok: the text that is cut, and what it remembers
    arguments,          \* the list parsed so far
    allocations,        \* the shell's slots in use; it never frees
    programs,           \* how many other programs are alive
    started,            \* the arguments of the program this command started
    line,               \* history: the keys of the line, edited
    base, whole,        \* history: the cursor before the line; nothing but the line's
                        \* own characters came after it, and they fit the row
    count,              \* what MaxCount bounds
    failed              \* history: an allocation failed in the last command but one,
                        \* in the last command

reading == <<buf, i, line, base, whole>>
parsing == <<scommand, sp, arguments, allocations, failed>>
vars == <<term, pc, reading, parsing, programs, started, count>>

NotStarted == <<<<NUL>>>>

Fresh(size) == [k \in 0..(size - 1) |-> Garbage]
FirstFrom(start, text, set) ==
    CHOOSE k \in start..(max - 1) : text[k] \in set /\ \A j \in start..(k - 1) : text[j] \notin set

Init ==
    /\ term = WriteAll(Cleared, Welcome)
    /\ pc = "prompt"
    /\ buf = Fresh(max) /\ i = 0
    /\ scommand = Fresh(max) /\ sp = Null
    /\ arguments = <<>> /\ allocations = 0
    /\ programs = 0 /\ started = NotStarted
    /\ line = <<>> /\ base = <<0, 0>> /\ whole = FALSE
    /\ failed = <<FALSE, FALSE>> /\ count = 0

-----------------------------------------------------------------------------
(* The line.                                                                 *)

NoLine == buf' = Fresh(max) /\ i' = 0 /\ line' = <<>>

\* main prints the prompt and calls sys_terminal_readline with a new line
ShowPrompt ==
    /\ pc = "prompt" /\ count < MaxCount /\ count' = count + 1
    /\ term' = WriteAll(term, Prompt)
    /\ pc' = "read"
    /\ base' = <<term'.row, term'.column>> /\ whole' = TRUE
    /\ UNCHANGED <<buf, i, line, parsing, programs, started>>

\* sys_terminal_readline gets a carriage return
EndLine ==
    /\ pc = "read"
    /\ pc' = "newline"
    /\ buf' = [buf EXCEPT ![i] = NUL]
    /\ UNCHANGED <<term, i, line, base, whole, parsing, programs, started, count>>

\* the index once the loop has counted on; mutant: it goes back one less.
IndexStays(key) == IF key = Backspace /\ i >= 1 THEN i ELSE i + 1
Index(key) == IF key = Backspace /\ i >= 1 THEN i - 1 ELSE i + 1
Stored(key) ==
    IF key = Backspace /\ i >= 1 THEN [buf EXCEPT ![i - 1] = NUL] ELSE [buf EXCEPT ![i] = key]

\* It gets another key, which it prints and stores, and the line may be full.  The
\* key's own system call leaves the terminal alone: a program that prints behind it
\* might as well print before.
TypeKey(key) ==
    /\ pc = "read"
    /\ term' = Write(term, key)
    /\ line' = IF key = Backspace /\ line # <<>> THEN Front(line) ELSE Append(line, key)
    /\ whole' = /\ whole /\ key # Tab
                /\ key = Backspace => line # <<>>
                /\ base[2] + Len(line') <= VGA_WIDTH
    /\ i' = Index(key)
    /\ IF Index(key) < max - 1
         THEN buf' = Stored(key) /\ UNCHANGED pc
         ELSE buf' = [Stored(key) EXCEPT ![Index(key)] = NUL] /\ pc' = "newline"
    /\ UNCHANGED <<base, parsing, programs, started, count>>

\* main prints the newline and calls sys_system_run, whose copies of the line end
\* where the line does
RunLine ==
    /\ pc = "newline"
    /\ term' = WriteAll(term, <<Newline>>)
    /\ LET n == FirstFrom(0, buf, {NUL})
       IN  scommand' = [k \in DOMAIN scommand |-> IF k <= n THEN buf[k] ELSE scommand[k]]
    /\ arguments' = <<>>
    /\ failed' = <<failed[2], FALSE>>
    /\ pc' = "parse"
    /\ UNCHANGED <<reading, sp, allocations, programs, started, count>>

-----------------------------------------------------------------------------
(* The command.                                                              *)

\* strtok: its text is not looked at while sp is set; mutant: sp stays set at the
\* end of the text.
NoTokenKeepsSp(at) == sp' = at
NoToken(at) == sp' = Null

\* strtok, a token from `at' to `end'; mutant: sp goes on behind the text's end.
TokenPastEnd(end) ==
    /\ sp' = end + 1
    /\ scommand' = [scommand EXCEPT ![end] = NUL]
Token(end) ==
    /\ sp' = IF scommand[end] = Blank THEN end + 1 ELSE end
    /\ scommand' = [scommand EXCEPT ![end] = NUL]

\* strncpy into an argument
Cut(word) == IF Len(word) < ArgumentSize THEN word ELSE SubSeq(word, 1, ArgumentSize - 1)

\* sys_parse_command takes the next token and allocates an argument for it
ParseToken ==
    /\ pc = "parse"
    /\ LET start == IF sp = Null THEN 0 ELSE sp
           at == CHOOSE k \in start..(max - 1) :
                     scommand[k] # Blank /\ \A j \in start..(k - 1) : scommand[j] = Blank
           end == FirstFrom(at, scommand, {Blank, NUL})
           word == [j \in 1..(end - at) |-> scommand[at + j - 1]]
           done == pc' = IF arguments = <<>> THEN "after" ELSE "invoke"
       IN  IF scommand[at] = NUL
             THEN /\ NoToken(at) /\ done
                  /\ UNCHANGED <<scommand, arguments, allocations, failed>>
             ELSE /\ Token(end)
                  /\ \/ /\ allocations < MAX_PROGRAM_ALLOCATIONS
                        /\ allocations' = allocations + 1
                        /\ arguments' = Append(arguments, Cut(word))
                        /\ UNCHANGED <<pc, failed>>
                     \/ /\ failed' = <<failed[1], TRUE>>
                        /\ done
                        /\ UNCHANGED <<arguments, allocations>>
    /\ UNCHANGED <<term, reading, programs, started, count>>

\* process_inject_arguments; mutant: the first word is the path only.
ArgumentsButFirst == Tail(arguments)
Injected == arguments

\* isr80h_proc_cmd_invoke_system_command: no program is loaded, or one is and gets
\* its arguments, or it runs without them
Invoke ==
    /\ pc = "invoke"
    /\ pc' = "after" /\ arguments' = <<>>
    /\ \/ UNCHANGED <<programs, started>>
       \/ /\ programs < MaxPrograms
          /\ programs' = programs + 1
          /\ started' \in {Injected, <<>>}
    /\ UNCHANGED <<term, reading, scommand, sp, allocations, failed, count>>

AfterRun ==
    /\ pc = "after"
    /\ term' = WriteAll(term, <<Newline>>)
    /\ pc' = "prompt"
    /\ NoLine /\ base' = <<0, 0>> /\ whole' = FALSE /\ started' = NotStarted
    /\ UNCHANGED <<parsing, programs, count>>

\* other programs
OtherPrints(c) ==
    /\ programs > 0 /\ count < MaxCount /\ count' = count + 1
    /\ term' = Write(term, c)
    /\ whole' = FALSE
    /\ UNCHANGED <<pc, buf, i, line, base, parsing, programs, started>>
OtherEnds ==
    /\ programs > 0
    /\ programs' = programs - 1
    /\ UNCHANGED <<term, pc, reading, parsing, started, count>>

Next ==
    \/ ShowPrompt \/ EndLine \/ RunLine
    \/ \E key \in Keys : TypeKey(key)
    \/ ParseToken \/ Invoke \/ AfterRun
    \/ \E c \in Texts : OtherPrints(c)
    \/ OtherEnds

Spec == Init /\ [][Next]_vars
-----------------------------------------------------------------------------
\* The user sees the line readline has got, with the cursor behind it: cursor,
\* screen, index and buffer are kept by two programs that never compare them
\* (kernel.c:30-83, os.c:89-128).  This is claimed of a line that fits its row, into
\* which no other program prints and in which no backspace was typed while it was
\* empty (that one is stored, and erases the prompt), and of the cells of the screen:
\* where the cursor wraps at the end of a row, or is below the last one, what is seen
\* is not the line.
LineOnScreen ==
    pc \in {"read", "newline"} /\ whole =>
        /\ term.row = base[1] /\ term.column = base[2] + i
        /\ i = Len(line)
        /\ \A k \in 1..i :
              /\ buf[k - 1] = line[k]
              /\ LET cell == Cell(base[1], base[2] + k - 1)
                 IN  cell \in Cells => term.vram[cell] = line[k]

\* where the words of a text begin, and the word that begins there
Begins(text) == {k \in DOMAIN text : text[k] # Blank /\ (k > 1 => text[k - 1] = Blank)}
WordAt(text, b) ==
    LET e == CHOOSE e \in b..Len(text) :
                /\ \A k \in b..e : text[k] # Blank
                /\ e < Len(text) => text[e + 1] = Blank
    IN  SubSeq(text, b, e)

\* these are the words of the text, each cut to the size of an argument, in order
AreWords(words, text) ==
    \E b \in [DOMAIN words -> Begins(text)] :
        /\ \A n, m \in DOMAIN words : n < m => b[n] < b[m]
        /\ \A k \in Begins(text) : \E n \in DOMAIN words : b[n] = k
        /\ \A n \in DOMAIN words : words[n] = Cut(WordAt(text, b[n]))

\* A program that is given arguments is given the words of the line that was typed
\* for it, unless an allocation failed in this command or in the one before: strtok
\* remembers where the command before was left and reads the new one from there
\* (string.c:276-305, os.c:18-66), but only once.
ArgumentsAsTyped ==
    pc = "after" /\ started \notin {NotStarted, <<>>} /\ failed = <<FALSE, FALSE>> =>
        AreWords(started, line)

\* Whatever commands were given up half-way and whatever was typed since, what
\* strtok goes on with ends inside the buffer, in characters that were written
\* there: a shorter command leaves the older one's end in place (string.c:307-328).
TokensEnd ==
    sp # Null => \E end \in sp..(max - 1) :
                    scommand[end] = NUL /\ \A k \in sp..(end - 1) : scommand[k] # Garbage
=============================================================================
