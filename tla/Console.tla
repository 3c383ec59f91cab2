------------------------------- MODULE Console ------------------------------
(***************************************************************************)
(* The command line (kernel/command/shell.c, command.c, cli.c and          *)
(* kernel/syscalls/print/print.c).                                         *)
(*                                                                         *)
(* The main loop polls the keyboard device; a code that differs from the   *)
(* one of the poll before is a key.  Printable keys are appended to        *)
(* console_string and shown, a line that reaches the last column continues *)
(* on the next row, and backspace takes back both.  Return looks the line  *)
(* up in the command table, runs the command and drops a new prompt.       *)
(***************************************************************************)
EXTENDS Integers, Sequences

CONSTANTS
  Letters, Digits, Symbols, SPACE,        (* the printable keys            *)
  Functions,      (* F1 to F12, which the table of the X4 board decodes to *)
                  (* codes past the letters: they print like them          *)
  SHIFT, UNSHIFT, BACKSPACE, RETURN,      (* the control keys              *)
  NOKEY,          (* codes that decode to no key, or to one not handled    *)
  OUTPUT, PROMPT, (* what commands print, and the prompt, on the display   *)
  StringLength,   (* CONSOLE_STRING_LENGTH (40)                            *)
  NameLength,     (* CONSOLE_FUNCTION_NAME_LENGTH (10)                     *)
  Columns, Rows,  (* displayColumbs (21), displayRows (8)                  *)
  PromptLength,   (* console_prompt_length - 1 (2)                         *)
  Commands,       (* the names in the command table, in order              *)
  MaxRows         (* bound: the rows a command prints                      *)

Keys == Letters \cup Digits \cup Symbols \cup Functions \cup {SPACE}
Codes == Keys \cup {SHIFT, UNSHIFT, BACKSPACE, RETURN, NOKEY}

(* A character is a key and whether shift was held.                        *)
Char == Keys \X {0, 1}
Space == <<SPACE, 0>>

ASSUME ConsoleAssumption ==
  /\ StringLength \in Nat /\ NameLength \in Nat /\ MaxRows \in Nat
  /\ 2 < NameLength /\ NameLength < StringLength
  (* The lengths are uint8_t.                                              *)
  /\ StringLength < 256
  /\ Columns \in Nat /\ Rows \in Nat /\ PromptLength \in Nat
  /\ PromptLength < Columns
  (* The longest line fits on the display.                                 *)
  /\ 2 < Rows /\ PromptLength + StringLength < Rows * Columns
  (* main.c registers "ls" and "cd".                                       *)
  /\ Commands \in Seq(Letters \X Letters)
  /\ {OUTPUT, PROMPT} \cap Char = {}
  /\ SPACE \notin Letters \cup Digits \cup Symbols \cup Functions
  /\ Letters \cap (Digits \cup Symbols) = {}
  /\ Functions \cap (Letters \cup Digits \cup Symbols) = {}
  /\ Keys \cap {SHIFT, UNSHIFT, BACKSPACE, RETURN, NOKEY} = {}
  /\ RETURN \notin {SHIFT, UNSHIFT, BACKSPACE, NOKEY}

VARIABLES
  console_string,         (* the line, padded with spaces                  *)
  console_string_length,
  shiftState,
  oldScanCode,            (* the code of the last poll                     *)
  console,                (* console_line, console_position and the        *)
                          (* display device they are written to            *)
  ran,                    (* what the last return ran, and its parameters  *)
  intact                  (* no byte past console_string_old was written   *)

vars == <<console_string, console_string_length, shiftState, oldScanCode,
          console, ran, intact>>

Index == 0 .. StringLength - 1
Row == 0 .. Rows - 1
Column == 0 .. Columns - 1
Blank == [c \in Column |-> Space]

(* console_line, console_position, where the device has its cursor, and    *)
(* the cells it shows.                                                     *)
Display(positions) ==
  [line : Row, position : positions, cursor : Row \X positions,
   screen : [Row -> [Column -> Char \cup {OUTPUT, PROMPT}]]]

-----------------------------------------------------------------------------
(* The console and the display device: cells, and registers 1 and 2 that   *)
(* place the cursor.                                                       *)
SetCursor(d, l, p) ==
  [d EXCEPT !.line = l, !.position = p, !.cursor = <<l, p>>]

SetCursorPosition(d, p) ==
  [d EXCEPT !.position = p, !.cursor = <<d.cursor[1], p>>]

(* A character at the cursor's place.                                      *)
PrintChar(d, ch) ==
  [d EXCEPT !.screen[d.line][d.position] = ch,
            !.cursor = <<d.line, d.position>>,
            !.position = d.position + 1]

(* n line ends.  At the last row, register 5 of the display moves the rows *)
(* up instead, and the last one is blank.                                  *)
LineEnds(d, n) ==
  LET up == IF d.line + n < Rows THEN 0 ELSE d.line + n - (Rows - 1) IN
  SetCursor([d EXCEPT !.screen = [r \in Row |->
               IF r + up < Rows THEN d.screen[r + up] ELSE Blank]],
            d.line + n - up, 0)

PrintLn(d) == LineEnds(d, 1)

(* n rows of text, each with the end of its line.                          *)
PrintRows(d, n) ==
  LET e == LineEnds(d, n) IN
  [e EXCEPT !.screen = [r \in Row |->
     IF r \in e.line - n .. e.line - 1 THEN [c \in Column |-> OUTPUT] ELSE @[r]]]

PrintPrompt(d) ==
  SetCursor([d EXCEPT !.screen[d.line] =
               [c \in Column |-> IF c < PromptLength THEN PROMPT ELSE @[c]]],
            d.line, PromptLength)

-----------------------------------------------------------------------------
(* The lookup of the line in the command table.                            *)
Name(i, n) == IF n < Len(Commands[i]) THEN <<Commands[i][n + 1], 0>> ELSE Space

lowercase(ch) == IF ch[1] \in Letters THEN <<ch[1], 0>> ELSE ch

is_symbol(ch) == ch[1] \in Symbols \/ (ch[1] \in Digits /\ ch[2] = 1)

Matches(i, n) == Name(i, n) = lowercase(console_string[n])

Ends(i, n) == is_symbol(console_string[n + 1]) \/ Name(i, n) = Space

(* Where the inner loop leaves the i-th name, NameLength when it does not. *)
Leaves(i, n) ==
  /\ n < NameLength => ~Matches(i, n) \/ Ends(i, n)
  /\ \A m \in 0 .. n - 1 : Matches(i, m) /\ ~Ends(i, m)

Left(i) == CHOOSE n \in 0 .. NameLength : Leaves(i, n)

(* passed is 0 until a character has matched and the loop has gone on.     *)
Passed(i) == Left(i) = NameLength \/ (Left(i) > 0 /\ Matches(i, Left(i)))

Found(i) == Passed(i) /\ \A j \in 1 .. i - 1 : ~Passed(j)

(* parameters_begin_chk is set by the first name the loop left at its end, *)
(* whether or not that is the name that passes.  The free entries come     *)
(* last and do not pass.                                                   *)
AtEnd(i) == Left(i) < NameLength /\ Matches(i, Left(i))

ParametersChk(i) ==
  IF \E j \in 1 .. i : AtEnd(j)
  THEN 1 + Left(CHOOSE j \in 1 .. i : AtEnd(j) /\ \A k \in 1 .. j - 1 : ~AtEnd(k))
  ELSE 0

(* After the first space of the line.                                      *)
parameters_begin ==
  1 + CHOOSE n \in Index : /\ console_string[n] = Space
                           /\ \A m \in 0 .. n - 1 : console_string[m] # Space

Run(i) ==
  LET begin == IF ParametersChk(i) # 0 THEN ParametersChk(i) ELSE parameters_begin
  IN [command |-> i, begin |-> begin,
      length |-> (console_string_length + 1 - begin) % 256]

NoRun == [command |-> 0, begin |-> 0, length |-> 0]

-----------------------------------------------------------------------------
(* The start of the main loop: the memory test may have printed a row, the *)
(* version has printed one, and the prompt is dropped.                     *)
kPrintVersion(d) == PrintRows(d, 1)

Init ==
  /\ console_string = [n \in Index |-> Space]
  /\ console_string_length = 0
  /\ shiftState = 0
  /\ oldScanCode \in Codes
  /\ \E rows \in {0, 1} :
       console = PrintPrompt(kPrintVersion(PrintRows(
         [line |-> 0, position |-> 0, cursor |-> <<0, 0>>, screen |-> [r \in Row |-> Blank]],
         rows)))
  /\ ran = NoRun
  /\ intact = TRUE

(* ConsoleGetLastChar: the code of the last poll is no key.                *)
Poll(code) ==
  /\ intact
  /\ code # oldScanCode
  /\ oldScanCode' = code

PollOther ==
  /\ Poll(NOKEY)
  /\ UNCHANGED <<console_string, console_string_length, shiftState, console, ran, intact>>

Shift ==
  /\ \/ Poll(SHIFT) /\ shiftState' = 1
     \/ Poll(UNSHIFT) /\ shiftState' = 0
  /\ UNCHANGED <<console_string, console_string_length, console, ran, intact>>

(* Shift does nothing to the space and the function keys.                  *)
Typed(k) == IF k \in Functions \cup {SPACE} THEN <<k, 0>> ELSE <<k, shiftState>>

(* Slip: a line continues on the next row one character late.              *)
ShownAfterLate(d) == IF d.position > Columns THEN PrintLn(d) ELSE d

ShownAfter(d) == IF d.position >= Columns THEN PrintLn(d) ELSE d

KeyFunctionPrintChar(k) ==
  /\ Poll(k)
  /\ console_string_length < StringLength
  /\ console_string' = [console_string EXCEPT ![console_string_length] = Typed(k)]
  /\ console_string_length' = console_string_length + 1
  /\ LET d == PrintChar(console, Typed(k)) IN
     console' = ShownAfter(SetCursorPosition(d, d.position))
  /\ UNCHANGED <<shiftState, ran, intact>>

LineFull(k) ==
  /\ Poll(k)
  /\ console_string_length >= StringLength
  /\ UNCHANGED <<console_string, console_string_length, shiftState, console, ran, intact>>

(* Slip: the row above is not written to the display device.               *)
StepBackSameRow(d) ==
  IF d.position = 0
  THEN SetCursorPosition([d EXCEPT !.line = @ - 1], Columns - 1)
  ELSE SetCursorPosition(d, d.position - 1)

(* At column 0 the line is one up, and its last column is 20.              *)
StepBack(d) ==
  IF d.position = 0 THEN SetCursor(d, d.line - 1, Columns - 1)
                    ELSE SetCursorPosition(d, d.position - 1)

(* Slip: the character is taken off the display and left in the string.    *)
KeyFunctionBackspaceKeeps ==
  /\ Poll(BACKSPACE)
  /\ console_string_length > 0
  /\ console_string_length' = console_string_length - 1
  /\ LET d == StepBack(console) IN
     console' = [d EXCEPT !.screen[d.cursor[1]][d.cursor[2]] = Space]
  /\ UNCHANGED <<console_string, shiftState, ran, intact>>

(* Slip: the cell is cleared before the cursor has moved.                  *)
KeyFunctionBackspaceInPlace ==
  /\ Poll(BACKSPACE)
  /\ console_string_length > 0
  /\ console_string' = [console_string EXCEPT ![console_string_length - 1] = Space]
  /\ console_string_length' = console_string_length - 1
  /\ console' = StepBack([console EXCEPT
                   !.screen[console.line][console.position] = Space])
  /\ UNCHANGED <<shiftState, ran, intact>>

KeyFunctionBackspace ==
  /\ Poll(BACKSPACE)
  /\ console_string_length > 0
  /\ console_string' = [console_string EXCEPT ![console_string_length - 1] = Space]
  /\ console_string_length' = console_string_length - 1
  /\ LET d == StepBack(console) IN
     console' = [d EXCEPT !.screen[d.cursor[1]][d.cursor[2]] = Space]
  /\ UNCHANGED <<shiftState, ran, intact>>

BackspaceNothing ==
  /\ Poll(BACKSPACE)
  /\ console_string_length = 0
  /\ UNCHANGED <<console_string, console_string_length, shiftState, console, ran, intact>>

ConsoleClearKeyboardString == [m \in Index |-> Space]

(* The end of KeyFunctionReturn, n rows having been printed.               *)
NewPrompt(n) ==
  /\ console' = PrintPrompt(PrintRows(PrintLn(console), n))
  /\ console_string' = ConsoleClearKeyboardString
  /\ console_string_length' = 0
  /\ UNCHANGED <<shiftState, intact>>

ReturnRuns(i, n) ==
  /\ Poll(RETURN)
  /\ console_string_length < StringLength
  /\ Found(i)
  /\ ran' = Run(i)
  /\ NewPrompt(n)

(* "Bad cmd or filename", unless the line is empty.                        *)
ReturnNotFound ==
  /\ Poll(RETURN)
  /\ console_string_length < StringLength
  /\ \A i \in 1 .. Len(Commands) : ~Found(i)
  /\ ran' = NoRun
  /\ NewPrompt(IF console_string_length > 0 THEN 1 ELSE 0)

(* A full line is saved with one byte more than console_string_old has.    *)
(* What that byte belongs to is up to the linker: behaviours are not       *)
(* followed any further.                                                   *)
ReturnFull ==
  /\ Poll(RETURN)
  /\ console_string_length >= StringLength
  /\ intact' = FALSE
  /\ UNCHANGED <<console_string, console_string_length, shiftState, console, ran>>

cliRunShell ==
  \/ PollOther
  \/ Shift
  \/ \E k \in Keys : KeyFunctionPrintChar(k) \/ LineFull(k)
  \/ KeyFunctionBackspace
  \/ BackspaceNothing
  \/ \E i \in 1 .. Len(Commands), n \in 0 .. MaxRows : ReturnRuns(i, n)
  \/ ReturnNotFound
  \/ ReturnFull

Spec == Init /\ [][cliRunShell]_vars

-----------------------------------------------------------------------------
TypeOK ==
  /\ console_string \in [Index -> Char]
  /\ console_string_length \in 0 .. StringLength
  /\ shiftState \in {0, 1}
  /\ oldScanCode \in Codes
  /\ console \in Display(Column)
  /\ ran \in [command : 0 .. Len(Commands), begin : Nat, length : 0 .. 255]
  /\ intact \in BOOLEAN

(* However often a line wraps, scrolls the display and is taken back, the  *)
(* cursor, of the kernel and of the device, is one place after the prompt  *)
(* and the typed characters, and backspace never goes above the display.   *)
CursorFollows ==
  /\ console.cursor = <<console.line, console.position>>
  /\ \E wraps \in 0 .. console.line :
       wraps * Columns + console.position = PromptLength + console_string_length

(* The index in the line of the character at a place of the display.       *)
LineIndex(r, c) ==
  console_string_length + (r - console.line) * Columns + (c - console.position)

(* What is on the display is what return will look up: each character of   *)
(* the line in its place, and nothing after the last one.                  *)
LineShown ==
  \A r \in Row, c \in Column :
    LET n == LineIndex(r, c) IN
    /\ n \in 0 .. console_string_length - 1 =>
         console.screen[r][c] = console_string[n]
    /\ n >= console_string_length => console.screen[r][c] = Space

(* The line starts with the name and a space or a symbol after it.         *)
Invokes(i) ==
  /\ \A n \in 0 .. Len(Commands[i]) - 1 :
       n < console_string_length /\ lowercase(console_string[n]) = Name(i, n)
  /\ LET n == Len(Commands[i]) IN
       \/ n = console_string_length
       \/ console_string[n] = Space \/ is_symbol(console_string[n])

(* Return runs the first command the line invokes, and no other, whatever  *)
(* was typed and taken back before.  Its parameters are what follows the   *)
(* name, without the space but with the symbol.  It holds because names    *)
(* have two letters: a longer one would be run by a part of it and a       *)
(* symbol.                                                                 *)
RunsWhatWasTyped ==
  [][ (oldScanCode' = RETURN /\ oldScanCode # RETURN /\ intact') =>
      LET invoked == {i \in 1 .. Len(Commands) : Invokes(i)} IN
      IF invoked = {} THEN ran' = NoRun
      ELSE /\ ran'.command \in invoked
           /\ \A i \in invoked : ran'.command <= i
           /\ LET n == Len(Commands[ran'.command]) IN
              ran'.begin = IF console_string[n] = Space THEN n + 1 ELSE n
           /\ ran'.begin + ran'.length = console_string_length + 1 ]_vars

(* "Save last entered command string" (kernel/command/command.c:99) writes *)
(* to console_string_old and to nothing else.                              *)
SavedInBuffer == intact
=============================================================================
