------------------------------ MODULE MCConsole -----------------------------
(***************************************************************************)
(* The command line on a small display.  The prompt and the longest line   *)
(* take exactly two rows, as 2 and 40 do of 21 columns.                    *)
(***************************************************************************)
EXTENDS Console

CONSTANTS l, s

TwoCommands == <<<<l, s>>, <<s, l>>>>

(* The rows above the prompt are not read again: states that differ in     *)
(* them alone have the same behaviours.                                    *)
Observed ==
  <<console_string, console_string_length, shiftState, oldScanCode, ran, intact,
    console.line, console.position, console.cursor,
    [r \in Row |-> IF LineIndex(r, Columns - 1) < -PromptLength THEN Blank
                   ELSE console.screen[r]]>>
=============================================================================
