-------------------------------- MODULE MCBoot ------------------------------
(***************************************************************************)
(* A board with three slots, and a device on which kInit's directories and *)
(* files leave room for a few more.  Sectors of 16 bytes, references of 4  *)
(* and directories of 14: the root directory holds three references, an    *)
(* extent two, so the fourth file of the boot already needs an extent.     *)
(***************************************************************************)
EXTENDS Boot

PS2     == <<"P", "S", "2">>
display == <<"d", "i", "s">>

(* The display's driver first.  The keyboard of this board is beyond the   *)
(* slots.                                                                  *)
MCBaked == <<[name |-> display, id |-> 16, address |-> 64],
             [name |-> PS2, id |-> 1, address |-> 64 + 16 * NUMBER_OF_PERIPHERALS]>>

MCNameKeyboard == Append(PS2, NUL)
MCNameDisplay  == Append(display, NUL)

(* The devices: the two a driver is for, one that ends its name with a     *)
(* space, one with another id, and one that no driver is for.              *)
Plugged ==
  {[id |-> ABSENT, name |-> <<NUL, NUL, NUL, NUL>>],
   [id |-> 16, name |-> Append(display, NUL)],
   [id |-> 1, name |-> Append(PS2, NUL)],
   [id |-> 16, name |-> Append(display, SPACE)],
   [id |-> 2, name |-> Append(PS2, NUL)],
   [id |-> 7, name |-> <<"n", SPACE, "e", "t">>]}

MCBoards == [Slot -> Plugged]

MCBootFiles ==
  <<[name |-> <<"b", "i", "n">>, attributes |-> "d", size |-> DirSize],
    [name |-> <<"s", "y", "s">>, attributes |-> "d", size |-> DirSize],
    [name |-> <<"f", "i", "l", "e">>, attributes |-> BLANK, size |-> 20],
    [name |-> <<"t">>, attributes |-> BLANK, size |-> 14]>>

MCCommands == <<"ls", "cd">>

(* One more file of a short name, and one that is cut to the name of a     *)
(* file of the boot.                                                       *)
MCNames  == {<<"f", "i">>, <<"f", "i", "l", "m">>}
MCEXTENT == <<"E", "X", "T", "E", "N", "T">>

(* The links of a block outside the directory are not read before they are *)
(* set, nor the tables after they are linked, nor storage before it is     *)
(* formatted.                                                              *)
Observed ==
  <<phase, step, creations, consoleVars, totalAllocatedMemory,
    IF phase \in {"drivers", "devices", "linking", "console", "memory"} THEN deviceVars ELSE <<>>,
    IF HasFiles
    THEN <<marker, size, held, listed, formatted,
           [h \in Hops |-> <<refs[h], next[h], parent[h]>>],
           [h \in listed \cup {held} |-> <<name[h], attributes[h], created[h]>>]>>
    ELSE <<>>>>
=============================================================================
