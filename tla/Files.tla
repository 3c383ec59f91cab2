-------------------------------- MODULE Files -------------------------------
(***************************************************************************)
(* The root directory with the names and attributes of its files           *)
(* (kernel/fs/basefs/fsFile.c), and the commands ls and cd, which list it  *)
(* and look a name up (kernel/command/ls/ls.c, kernel/command/cd/cd.c,     *)
(* kernel/fs/basefs/fsVirtual.c).                                          *)
(***************************************************************************)
EXTENDS Directory

Seqs == INSTANCE SequencesExt

CONSTANTS
  FILE_NAME_LENGTH,
  EXTENT,     (* the name of an extent                                   *)
  BLANK       (* the space                                               *)

VARIABLES
  name,       (* the name field of each block                            *)
  attributes, (* the last of its four attributes: blank, "d" or "E"      *)
  created     (* what its creator asked for                              *)

nameVars == <<name, attributes, created>>
filesVars == <<dirVars, nameVars>>

-----------------------------------------------------------------------------
(* A name is cut, or padded with spaces, to its field.                     *)
Clean(string) ==
  [n \in 1 .. FILE_NAME_LENGTH |-> IF n <= Len(string) THEN string[n] ELSE BLANK]

Describe(h, string, kind) ==
  /\ name' = [name EXCEPT ![h] = Clean(string)]
  /\ attributes' = [attributes EXCEPT ![h] = kind]

Asked(h, string, kind, s) ==
  created' = [created EXCEPT ![h] = [name |-> string, attributes |-> kind, size |-> s]]

FilesInit ==
  /\ name = [h \in Sector |-> Clean(<<>>)]
  /\ attributes = [h \in Sector |-> BLANK]
  /\ created = [h \in Sector |-> [name |-> <<>>, attributes |-> BLANK, size |-> 0]]

fsFileCreate(string, s) ==
  /\ CreateFile(s)
  /\ Describe(result', string, BLANK)
  /\ Asked(result', string, BLANK, s)

fsFileCreateFails(s) == CreateFileFails(s) /\ UNCHANGED nameVars

fsDirectoryCreate(string) ==
  /\ CreateDirectory
  /\ Describe(result', string, "d")
  /\ Asked(result', string, "d", DirSize)

fsDirectoryCreateFails == CreateDirectoryFails /\ UNCHANGED nameVars

(* Slip: a further extent's name and attributes are written to the extent  *)
(* before it is linked, when the block named is still the file.            *)
AddExtentToFile ==
  /\ AddFirstExtent \/ AddNextExtent
  /\ Describe(held, EXTENT, "E")

AddExtent ==
  /\ AddFirstExtent \/ AddNextExtent
  /\ Describe(result', EXTENT, "E")

AddNoExtent ==
  /\ AddToDirectory \/ AddToExtent \/ AddFirstExtentFails \/ AddNextExtentFails
  /\ UNCHANGED <<name, attributes>>

fsDirectoryAddFile ==
  /\ AddExtent \/ AddNoExtent
  /\ UNCHANGED created

fsDirectoryRemoveFile(f) == RemoveFile(f) /\ UNCHANGED nameVars

-----------------------------------------------------------------------------
(* The digits of a number, as they are taken off it, and in their order.   *)
revbuf[number \in Nat] ==
  IF number = 0 THEN <<>> ELSE <<number % 10>> \o revbuf[number \div 10]

int_to_string(number) == IF number = 0 THEN <<0>> ELSE Seqs!Reverse(revbuf[number])

(* The digits shown.  The end of the line follows: that the position moves *)
(* by only half of them, and one, is not seen.                             *)
printInt(number) == IF number = 0 THEN <<0>> ELSE int_to_string(number)

(* What a caller reads of a block: no name has a zero in its field.        *)
fsFileGetName(h) == name[h]

fsFileGetAttributes(h) == attributes[h]

fsFileGetSize(h) == size[h]

(* A row of ls: the name, and the size of a file.  Of the four attributes  *)
(* the first three are shown, which no two files differ in; the last, the  *)
(* one modelled, is cut off, and only tells whether "<dir>" is shown.      *)
Row(h) ==
  [name |-> fsFileGetName(h),
   size |-> IF fsFileGetAttributes(h) = "d" THEN <<>> ELSE printInt(fsFileGetSize(h))]

functionLS == [n \in DOMAIN vfsList |-> Row(vfsList[n])]

(* Slip: the extents are not searched.                                     *)
FindInDirectory(string) ==
  LET bears(n) == name[refs[root][n]] = Clean(string)
  IN  IF \E n \in DOMAIN refs[root] : bears(n)
      THEN refs[root][CHOOSE n \in DOMAIN refs[root] : bears(n)] ELSE 0

(* The first file, in the order of the blocks, that bears a name; or 0.    *)
fsDirectoryFindByName(string) ==
  LET handles == vfsList
      bears(n) == fsFileGetName(handles[n]) = Clean(string)
  IN  IF \E n \in DOMAIN handles : bears(n)
      THEN handles[CHOOSE n \in DOMAIN handles : bears(n) /\ \A m \in 1 .. n - 1 : ~bears(m)]
      ELSE 0

(* What cd says.                                                           *)
functionCD(string) == IF fsDirectoryFindByName(string) = 0 THEN "Directory not found" ELSE ""

-----------------------------------------------------------------------------
Number(digits) ==
  LET value[n \in 0 .. Len(digits)] ==
        IF n = 0 THEN 0 ELSE 10 * value[n - 1] + digits[n]
  IN  value[Len(digits)]

(* The row a file should have.                                             *)
IsRowOf(row, c) ==
  /\ row.name = Clean(c.name)
  /\ IF c.attributes = "d" THEN row.size = <<>>
     ELSE (row.size[1] = 0 => Len(row.size) = 1) /\ Number(row.size) = c.size
=============================================================================
