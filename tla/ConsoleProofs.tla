---------------------------- MODULE ConsoleProofs ---------------------------
(***************************************************************************)
(* What holds of the command line for every size of the display, the line  *)
(* and the names, and every table of two-letter names.                     *)
(***************************************************************************)
EXTENDS Console, TLAPS, WellFoundedInduction

Wide == 0 .. Columns
Screen == [Row -> [Column -> Char \cup {OUTPUT, PROMPT}]]

(* The part of the string after the line is blank.                         *)
TailBlank ==
  \A n \in Index : n >= console_string_length => console_string[n] = Space

ConsoleInv == TypeOK /\ CursorFollows /\ TailBlank /\ LineShown

(* The sizes of the display and of the line.                               *)
LEMMA Sizes ==
  /\ StringLength \in Nat /\ NameLength \in Nat /\ MaxRows \in Nat
  /\ 2 < NameLength /\ NameLength < StringLength /\ StringLength < 256
  /\ Columns \in Nat /\ Rows \in Nat /\ PromptLength \in Nat
  /\ PromptLength < Columns
  /\ 2 < Rows /\ PromptLength + StringLength < Rows * Columns
BY ConsoleAssumption DEF ConsoleAssumption

-----------------------------------------------------------------------------
(* The arithmetic of rows and columns.                                     *)
LEMMA NextRow ==
  ASSUME NEW k \in Int
  PROVE  (k + 1) * Columns = k * Columns + Columns
BY Sizes

LEMMA RowsGrow ==
  ASSUME NEW k \in Nat, NEW m \in Nat, m <= k
  PROVE  m * Columns <= k * Columns
<1>1. \A a, b, c \in Nat : a <= b => a * c <= b * c
  OBVIOUS
<1> QED BY <1>1, Sizes

LEMMA RowOnDisplay ==
  ASSUME NEW k \in Nat, k * Columns <= PromptLength + StringLength
  PROVE  k < Rows
<1>1. CASE Rows <= k
  <2>1. Rows * Columns <= k * Columns
    BY <1>1, RowsGrow, Sizes
  <2> QED BY <2>1, Sizes
<1> QED BY <1>1, Sizes

(* A whole number of rows apart is less than a row apart on one row only.  *)
LEMMA RowNotAbove ==
  ASSUME NEW k \in Int, NEW p \in Column, NEW c \in Column, k * Columns + c >= p
  PROVE  k >= 0
<1>1. CASE k < 0
  <2>1. -k - 1 \in Nat /\ (-k - 1) * Columns >= 0
    BY <1>1, Sizes
  <2>2. (-k - 1) * Columns = -(k * Columns) - Columns
    BY Sizes
  <2> QED BY <2>1, <2>2, Sizes DEF Column
<1> QED BY <1>1

LEMMA SameRow ==
  ASSUME NEW k \in Int, NEW p \in Column, NEW c \in Column, k * Columns + c = p
  PROVE  k = 0
<1>1. k >= 0
  BY RowNotAbove, Sizes DEF Column
<1>2. (-k) * Columns + p = c
  BY Sizes DEF Column
<1>3. -k >= 0
  BY <1>2, RowNotAbove, Sizes DEF Column
<1> QED BY <1>1, <1>3

-----------------------------------------------------------------------------
(* What printing does to the fields of the console.                        *)
LEMMA LineEndsFields ==
  ASSUME NEW d \in Display(Wide), NEW n \in Nat
  PROVE  LET e  == LineEnds(d, n)
             up == IF d.line + n < Rows THEN 0 ELSE d.line + n - (Rows - 1) IN
         /\ e \in Display(Column)
         /\ e.line = d.line + n - up /\ e.line \in Row
         /\ e.position = 0
         /\ e.cursor = <<e.line, 0>>
         /\ e.screen \in Screen
         /\ \A r \in Row : e.screen[r] = IF r + up < Rows THEN d.screen[r + up] ELSE Blank
<1> DEFINE up == IF d.line + n < Rows THEN 0 ELSE d.line + n - (Rows - 1)
           scr == [r \in Row |-> IF r + up < Rows THEN d.screen[r + up] ELSE Blank]
<1>1. /\ d.line \in Row /\ d.screen \in Screen
      /\ DOMAIN d = {"line", "position", "cursor", "screen"}
  BY DEF Display, Screen
<1>2. up \in Nat /\ d.line + n - up \in Row
  BY <1>1, Sizes DEF Row
<1>3. Blank \in [Column -> Char \cup {OUTPUT, PROMPT}]
  BY DEF Blank, Space, Char, Keys
<1>4. scr \in Screen
  <2>1. \A r \in Row : r + up < Rows => r + up \in Row
    BY <1>2, Sizes DEF Row
  <2> QED BY <1>1, <1>3, <2>1 DEF Screen
<1>5. LineEnds(d, n) = SetCursor([d EXCEPT !.screen = scr], d.line + n - up, 0)
  BY DEF LineEnds
<1> HIDE DEF scr, up
<1>6. 0 \in Column
  BY Sizes DEF Column
<1>7. LineEnds(d, n) = [line |-> d.line + n - up, position |-> 0,
                        cursor |-> <<d.line + n - up, 0>>, screen |-> scr]
  BY <1>5 DEF SetCursor, Display
<1>8. LineEnds(d, n) \in Display(Column)
  BY <1>2, <1>4, <1>6, <1>7 DEF Display, Screen
<1> QED BY <1>2, <1>4, <1>7, <1>8 DEF scr, up

(* The rows from the l-th on show nothing.                                 *)
BlankFrom(d, l) ==
  \A r \in Row, c \in Column : r >= l => d.screen[r][c] = Space

LEMMA LineEndsBlank ==
  ASSUME NEW d \in Display(Wide), NEW n \in Nat,
         BlankFrom(d, d.line + 1), n > 0 \/ BlankFrom(d, d.line)
  PROVE  BlankFrom(LineEnds(d, n), LineEnds(d, n).line)
<1> DEFINE e == LineEnds(d, n)
           up == IF d.line + n < Rows THEN 0 ELSE d.line + n - (Rows - 1)
<1> SUFFICES ASSUME NEW r \in Row, NEW c \in Column, r >= e.line
             PROVE  e.screen[r][c] = Space
  BY DEF BlankFrom
<1>1. d.line \in Row /\ up \in Nat
  BY Sizes DEF Display, Row
<1>2. e.line = d.line + n - up /\ e.screen[r] = IF r + up < Rows THEN d.screen[r + up] ELSE Blank
  BY LineEndsFields
<1> HIDE DEF e, up
<1>3. CASE r + up < Rows
  <2>1. r + up \in Row /\ r + up >= d.line + n
    BY <1>1, <1>2, <1>3, Sizes DEF Row
  <2>2. d.screen[r + up][c] = Space
    BY <2>1, <1>1, Sizes DEF BlankFrom, Row
  <2> QED BY <2>2, <1>2, <1>3
<1>4. CASE ~(r + up < Rows)
  BY <1>2, <1>4 DEF Blank
<1> QED BY <1>3, <1>4

LEMMA PrintRowsFields ==
  ASSUME NEW d \in Display(Wide), NEW n \in Nat, BlankFrom(d, d.line)
  PROVE  /\ PrintRows(d, n) \in Display(Column)
         /\ BlankFrom(PrintRows(d, n), PrintRows(d, n).line)
<1> DEFINE e == LineEnds(d, n)
           scr == [r \in Row |-> IF r \in e.line - n .. e.line - 1
                                 THEN [c \in Column |-> OUTPUT] ELSE e.screen[r]]
<1>1. d.line \in Row /\ BlankFrom(d, d.line + 1)
  BY Sizes DEF BlankFrom, Row, Display
<1>2. e \in Display(Column) /\ e.line \in Row /\ e.screen \in Screen
  BY LineEndsFields
<1>3. BlankFrom(e, e.line)
  BY <1>1, LineEndsBlank
<1>4. PrintRows(d, n) = [e EXCEPT !.screen = scr]
  BY DEF PrintRows
<1> HIDE DEF e
<1>5. scr \in Screen
  BY <1>2 DEF Screen
<1>6. \A r \in Row, c \in Column : r >= e.line => scr[r][c] = Space
  BY <1>2, <1>3, Sizes DEF BlankFrom, Row
<1> HIDE DEF scr
<1>7. PrintRows(d, n) \in Display(Column) /\ PrintRows(d, n).line = e.line
                                          /\ PrintRows(d, n).screen = scr
  BY <1>2, <1>4, <1>5 DEF Display, Screen
<1> QED BY <1>6, <1>7 DEF BlankFrom

LEMMA PrintPromptFields ==
  ASSUME NEW d \in Display(Wide), BlankFrom(d, d.line)
  PROVE  LET e == PrintPrompt(d) IN
         /\ e \in Display(Column)
         /\ e.line = d.line /\ e.line \in Row
         /\ e.position = PromptLength
         /\ e.cursor = <<e.line, PromptLength>>
         /\ \A r \in Row, c \in Column :
              (r > d.line \/ (r = d.line /\ c >= PromptLength)) => e.screen[r][c] = Space
<1> DEFINE row == [c \in Column |-> IF c < PromptLength THEN PROMPT ELSE d.screen[d.line][c]]
           scr == [d.screen EXCEPT ![d.line] = row]
<1>1. d.line \in Row /\ d.screen \in Screen /\ PromptLength \in Column
  BY Sizes DEF Display, Screen, Column
<1>2. row \in [Column -> Char \cup {OUTPUT, PROMPT}]
  BY <1>1 DEF Screen
<1>3. scr \in Screen
  BY <1>1, <1>2 DEF Screen
<1>4. \A r \in Row, c \in Column :
        (r > d.line \/ (r = d.line /\ c >= PromptLength)) => scr[r][c] = Space
  <2> SUFFICES ASSUME NEW r \in Row, NEW c \in Column,
                      r > d.line \/ (r = d.line /\ c >= PromptLength)
               PROVE  scr[r][c] = Space
    OBVIOUS
  <2>1. d.screen[r][c] = Space
    <3>1. r >= d.line
      BY <1>1, Sizes DEF Row
    <3> QED BY <3>1 DEF BlankFrom
  <2>2. CASE r = d.line
    BY <1>1, <2>1, <2>2, Sizes DEF Screen, Row, Column
  <2>3. CASE r # d.line
    BY <1>1, <2>1, <2>3 DEF Screen
  <2> QED BY <2>2, <2>3
<1>5. PrintPrompt(d) = SetCursor([d EXCEPT !.screen = scr], d.line, PromptLength)
  BY <1>1 DEF PrintPrompt, Screen
<1> HIDE DEF row, scr
<1>6. PrintPrompt(d) = [line |-> d.line, position |-> PromptLength,
                        cursor |-> <<d.line, PromptLength>>, screen |-> scr]
  BY <1>5 DEF SetCursor, Display
<1>7. PrintPrompt(d) \in Display(Column)
  BY <1>1, <1>3, <1>6 DEF Display, Screen
<1> QED BY <1>1, <1>4, <1>6, <1>7

-----------------------------------------------------------------------------
(* The invariants of a console d that shows the first len characters of    *)
(* str.                                                                    *)
Follows(d, len) ==
  /\ d.cursor = <<d.line, d.position>>
  /\ \E wraps \in 0 .. d.line : wraps * Columns + d.position = PromptLength + len

IndexAt(d, len, r, c) == len + (r - d.line) * Columns + (c - d.position)

Shows(d, str, len) ==
  \A r \in Row, c \in Column :
    LET n == IndexAt(d, len, r, c) IN
    /\ n \in 0 .. len - 1 => d.screen[r][c] = str[n]
    /\ n >= len => d.screen[r][c] = Space

Line(str, len) ==
  /\ str \in [Index -> Char]
  /\ len \in 0 .. StringLength
  /\ \A n \in Index : n >= len => str[n] = Space

Good(d, str, len) ==
  d \in Display(Column) /\ Line(str, len) /\ Follows(d, len) /\ Shows(d, str, len)

LEMMA GoodConsole ==
  ASSUME TypeOK
  PROVE  CursorFollows /\ TailBlank /\ LineShown
           <=> Good(console, console_string, console_string_length)
BY DEF TypeOK, CursorFollows, TailBlank, LineShown, LineIndex,
       Good, Line, Follows, Shows, IndexAt

(* Below the cursor's row there is nothing.                                *)
LEMMA NothingBelow ==
  ASSUME NEW d, NEW str, NEW len, Good(d, str, len)
  PROVE  BlankFrom(d, d.line + 1) /\ d \in Display(Wide)
<1>1. /\ d.line \in Row /\ d.position \in Column /\ len \in Nat
      /\ d \in Display(Wide)
  BY Sizes DEF Good, Display, Line, Wide, Column
<1>2. ASSUME NEW r \in Row, NEW c \in Column, r >= d.line + 1
      PROVE  d.screen[r][c] = Space
  <2>1. r - d.line - 1 \in Nat
    BY <1>1, <1>2, Sizes DEF Row
  <2>2. (r - d.line - 1) * Columns >= 0
    BY <2>1, Sizes
  <2>3. (r - d.line) * Columns = (r - d.line - 1) * Columns + Columns
    <3>1. (r - d.line - 1) + 1 = r - d.line
      BY <1>1, Sizes DEF Row
    <3> QED BY <3>1, <2>1, NextRow
  <2>4. IndexAt(d, len, r, c) >= len
    <3> DEFINE k == (r - d.line) * Columns
    <3>1. k \in Int /\ k >= Columns
      BY <2>2, <2>3, <1>1, Sizes DEF Row
    <3> HIDE DEF k
    <3>2. len + k + (c - d.position) >= len
      BY <3>1, <1>1, Sizes DEF Column
    <3> QED BY <3>2 DEF IndexAt, k
  <2> QED BY <2>4 DEF Good, Shows
<1> QED BY <1>1, <1>2 DEF BlankFrom

(* A prompt on a blank row shows an empty line.                            *)
LEMMA FreshPrompt ==
  ASSUME NEW d \in Display(Wide), BlankFrom(d, d.line)
  PROVE  Good(PrintPrompt(d), [n \in Index |-> Space], 0)
<1> DEFINE e == PrintPrompt(d)
<1>1. /\ e \in Display(Column)
      /\ e.line = d.line /\ e.line \in Row
      /\ e.position = PromptLength
      /\ e.cursor = <<e.line, PromptLength>>
      /\ \A r \in Row, c \in Column :
           (r > e.line \/ (r = e.line /\ c >= PromptLength)) => e.screen[r][c] = Space
  BY PrintPromptFields
<1> HIDE DEF e
<1>2. Follows(e, 0)
  <2>1. 0 \in 0 .. e.line /\ 0 * Columns + e.position = PromptLength + 0
    BY <1>1, Sizes DEF Row
  <2> QED BY <1>1, <2>1 DEF Follows
<1>3. Shows(e, [n \in Index |-> Space], 0)
  <2> SUFFICES ASSUME NEW r \in Row, NEW c \in Column, IndexAt(e, 0, r, c) >= 0
               PROVE  e.screen[r][c] = Space
    BY DEF Shows
  <2> DEFINE k == r - e.line
  <2>1. k \in Int /\ PromptLength \in Column /\ c \in Column
    BY <1>1, Sizes DEF Row, Column
  <2>2. k * Columns \in Int /\ k * Columns + c >= PromptLength
    BY <1>1, <2>1, Sizes DEF IndexAt, Column
  <2>3. k >= 0
    BY <2>1, <2>2, RowNotAbove
  <2>4. CASE k = 0
    <3>1. r = e.line
      BY <1>1, <2>4, Sizes DEF Row
    <3>2. 0 * Columns = 0
      BY Sizes
    <3> HIDE DEF k
    <3>3. c >= PromptLength
      BY <2>2, <2>4, <3>2, Sizes DEF Column
    <3> QED BY <1>1, <3>1, <3>3
  <2>5. CASE k # 0
    BY <1>1, <2>3, <2>5, Sizes DEF Row
  <2> QED BY <2>4, <2>5
<1>4. Line([n \in Index |-> Space], 0)
  BY Sizes DEF Line, Space, Char, Keys
<1> QED BY <1>1, <1>2, <1>3, <1>4 DEF Good, e

-----------------------------------------------------------------------------
(* A character typed: shown at the cursor's place, and the place after it. *)
LEMMA PrintCharFields ==
  ASSUME NEW d \in Display(Column), NEW ch \in Char
  PROVE  LET p == PrintChar(d, ch)
             e == SetCursorPosition(p, p.position) IN
         /\ e \in Display(Wide)
         /\ e.line = d.line /\ e.line \in Row
         /\ e.position = d.position + 1
         /\ e.cursor = <<d.line, d.position + 1>>
         /\ \A r \in Row, c \in Column :
              e.screen[r][c] = IF r = d.line /\ c = d.position THEN ch ELSE d.screen[r][c]
<1> DEFINE p == PrintChar(d, ch)
           e == SetCursorPosition(p, p.position)
           scr == [d.screen EXCEPT ![d.line][d.position] = ch]
<1>1. /\ d.line \in Row /\ d.screen \in Screen /\ d.position \in Column
      /\ d.position + 1 \in Wide
  BY Sizes DEF Display, Screen, Column, Wide
<1>2. /\ scr \in Screen
      /\ \A r \in Row, c \in Column :
           scr[r][c] = IF r = d.line /\ c = d.position THEN ch ELSE d.screen[r][c]
  BY <1>1 DEF Screen
<1>3. p = [line |-> d.line, position |-> d.position + 1,
           cursor |-> <<d.line, d.position>>, screen |-> scr]
  <2>1. p = [d EXCEPT !.screen = scr, !.cursor = <<d.line, d.position>>,
                      !.position = d.position + 1]
    BY DEF PrintChar
  <2> HIDE DEF p, scr
  <2> QED BY <2>1 DEF Display
<1> HIDE DEF p, scr
<1>4. e = [line |-> d.line, position |-> d.position + 1,
           cursor |-> <<d.line, d.position + 1>>, screen |-> scr]
  <2>1. p.position = d.position + 1 /\ p.cursor[1] = d.line
    BY <1>3
  <2>2. e = [p EXCEPT !.position = d.position + 1, !.cursor = <<d.line, d.position + 1>>]
    BY <2>1 DEF SetCursorPosition
  <2> HIDE DEF e
  <2> QED BY <1>3, <2>2
<1>5. e \in Display(Wide)
  BY <1>1, <1>2, <1>4 DEF Display, Screen
<1> QED BY <1>1, <1>2, <1>4, <1>5 DEF p

(* At the end of a row nothing but the row that holds the index changes.   *)
LEMMA TypeChar ==
  ASSUME NEW d, NEW str, NEW len, Good(d, str, len), len < StringLength,
         NEW ch \in Char
  PROVE  LET p == PrintChar(d, ch) IN
         Good(ShownAfter(SetCursorPosition(p, p.position)),
              [str EXCEPT ![len] = ch], len + 1)
<1> DEFINE p == PrintChar(d, ch)
           e == SetCursorPosition(p, p.position)
           f == ShownAfter(e)
           t == [str EXCEPT ![len] = ch]
<1> SUFFICES Good(f, t, len + 1)
  OBVIOUS
<1>1. /\ d \in Display(Column) /\ d.line \in Row /\ d.position \in Column
      /\ d.cursor = <<d.line, d.position>>
      /\ str \in [Index -> Char] /\ len \in Nat /\ len \in Index
      /\ BlankFrom(d, d.line + 1)
  BY NothingBelow, Sizes DEF Good, Display, Line, Follows, Index
<1>2. /\ e \in Display(Wide)
      /\ e.line = d.line /\ e.line \in Row
      /\ e.position = d.position + 1
      /\ e.cursor = <<d.line, d.position + 1>>
      /\ \A r \in Row, c \in Column :
           e.screen[r][c] = IF r = d.line /\ c = d.position THEN ch ELSE d.screen[r][c]
  BY <1>1, PrintCharFields
<1> HIDE DEF e
<1>3. Line(t, len + 1)
  BY <1>1, Sizes DEF Good, Line, Index
<1>4. \A n \in 0 .. len : t[n] = IF n = len THEN ch ELSE str[n]
  BY <1>1, Sizes DEF Index
<1> HIDE DEF t
<1>5. PICK wraps \in 0 .. d.line : wraps * Columns + d.position = PromptLength + len
  BY DEF Good, Follows
(* The cells of the new line are in their places.                          *)
<1>6. Shows(e, t, len + 1)
  <2> SUFFICES ASSUME NEW r \in Row, NEW c \in Column
               PROVE  /\ IndexAt(e, len + 1, r, c) \in 0 .. (len + 1) - 1 =>
                           e.screen[r][c] = t[IndexAt(e, len + 1, r, c)]
                      /\ IndexAt(e, len + 1, r, c) >= len + 1 => e.screen[r][c] = Space
    BY DEF Shows
  <2> DEFINE n == IndexAt(d, len, r, c)
             k == (r - d.line) * Columns
  <2>1. k \in Int /\ n = len + k + (c - d.position) /\ IndexAt(e, len + 1, r, c) = n
    <3>1. k \in Int /\ n = len + k + (c - d.position)
      BY <1>1, Sizes DEF Row, IndexAt
    <3>2. IndexAt(e, len + 1, r, c) = len + 1 + k + (c - (d.position + 1))
      BY <1>2 DEF IndexAt
    <3> HIDE DEF k, n
    <3> QED BY <3>1, <3>2, <1>1, Sizes DEF Column
  <2>2. n \in Int
    BY <2>1, <1>1, Sizes DEF Column
  <2>3. CASE r = d.line /\ c = d.position
    <3>1. k = 0
      BY <2>3, <1>1, Sizes DEF Row
    <3> HIDE DEF k
    <3>2. n = len
      BY <2>1, <2>3, <3>1, <1>1, Sizes DEF Column
    <3> HIDE DEF n
    <3> QED BY <1>2, <1>4, <2>1, <2>3, <3>2, <1>1
  <2>4. CASE ~(r = d.line /\ c = d.position)
    <3>1. n # len
      <4> SUFFICES ASSUME n = len PROVE FALSE
        OBVIOUS
      <4>1. k + c = d.position
        <5>1. c \in Int /\ d.position \in Int /\ len \in Int
          BY <1>1, Sizes DEF Column
        <5>2. k \in Int /\ len = len + k + (c - d.position)
          BY <2>1
        <5> HIDE DEF k, n
        <5> QED BY <5>1, <5>2
      <4>2. r - d.line \in Int
        BY <1>1, Sizes DEF Row
      <4>3. r - d.line = 0
        BY <4>1, <4>2, <1>1, SameRow
      <4>4. 0 * Columns = 0
        BY Sizes
      <4>5. r = d.line
        BY <4>3, <1>1, Sizes DEF Row
      <4>6. k = 0
        BY <4>3, <4>4
      <4> HIDE DEF k
      <4> QED BY <4>1, <4>5, <4>6, <2>4, <1>1, Sizes DEF Column
    <3>2. e.screen[r][c] = d.screen[r][c]
      BY <1>2, <2>4
    <3>3. /\ n \in 0 .. len - 1 => d.screen[r][c] = str[n]
          /\ n >= len => d.screen[r][c] = Space
      BY DEF Good, Shows
    <3> HIDE DEF n
    <3> QED BY <2>1, <3>1, <3>2, <3>3, <1>4, <1>1, <2>2
  <2> QED BY <2>3, <2>4
<1>7. CASE d.position + 1 < Columns
  <2>1. f = e
    BY <1>1, <1>2, <1>7, Sizes DEF ShownAfter, Column
  <2>2. e \in Display(Column)
    BY <1>1, <1>2, <1>7, Sizes DEF Display, Column, Wide
  <2>3. wraps * Columns + (d.position + 1) = PromptLength + (len + 1)
    <3> DEFINE k == wraps * Columns
    <3>1. k \in Int
      BY <1>1, Sizes DEF Row
    <3> HIDE DEF k
    <3>2. k + (d.position + 1) = PromptLength + (len + 1)
      BY <3>1, <1>1, <1>5, Sizes DEF k, Column
    <3> QED BY <3>2 DEF k
  <2>4. Follows(e, len + 1)
    BY <1>2, <1>5, <2>3 DEF Follows
  <2> QED BY <1>3, <1>6, <2>1, <2>2, <2>4 DEF Good
<1>8. CASE ~(d.position + 1 < Columns)
  <2>1. f = LineEnds(e, 1) /\ d.position + 1 = Columns
    BY <1>1, <1>2, <1>8, Sizes DEF ShownAfter, Column, PrintLn
  <2> DEFINE up == IF e.line + 1 < Rows THEN 0 ELSE e.line + 1 - (Rows - 1)
  <2>2. /\ f \in Display(Column)
        /\ f.line = e.line + 1 - up /\ f.line \in Row
        /\ f.position = 0
        /\ f.cursor = <<f.line, 0>>
        /\ \A r \in Row : f.screen[r] = IF r + up < Rows THEN e.screen[r + up] ELSE Blank
    BY <1>2, <2>1, LineEndsFields
  <2>3. up \in {0, 1} /\ f.line + up = d.line + 1
    BY <1>2, <2>2, Sizes DEF Row
  <2> HIDE DEF f, up
  <2>4. Follows(f, len + 1)
    <3>1. (wraps + 1) * Columns = PromptLength + (len + 1)
      <4> DEFINE k == wraps * Columns
      <4>1. k \in Int /\ (wraps + 1) * Columns = k + Columns
        BY <1>1, NextRow, Sizes DEF Row
      <4> HIDE DEF k
      <4> QED BY <4>1, <1>1, <1>5, <2>1, Sizes DEF k, Column
    <3>2. wraps + 1 \in Nat /\ (wraps + 1) * Columns <= PromptLength + StringLength
      BY <3>1, <1>1, Sizes DEF Row
    <3>3. wraps + 1 < Rows
      BY <3>2, RowOnDisplay
    <3>4. wraps + 1 \in 0 .. f.line
      BY <1>1, <1>2, <2>2, <2>3, <3>3, Sizes DEF Row, up
    <3>5. (wraps + 1) * Columns + f.position = PromptLength + (len + 1)
      BY <3>1, <1>1, <2>2, Sizes
    <3> QED BY <2>2, <3>4, <3>5 DEF Follows
  <2>5. Shows(f, t, len + 1)
    <3> SUFFICES ASSUME NEW r \in Row, NEW c \in Column
                 PROVE  /\ IndexAt(f, len + 1, r, c) \in 0 .. (len + 1) - 1 =>
                             f.screen[r][c] = t[IndexAt(f, len + 1, r, c)]
                        /\ IndexAt(f, len + 1, r, c) >= len + 1 => f.screen[r][c] = Space
      BY DEF Shows
    <3> DEFINE q == r + up
               n == IndexAt(f, len + 1, r, c)
    <3>1. q \in Int /\ n = IndexAt(e, len + 1, q, c)
      <4>1. q \in Int /\ q - e.line - 1 = r - f.line
        BY <1>1, <1>2, <2>2, <2>3, Sizes DEF Row
      <4>2. (q - e.line) * Columns = (r - f.line) * Columns + Columns
        <5>1. r - f.line \in Int /\ (r - f.line) + 1 = q - e.line
          BY <4>1, <1>1, <1>2, <2>2, Sizes DEF Row
        <5> QED BY <5>1, NextRow
      <4> DEFINE k == (r - f.line) * Columns
      <4>3. k \in Int
        BY <2>2, Sizes DEF Row
      <4> HIDE DEF k
      <4>4. (len + 1) + k + (c - 0) = (len + 1) + (k + Columns) + (c - Columns)
        BY <4>3, <1>1, Sizes DEF Column
      <4> QED BY <4>1, <4>2, <4>4, <1>2, <2>1, <2>2 DEF IndexAt, k
    <3>2. CASE q < Rows
      <4>1. q \in Row /\ f.screen[r] = e.screen[q]
        BY <2>2, <2>3, <3>2, Sizes DEF Row
      <4> HIDE DEF q
      <4> QED BY <1>6, <3>1, <4>1 DEF Shows
    <3>3. CASE ~(q < Rows)
      <4>1. r = f.line /\ f.screen[r] = Blank
        BY <2>2, <2>3, <3>3, <1>1, <1>2, Sizes DEF Row, up
      <4>2. n = len + 1 + c
        <5>1. (r - f.line) * Columns = 0
          BY <4>1, <2>2, Sizes DEF Row
        <5>2. len + 1 + 0 + (c - 0) = len + 1 + c
          BY <1>1, Sizes DEF Column
        <5> QED BY <5>1, <5>2, <2>2 DEF IndexAt
      <4> QED BY <4>1, <4>2, <1>1, Sizes DEF Column, Blank
    <3> QED BY <3>2, <3>3
  <2> QED BY <1>3, <2>2, <2>4, <2>5 DEF Good
<1> QED BY <1>7, <1>8

-----------------------------------------------------------------------------
(* One place back: the place of the last character, also across rows.      *)
LEMMA StepBackFields ==
  ASSUME NEW d, NEW str, NEW len, Good(d, str, len), len > 0
  PROVE  LET e == StepBack(d) IN
         /\ e \in Display(Column) /\ e.line \in Row /\ e.position \in Column
         /\ e.screen = d.screen
         /\ Follows(e, len - 1)
         /\ \A r \in Row, c \in Column : IndexAt(e, len - 1, r, c) = IndexAt(d, len, r, c)
<1> DEFINE e == StepBack(d)
<1> SUFFICES /\ e \in Display(Column) /\ e.line \in Row /\ e.position \in Column
             /\ e.screen = d.screen
             /\ Follows(e, len - 1)
             /\ \A r \in Row, c \in Column : IndexAt(e, len - 1, r, c) = IndexAt(d, len, r, c)
  OBVIOUS
<1>1. /\ d \in Display(Column) /\ d.line \in Row /\ d.position \in Column
      /\ d.cursor = <<d.line, d.position>> /\ d.screen \in Screen
      /\ len \in Nat /\ len <= StringLength
      /\ \A r \in Row : r \in Int
      /\ \A c \in Column : c \in Int
  BY Sizes DEF Good, Display, Line, Follows, Screen, Row, Column
<1>2. PICK wraps \in 0 .. d.line : wraps * Columns + d.position = PromptLength + len
  BY DEF Good, Follows
<1>3. wraps \in Nat /\ wraps * Columns \in Nat
  BY <1>1, Sizes DEF Row
<1>4. CASE d.position = 0
  <2>1. wraps > 0
    <3>1. 0 * Columns = 0
      BY Sizes
    <3>2. wraps # 0
      BY <1>1, <1>2, <1>4, <3>1, Sizes
    <3> QED BY <1>3, <3>2
  <2>2. d.line - 1 \in Row /\ Columns - 1 \in Column
    BY <1>1, <2>1, Sizes, SMTT(30) DEF Row, Column
  <2>3. e = SetCursor(d, d.line - 1, Columns - 1)
    BY <1>4 DEF StepBack
  <2>4. e = [line |-> d.line - 1, position |-> Columns - 1,
             cursor |-> <<d.line - 1, Columns - 1>>, screen |-> d.screen]
    <3> HIDE DEF e
    <3> QED BY <1>1, <2>3 DEF SetCursor, Display
  <2> HIDE DEF e
  <2>5. e \in Display(Column)
    BY <1>1, <2>2, <2>4 DEF Display, Screen
  <2>6. (wraps - 1) * Columns + Columns = wraps * Columns
    <3>1. wraps - 1 \in Int /\ (wraps - 1) + 1 = wraps
      BY <1>3
    <3> QED BY <3>1, NextRow
  <2>7. (wraps - 1) * Columns \in Int
    BY <1>3, Sizes
  <2>8. (wraps - 1) * Columns + (Columns - 1) = PromptLength + (len - 1)
    <3> DEFINE j == wraps * Columns
               k == (wraps - 1) * Columns
    <3>1. j + 0 = PromptLength + len /\ k + Columns = j /\ k \in Int /\ j \in Int
      BY <1>2, <1>3, <1>4, <2>6, <2>7
    <3> HIDE DEF j, k
    <3>2. k + (Columns - 1) = PromptLength + (len - 1)
      BY <3>1, <1>1, Sizes
    <3> QED BY <3>2 DEF k
  <2>9. Follows(e, len - 1)
    <3>1. wraps - 1 \in 0 .. d.line - 1
      BY <1>1, <1>3, <2>1
    <3> QED BY <2>4, <2>8, <3>1 DEF Follows
  <2>10. ASSUME NEW r \in Row, NEW c \in Column
         PROVE  IndexAt(e, len - 1, r, c) = IndexAt(d, len, r, c)
    <3>1. (r - (d.line - 1)) * Columns = (r - d.line) * Columns + Columns
      <4>1. r - d.line \in Int /\ (r - d.line) + 1 = r - (d.line - 1)
        BY <1>1
      <4> QED BY <4>1, NextRow
    <3> DEFINE k == (r - d.line) * Columns
    <3>2. k \in Int
      BY <1>1, Sizes
    <3>3. IndexAt(e, len - 1, r, c) = (len - 1) + (k + Columns) + (c - (Columns - 1))
      BY <2>4, <3>1 DEF IndexAt
    <3>4. IndexAt(d, len, r, c) = len + k + (c - 0)
      BY <1>4 DEF IndexAt
    <3> HIDE DEF k
    <3> QED BY <3>2, <3>3, <3>4, <1>1, Sizes
  <2> QED BY <1>1, <2>2, <2>4, <2>5, <2>9, <2>10
<1>5. CASE d.position # 0
  <2>1. d.position - 1 \in Column
    BY <1>1, <1>5, Sizes DEF Column
  <2>2. e = SetCursorPosition(d, d.position - 1)
    BY <1>5 DEF StepBack
  <2>3. e = [line |-> d.line, position |-> d.position - 1,
             cursor |-> <<d.line, d.position - 1>>, screen |-> d.screen]
    <3>1. d.cursor[1] = d.line
      BY <1>1
    <3>2. e = [d EXCEPT !.position = d.position - 1, !.cursor = <<d.line, d.position - 1>>]
      BY <2>2, <3>1 DEF SetCursorPosition
    <3> HIDE DEF e
    <3> QED BY <1>1, <3>2 DEF Display
  <2> HIDE DEF e
  <2>4. e \in Display(Column)
    BY <1>1, <2>1, <2>3 DEF Display, Screen
  <2>5. Follows(e, len - 1)
    <3> DEFINE k == wraps * Columns
    <3>1. k \in Int /\ k + d.position = PromptLength + len
      BY <1>2, <1>3
    <3> HIDE DEF k
    <3>2. k + (d.position - 1) = PromptLength + (len - 1)
      BY <3>1, <1>1, Sizes
    <3> QED BY <1>2, <2>3, <3>2 DEF Follows, k
  <2>6. ASSUME NEW r \in Row, NEW c \in Column
        PROVE  IndexAt(e, len - 1, r, c) = IndexAt(d, len, r, c)
    <3> DEFINE k == (r - d.line) * Columns
    <3>1. k \in Int
      BY <1>1, Sizes
    <3>2. /\ IndexAt(e, len - 1, r, c) = (len - 1) + k + (c - (d.position - 1))
          /\ IndexAt(d, len, r, c) = len + k + (c - d.position)
      BY <2>3 DEF IndexAt
    <3> HIDE DEF k
    <3> QED BY <3>1, <3>2, <1>1
  <2> QED BY <1>1, <2>1, <2>3, <2>4, <2>5, <2>6
<1> QED BY <1>4, <1>5

(* The place with the cursor's index is the cursor's.                      *)
LEMMA CursorPlace ==
  ASSUME NEW e \in Display(Column), NEW len \in Nat, NEW r \in Row, NEW c \in Column
  PROVE  /\ IndexAt(e, len, r, c) \in Int
         /\ IndexAt(e, len, r, c) = len <=> r = e.line /\ c = e.position
<1>1. /\ e.line \in Row /\ e.position \in Column
      /\ r \in Int /\ c \in Int /\ e.line \in Int /\ e.position \in Int
      /\ r - e.line \in Int
  BY Sizes DEF Display, Row, Column
<1> DEFINE k == (r - e.line) * Columns
<1>2. k \in Int /\ IndexAt(e, len, r, c) = len + k + (c - e.position)
  BY <1>1, Sizes DEF IndexAt
<1>3. ASSUME r = e.line PROVE k = 0
  BY <1>1, <1>3, Sizes
<1>4. ASSUME k + c = e.position PROVE r = e.line
  <2>1. r - e.line = 0
    BY <1>1, <1>4, SameRow
  <2> QED BY <1>1, <2>1
<1> HIDE DEF k
<1>5. ASSUME r = e.line, c = e.position
      PROVE  IndexAt(e, len, r, c) = len
  BY <1>1, <1>2, <1>3, <1>5
<1>6. ASSUME IndexAt(e, len, r, c) = len
      PROVE  r = e.line /\ c = e.position
  <2>1. k + c = e.position
    <3>1. len = len + k + (c - e.position)
      BY <1>2, <1>6
    <3>2. k \in Int /\ c \in Int /\ e.position \in Int
      BY <1>1, <1>2
    <3> QED BY <3>1, <3>2, SMT
  <2>2. r = e.line /\ k = 0
    BY <1>3, <1>4, <2>1
  <2> QED BY <1>1, <2>1, <2>2
<1>7. IndexAt(e, len, r, c) \in Int
  BY <1>1, <1>2
<1> QED BY <1>5, <1>6, <1>7

LEMMA EraseChar ==
  ASSUME NEW d, NEW str, NEW len, Good(d, str, len), len > 0
  PROVE  LET e == StepBack(d) IN
         Good([e EXCEPT !.screen[e.cursor[1]][e.cursor[2]] = Space],
              [str EXCEPT ![len - 1] = Space], len - 1)
<1> DEFINE e == StepBack(d)
           f == [e EXCEPT !.screen[e.cursor[1]][e.cursor[2]] = Space]
           t == [str EXCEPT ![len - 1] = Space]
           scr == [d.screen EXCEPT ![e.line][e.position] = Space]
<1> SUFFICES Good(f, t, len - 1)
  OBVIOUS
<1>1. /\ str \in [Index -> Char] /\ len \in Nat /\ len - 1 \in Index
      /\ len - 1 \in Nat /\ d.screen \in Screen
      /\ \A n \in Index : n >= len => str[n] = Space
      /\ Space \in Char
  BY Sizes DEF Good, Display, Line, Index, Screen, Space, Char, Keys
<1>2. /\ e \in Display(Column) /\ e.line \in Row /\ e.position \in Column
      /\ e.screen = d.screen
      /\ Follows(e, len - 1)
      /\ \A r \in Row, c \in Column : IndexAt(e, len - 1, r, c) = IndexAt(d, len, r, c)
  BY StepBackFields
<1>3. f = [e EXCEPT !.screen = scr]
  <2>1. e.cursor[1] = e.line /\ e.cursor[2] = e.position
    BY <1>2 DEF Follows
  <2> HIDE DEF e
  <2> QED BY <1>2, <2>1
<1> HIDE DEF e, f
<1>4. /\ scr \in Screen
      /\ \A r \in Row, c \in Column :
           scr[r][c] = IF r = e.line /\ c = e.position THEN Space ELSE d.screen[r][c]
  BY <1>1, <1>2 DEF Screen
<1> HIDE DEF scr
<1>5. /\ f \in Display(Column) /\ f.screen = scr
      /\ f.line = e.line /\ f.position = e.position /\ f.cursor = e.cursor
  BY <1>2, <1>3, <1>4 DEF Display, Screen
<1>6. Line(t, len - 1)
  BY <1>1, Sizes DEF Good, Line, Index
<1>7. \A n \in 0 .. len - 2 : t[n] = str[n]
  BY <1>1, Sizes DEF Index
<1> HIDE DEF t
<1>8. Follows(f, len - 1)
  BY <1>2, <1>5 DEF Follows
<1>9. Shows(f, t, len - 1)
  <2> SUFFICES ASSUME NEW r \in Row, NEW c \in Column
               PROVE  /\ IndexAt(f, len - 1, r, c) \in 0 .. (len - 1) - 1 =>
                           f.screen[r][c] = t[IndexAt(f, len - 1, r, c)]
                      /\ IndexAt(f, len - 1, r, c) >= len - 1 => f.screen[r][c] = Space
    BY DEF Shows
  <2> DEFINE n == IndexAt(d, len, r, c)
  <2>1. IndexAt(f, len - 1, r, c) = n /\ IndexAt(e, len - 1, r, c) = n
    BY <1>2, <1>5 DEF IndexAt
  <2>2. n \in Int /\ (n = len - 1 <=> r = e.line /\ c = e.position)
    BY <1>1, <1>2, <2>1, CursorPlace
  <2>3. /\ n \in 0 .. len - 1 => d.screen[r][c] = str[n]
        /\ n >= len => d.screen[r][c] = Space
    BY DEF Good, Shows
  <2> HIDE DEF n
  <2>4. CASE n = len - 1
    BY <1>1, <1>4, <1>5, <2>1, <2>2, <2>4
  <2>5. CASE n # len - 1
    BY <1>1, <1>4, <1>5, <1>7, <2>1, <2>2, <2>3, <2>5
  <2> QED BY <2>4, <2>5
<1> QED BY <1>5, <1>6, <1>8, <1>9 DEF Good

-----------------------------------------------------------------------------
(* The lookup leaves every name somewhere, and finds the end of the line.  *)
LEMMA LeastOf ==
  ASSUME NEW S, S \subseteq Nat, S # {}
  PROVE  \E x \in S : \A y \in S : x <= y
<1> DEFINE Less == OpToRel(<, Nat)
<1>1. \A x, y \in Nat : <<y, x>> \in Less <=> y < x
  BY DEF OpToRel
<1>2. \E x \in S : \A y \in S : ~(<<y, x>> \in Less)
  BY NatLessThanWellFounded, WFMin
<1> HIDE DEF Less
<1>3. PICK x \in S : \A y \in S : <<y, x>> \notin Less
  BY <1>2
<1>4. \A y \in S : ~(y < x)
  BY <1>1, <1>3
<1> QED BY <1>3, <1>4

LEMMA LeftInName ==
  ASSUME NEW i
  PROVE  Left(i) \in 0 .. NameLength
<1> DEFINE S == {n \in 0 .. NameLength : n < NameLength => ~Matches(i, n) \/ Ends(i, n)}
<1>1. NameLength \in S /\ S \subseteq Nat
  BY Sizes
<1>2. PICK n \in S : \A m \in S : n <= m
  BY <1>1, LeastOf
<1>3. n \in 0 .. NameLength /\ Leaves(i, n)
  BY <1>2, Sizes DEF Leaves
<1> QED BY <1>3 DEF Left

LEMMA ParametersBegin ==
  ASSUME TypeOK, TailBlank, console_string_length < StringLength
  PROVE  parameters_begin \in Nat
<1> DEFINE First(n) == /\ console_string[n] = Space
                       /\ \A m \in 0 .. n - 1 : console_string[m] # Space
           S == {n \in Index : console_string[n] = Space}
<1>1. console_string_length \in S /\ S \subseteq Nat
  BY Sizes DEF TypeOK, TailBlank, Index
<1>2. PICK n \in S : \A m \in S : n <= m
  BY <1>1, LeastOf
<1>3. n \in Index /\ First(n)
  BY <1>2, Sizes DEF Index
<1> DEFINE first == CHOOSE k \in Index : First(k)
<1>4. first \in Index
  BY <1>3
<1>5. parameters_begin = 1 + first
  BY DEF parameters_begin
<1> HIDE DEF first
<1> QED BY <1>4, <1>5, Sizes DEF Index

LEMMA RunType ==
  ASSUME TypeOK, TailBlank, console_string_length < StringLength,
         NEW i \in 1 .. Len(Commands)
  PROVE  Run(i) \in [command : 0 .. Len(Commands), begin : Nat, length : 0 .. 255]
<1> DEFINE begin == IF ParametersChk(i) # 0 THEN ParametersChk(i) ELSE parameters_begin
<1>1. ParametersChk(i) \in Nat
  BY LeftInName, Sizes DEF ParametersChk
<1>2. begin \in Nat
  BY <1>1, ParametersBegin
<1>3. Run(i) = [command |-> i, begin |-> begin,
                length |-> (console_string_length + 1 - begin) % 256]
  BY DEF Run
<1> HIDE DEF begin
<1>4. (console_string_length + 1 - begin) % 256 \in 0 .. 255
  BY <1>2 DEF TypeOK
<1>5. i \in 0 .. Len(Commands)
  OBVIOUS
<1> QED BY <1>2, <1>3, <1>4, <1>5

-----------------------------------------------------------------------------
(* The invariant is inductive.                                             *)
LEMMA CommandCount == Len(Commands) \in Nat
BY ConsoleAssumption DEF ConsoleAssumption

LEMMA InitInv == Init => ConsoleInv
<1> SUFFICES ASSUME Init PROVE ConsoleInv
  OBVIOUS
<1> DEFINE d == [line |-> 0, position |-> 0, cursor |-> <<0, 0>>,
                 screen |-> [r \in Row |-> Blank]]
<1>1. d \in Display(Wide) /\ BlankFrom(d, d.line)
  BY Sizes DEF Display, Wide, Row, Column, Blank, BlankFrom, Space, Char, Keys
<1>2. PICK rows \in {0, 1} : console = PrintPrompt(PrintRows(PrintRows(d, rows), 1))
  BY DEF Init, kPrintVersion
<1> HIDE DEF d
<1> DEFINE e == PrintRows(d, rows)
           f == PrintRows(e, 1)
<1>3. e \in Display(Column) /\ BlankFrom(e, e.line)
  BY <1>1, PrintRowsFields
<1> HIDE DEF e
<1>4. f \in Display(Column) /\ BlankFrom(f, f.line)
  <2>1. e \in Display(Wide)
    BY <1>3, Sizes DEF Display, Wide, Column
  <2> QED BY <1>3, <2>1, PrintRowsFields
<1> HIDE DEF f
<1>5. Good(console, console_string, console_string_length)
  <2>1. f \in Display(Wide)
    BY <1>4, Sizes DEF Display, Wide, Column
  <2>2. console = PrintPrompt(f)
    BY <1>2 DEF e, f
  <2> QED BY <1>4, <2>1, <2>2, FreshPrompt DEF Init
<1>6. TypeOK
  <2>1. ran \in [command : 0 .. Len(Commands), begin : Nat, length : 0 .. 255]
    BY CommandCount DEF Init, NoRun
  <2> QED BY <1>5, <2>1 DEF Init, Good, Line, TypeOK
<1> QED BY <1>5, <1>6, GoodConsole DEF ConsoleInv

(* A step keeps the invariant when it leaves a good console.               *)
LEMMA StepFromGood ==
  ASSUME ConsoleInv,
         Good(console', console_string', console_string_length'),
         shiftState' \in {0, 1}, oldScanCode' \in Codes, intact' \in BOOLEAN,
         ran' \in [command : 0 .. Len(Commands), begin : Nat, length : 0 .. 255]
  PROVE  ConsoleInv'
<1>1. TypeOK'
  BY DEF TypeOK, Good, Line
<1>2. CursorFollows' /\ TailBlank' /\ LineShown'
  BY DEF CursorFollows, TailBlank, LineShown, LineIndex,
         Good, Line, Follows, Shows, IndexAt
<1> QED BY <1>1, <1>2 DEF ConsoleInv

(* After the output of a command, the prompt is on a row of its own.       *)
LEMMA NewPromptGood ==
  ASSUME NEW d, NEW str, NEW len, Good(d, str, len), NEW n \in Nat
  PROVE  Good(PrintPrompt(PrintRows(PrintLn(d), n)), [m \in Index |-> Space], 0)
<1> DEFINE e == PrintLn(d)
           f == PrintRows(e, n)
<1>1. d \in Display(Wide) /\ BlankFrom(d, d.line + 1)
  BY NothingBelow
<1>2. e \in Display(Column) /\ BlankFrom(e, e.line)
  BY <1>1, LineEndsFields, LineEndsBlank DEF PrintLn
<1> HIDE DEF e
<1>3. e \in Display(Wide)
  BY <1>2, Sizes DEF Display, Wide, Column
<1>4. f \in Display(Column) /\ BlankFrom(f, f.line)
  BY <1>2, <1>3, PrintRowsFields
<1> HIDE DEF f
<1>5. f \in Display(Wide)
  BY <1>4, Sizes DEF Display, Wide, Column
<1>6. Good(PrintPrompt(f), [m \in Index |-> Space], 0)
  BY <1>4, <1>5, FreshPrompt
<1> QED BY <1>6 DEF e, f

LEMMA NextStep == ConsoleInv /\ [cliRunShell]_vars => ConsoleInv'
<1> SUFFICES ASSUME ConsoleInv, [cliRunShell]_vars PROVE ConsoleInv'
  OBVIOUS
<1>1. /\ TypeOK /\ TailBlank
      /\ Good(console, console_string, console_string_length)
      /\ console_string_length \in Nat /\ console_string_length <= StringLength
  BY GoodConsole, Sizes DEF ConsoleInv, TypeOK
<1>2. /\ NOKEY \in Codes /\ SHIFT \in Codes /\ UNSHIFT \in Codes
      /\ BACKSPACE \in Codes /\ RETURN \in Codes /\ \A k \in Keys : k \in Codes
  BY DEF Codes
<1>3. CASE UNCHANGED vars
  BY <1>3 DEF ConsoleInv, TypeOK, CursorFollows, TailBlank, LineShown, LineIndex, vars
<1>4. CASE PollOther
  BY <1>1, <1>2, <1>4, StepFromGood DEF PollOther, Poll, TypeOK
<1>5. CASE Shift
  BY <1>1, <1>2, <1>5, StepFromGood DEF Shift, Poll, TypeOK
<1>6. ASSUME NEW k \in Keys, KeyFunctionPrintChar(k) PROVE ConsoleInv'
  <2>1. Typed(k) \in Char
    BY <1>1, <1>6 DEF Typed, TypeOK, Char, Space, Keys
  <2>2. Good(console', console_string', console_string_length')
    BY <1>1, <1>6, <2>1, TypeChar DEF KeyFunctionPrintChar
  <2> QED BY <1>1, <1>2, <1>6, <2>2, StepFromGood DEF KeyFunctionPrintChar, Poll, TypeOK
<1>7. ASSUME NEW k \in Keys, LineFull(k) PROVE ConsoleInv'
  BY <1>1, <1>2, <1>7, StepFromGood DEF LineFull, Poll, TypeOK
<1>8. CASE KeyFunctionBackspace
  <2>1. Good(console', console_string', console_string_length')
    BY <1>1, <1>8, EraseChar DEF KeyFunctionBackspace
  <2> QED BY <1>1, <1>2, <1>8, <2>1, StepFromGood DEF KeyFunctionBackspace, Poll, TypeOK
<1>9. CASE BackspaceNothing
  BY <1>1, <1>2, <1>9, StepFromGood DEF BackspaceNothing, Poll, TypeOK
<1>10. ASSUME NEW n \in Nat, NewPrompt(n)
       PROVE  Good(console', console_string', console_string_length')
  BY <1>1, <1>10, NewPromptGood DEF NewPrompt, ConsoleClearKeyboardString
<1>11. ASSUME NEW i \in 1 .. Len(Commands), NEW n \in 0 .. MaxRows, ReturnRuns(i, n)
       PROVE  ConsoleInv'
  <2>1. Good(console', console_string', console_string_length')
    BY <1>10, <1>11, Sizes DEF ReturnRuns
  <2>2. ran' \in [command : 0 .. Len(Commands), begin : Nat, length : 0 .. 255]
    BY <1>1, <1>11, RunType DEF ReturnRuns
  <2> QED BY <1>1, <1>2, <1>11, <2>1, <2>2, StepFromGood
          DEF ReturnRuns, NewPrompt, Poll, TypeOK
<1>12. CASE ReturnNotFound
  <2>1. Good(console', console_string', console_string_length')
    BY <1>10, <1>12 DEF ReturnNotFound
  <2>2. ran' \in [command : 0 .. Len(Commands), begin : Nat, length : 0 .. 255]
    BY <1>12, CommandCount DEF ReturnNotFound, NoRun
  <2> QED BY <1>1, <1>2, <1>12, <2>1, <2>2, StepFromGood
          DEF ReturnNotFound, NewPrompt, Poll, TypeOK
<1>13. CASE ReturnFull
  BY <1>1, <1>2, <1>13, StepFromGood DEF ReturnFull, Poll, TypeOK
<1> QED BY <1>3, <1>4, <1>5, <1>6, <1>7, <1>8, <1>9, <1>11, <1>12, <1>13 DEF cliRunShell

(* console_line and console_position stay on the display, and what return  *)
(* runs has a parameter length of one byte.                                *)
THEOREM TypeCorrect == Spec => []TypeOK
<1>1. ConsoleInv => TypeOK
  BY DEF ConsoleInv
<1> QED BY InitInv, NextStep, <1>1, PTL DEF Spec

(* Through every wrap, scroll and backspace (shell.c:122-162) the cursor   *)
(* is one place after what was typed.                                      *)
THEOREM CursorCorrect == Spec => []CursorFollows
<1>1. ConsoleInv => CursorFollows
  BY DEF ConsoleInv
<1> QED BY InitInv, NextStep, <1>1, PTL DEF Spec

(* The display shows the line that KeyFunctionReturn will look up.         *)
THEOREM LineCorrect == Spec => []LineShown
<1>1. ConsoleInv => LineShown
  BY DEF ConsoleInv
<1> QED BY InitInv, NextStep, <1>1, PTL DEF Spec

-----------------------------------------------------------------------------
(* The lookup and the name that was typed.                                 *)
LEMMA LeftIs ==
  ASSUME NEW i, NEW n \in 0 .. NameLength, Leaves(i, n)
  PROVE  Left(i) = n
<1>1. ASSUME NEW m \in 0 .. NameLength, Leaves(i, m) PROVE m = n
  <2>1. ~(m < n)
    BY <1>1, Sizes DEF Leaves
  <2>2. ~(n < m)
    BY <1>1, Sizes DEF Leaves
  <2> QED BY <2>1, <2>2, <1>1, Sizes
<1> QED BY <1>1 DEF Left

(* Names have two letters.                                                 *)
LEMMA NameIs ==
  ASSUME NEW i \in 1 .. Len(Commands)
  PROVE  /\ Len(Commands[i]) = 2
         /\ \E a, b \in Letters : Name(i, 0) = <<a, 0>> /\ Name(i, 1) = <<b, 0>>
         /\ Name(i, 2) = Space
<1>1. PICK a \in Letters, b \in Letters : Commands[i] = <<a, b>>
  BY ConsoleAssumption DEF ConsoleAssumption
<1>2. Len(Commands[i]) = 2 /\ Commands[i][1] = a /\ Commands[i][2] = b
  BY <1>1
<1>3. Name(i, 0) = <<a, 0>> /\ Name(i, 1) = <<b, 0>> /\ Name(i, 2) = Space
  BY <1>2 DEF Name
<1> QED BY <1>2, <1>3

(* A letter, the space and a symbol are told apart.                        *)
LEMMA Characters ==
  ASSUME NEW ch \in Char
  PROVE  /\ \A a \in Letters : lowercase(ch) = <<a, 0>> => ch # Space /\ ~is_symbol(ch)
         /\ lowercase(ch) = Space <=> ch = Space
         /\ ~is_symbol(Space)
         /\ \A a \in Letters : <<a, 0>> # Space
<1>1. SPACE \notin Letters \cup Digits \cup Symbols \cup Functions
  BY ConsoleAssumption DEF ConsoleAssumption
<1>2. Letters \cap (Digits \cup Symbols) = {}
  BY ConsoleAssumption DEF ConsoleAssumption
<1>3. PICK k \in Keys, h \in {0, 1} : ch = <<k, h>>
  BY DEF Char
<1> QED BY <1>1, <1>2, <1>3 DEF lowercase, is_symbol, Space

(* The two letters, and a space or a symbol after them.                    *)
Typed2(i) ==
  /\ Matches(i, 0) /\ Matches(i, 1)
  /\ console_string[2] = Space \/ is_symbol(console_string[2])

LEMMA InvokesIs ==
  ASSUME TypeOK, TailBlank, console_string_length < StringLength,
         NEW i \in 1 .. Len(Commands)
  PROVE  /\ Invokes(i) <=> Typed2(i)
         /\ Typed2(i) => console_string_length >= 2
<1>1. /\ console_string \in [Index -> Char]
      /\ {0, 1, 2} \subseteq Index
      /\ console_string_length \in Nat
      /\ \A n \in Index : n >= console_string_length => console_string[n] = Space
  BY Sizes DEF TypeOK, TailBlank, Index
<1>2. /\ console_string[0] \in Char /\ console_string[1] \in Char
      /\ console_string[2] \in Char
  BY <1>1
<1>3. Len(Commands[i]) = 2
  BY NameIs
<1>4. Invokes(i) =>
        Matches(i, 0) /\ Matches(i, 1) /\ 2 <= console_string_length
  BY <1>1, <1>3 DEF Invokes, Matches
<1>5. Invokes(i) => Typed2(i)
  BY <1>1, <1>3, <1>4 DEF Invokes, Typed2
<1>6. Typed2(i) => console_string[0] # Space /\ console_string[1] # Space
  BY <1>2, NameIs, Characters DEF Typed2, Matches
<1>7. Typed2(i) => console_string_length >= 2
  BY <1>1, <1>6
<1>8. Typed2(i) => Invokes(i)
  <2> SUFFICES ASSUME Typed2(i) PROVE Invokes(i)
    OBVIOUS
  <2>1. \A n \in 0 .. 1 : n < console_string_length /\ lowercase(console_string[n]) = Name(i, n)
    BY <1>1, <1>7 DEF Typed2, Matches
  <2> QED BY <1>3, <2>1 DEF Typed2, Invokes
<1> QED BY <1>5, <1>7, <1>8

(* A name passes where it was typed; one that does not can only have been  *)
(* left at its end by a symbol after the first letter.                     *)
LEMMA Lookup ==
  ASSUME TypeOK, NEW i \in 1 .. Len(Commands)
  PROVE  /\ Passed(i) <=> Typed2(i)
         /\ Typed2(i) => /\ AtEnd(i) /\ ~is_symbol(console_string[1])
                         /\ Left(i) = IF console_string[2] = Space THEN 2 ELSE 1
         /\ AtEnd(i) /\ ~Typed2(i) => is_symbol(console_string[1])
<1>1. /\ console_string[0] \in Char /\ console_string[1] \in Char
      /\ console_string[2] \in Char
      /\ NameLength \in Nat /\ 2 < NameLength
  BY Sizes DEF TypeOK, Index
<1>2. /\ Name(i, 0) # Space /\ Name(i, 1) # Space /\ Name(i, 2) = Space
      /\ Matches(i, 1) => ~is_symbol(console_string[1])
      /\ Matches(i, 2) <=> console_string[2] = Space
      /\ ~is_symbol(Space)
  BY <1>1, NameIs, Characters DEF Matches
<1>3. /\ Ends(i, 0) <=> is_symbol(console_string[1])
      /\ Ends(i, 1) <=> is_symbol(console_string[2])
      /\ Ends(i, 2)
  BY <1>2 DEF Ends
<1>4. CASE ~Matches(i, 0) \/ is_symbol(console_string[1])
  <2>1. Leaves(i, 0)
    BY <1>3, <1>4 DEF Leaves
  <2>2. Left(i) = 0
    BY <1>1, <2>1, LeftIs
  <2> QED BY <1>1, <1>2, <1>4, <2>2 DEF Passed, AtEnd, Typed2
<1>5. CASE Matches(i, 0) /\ ~is_symbol(console_string[1]) /\ ~Matches(i, 1)
  <2>1. Leaves(i, 1)
    BY <1>3, <1>5 DEF Leaves
  <2>2. Left(i) = 1
    BY <1>1, <2>1, LeftIs
  <2> QED BY <1>1, <1>5, <2>2 DEF Passed, AtEnd, Typed2
<1>6. CASE /\ Matches(i, 0) /\ ~is_symbol(console_string[1])
           /\ Matches(i, 1) /\ is_symbol(console_string[2])
  <2>1. Leaves(i, 1)
    BY <1>3, <1>6 DEF Leaves
  <2>2. Left(i) = 1
    BY <1>1, <2>1, LeftIs
  <2> QED BY <1>1, <1>2, <1>6, <2>2 DEF Passed, AtEnd, Typed2
<1>7. CASE /\ Matches(i, 0) /\ ~is_symbol(console_string[1])
           /\ Matches(i, 1) /\ ~is_symbol(console_string[2])
  <2>1. Leaves(i, 2)
    <3>1. \A m \in 0 .. 2 - 1 : m = 0 \/ m = 1
      OBVIOUS
    <3> QED BY <1>3, <1>7, <3>1 DEF Leaves
  <2>2. Left(i) = 2
    BY <1>1, <2>1, LeftIs
  <2> QED BY <1>1, <1>2, <1>7, <2>2 DEF Passed, AtEnd, Typed2
<1> QED BY <1>4, <1>5, <1>6, <1>7

(* One byte holds every parameter length.                                  *)
LEMMA ModSmall ==
  ASSUME NEW n \in 0 .. 255
  PROVE  n % 256 = n
OBVIOUS

LEMMA RunIs ==
  ASSUME TypeOK, TailBlank, console_string_length < StringLength,
         NEW i \in 1 .. Len(Commands), Found(i)
  PROVE  /\ Run(i).command = i
         /\ Run(i).begin = IF console_string[2] = Space THEN 3 ELSE 2
         /\ Run(i).begin + Run(i).length = console_string_length + 1
<1>1. Passed(i) /\ Typed2(i) /\ AtEnd(i) /\ ~is_symbol(console_string[1])
  BY Lookup DEF Found
<1>2. \A j \in 1 .. i - 1 : ~AtEnd(j)
  <2> SUFFICES ASSUME NEW j \in 1 .. i - 1, AtEnd(j) PROVE FALSE
    OBVIOUS
  <2>1. j \in 1 .. Len(Commands) /\ ~Passed(j)
    BY CommandCount DEF Found
  <2> QED BY <1>1, <2>1, Lookup
<1>3. ASSUME NEW j \in 1 .. i, AtEnd(j), \A k \in 1 .. j - 1 : ~AtEnd(k)
      PROVE  j = i
  <2>1. j \in 1 .. i - 1 \/ j = i
    OBVIOUS
  <2> QED BY <1>2, <1>3, <2>1
<1>4. i \in 1 .. i
  OBVIOUS
<1>5. (CHOOSE j \in 1 .. i : AtEnd(j) /\ \A k \in 1 .. j - 1 : ~AtEnd(k)) = i
  BY <1>1, <1>2, <1>3, <1>4
<1>6. ParametersChk(i) = IF console_string[2] = Space THEN 3 ELSE 2
  <2>1. \E j \in 1 .. i : AtEnd(j)
    BY <1>1, <1>4
  <2>2. ParametersChk(i) = 1 + Left(CHOOSE j \in 1 .. i : AtEnd(j) /\ \A k \in 1 .. j - 1 : ~AtEnd(k))
    BY <2>1 DEF ParametersChk
  <2>3. ParametersChk(i) = 1 + Left(i)
    BY <1>5, <2>2
  <2>4. Left(i) = IF console_string[2] = Space THEN 2 ELSE 1
    BY <1>1, Lookup
  <2> QED BY <2>3, <2>4
<1> DEFINE begin == IF console_string[2] = Space THEN 3 ELSE 2
<1>7. Run(i) = [command |-> i, begin |-> begin,
                length |-> (console_string_length + 1 - begin) % 256]
  BY <1>6 DEF Run
<1>8. console_string_length \in Nat /\ console_string_length >= 2
  BY <1>1, InvokesIs, Sizes DEF TypeOK
<1>9. begin \in {2, 3}
  OBVIOUS
<1> HIDE DEF begin
<1>10. console_string_length + 1 - begin \in 0 .. 255
  BY <1>8, <1>9, Sizes
<1>11. (console_string_length + 1 - begin) % 256 = console_string_length + 1 - begin
  BY <1>10, ModSmall
<1> QED BY <1>7, <1>8, <1>9, <1>11 DEF begin

(* Return runs the first command the line invokes (command.c:227-273), for *)
(* every table of two-letter names.                                        *)
THEOREM CommandCorrect == Spec => RunsWhatWasTyped
<1> DEFINE invoked == {i \in 1 .. Len(Commands) : Invokes(i)}
           Right == IF invoked = {} THEN ran' = NoRun
                    ELSE /\ ran'.command \in invoked
                         /\ \A i \in invoked : ran'.command <= i
                         /\ LET n == Len(Commands[ran'.command]) IN
                            ran'.begin = IF console_string[n] = Space THEN n + 1 ELSE n
                         /\ ran'.begin + ran'.length = console_string_length + 1
<1>1. ASSUME ConsoleInv, cliRunShell, oldScanCode' = RETURN, intact'
      PROVE  Right
  <2>1. TypeOK /\ TailBlank
    BY <1>1 DEF ConsoleInv
  <2>2. RETURN \notin Keys \cup {SHIFT, UNSHIFT, BACKSPACE, NOKEY}
    BY ConsoleAssumption DEF ConsoleAssumption
  <2>3. \/ \E i \in 1 .. Len(Commands), n \in 0 .. MaxRows : ReturnRuns(i, n)
        \/ ReturnNotFound
    BY <1>1, <2>2 DEF cliRunShell, PollOther, Shift, KeyFunctionPrintChar, LineFull,
                      KeyFunctionBackspace, BackspaceNothing, ReturnFull, Poll
  <2>4. console_string_length < StringLength
    BY <2>3 DEF ReturnRuns, ReturnNotFound
  <2>5. \A i \in 1 .. Len(Commands) : Passed(i) <=> Invokes(i)
    BY <2>1, <2>4, Lookup, InvokesIs
  <2>6. ASSUME NEW i \in 1 .. Len(Commands), Found(i), ran' = Run(i)
        PROVE  Right
    <3>1. i \in invoked /\ invoked # {}
      BY <2>5, <2>6 DEF Found
    <3>2. \A j \in invoked : i <= j
      BY <2>5, <2>6, CommandCount DEF Found
    <3>3. /\ ran'.command = i
          /\ ran'.begin = IF console_string[2] = Space THEN 3 ELSE 2
          /\ ran'.begin + ran'.length = console_string_length + 1
      BY <2>1, <2>4, <2>6, RunIs
    <3>4. Len(Commands[i]) = 2
      BY NameIs
    <3> HIDE DEF invoked
    <3> QED BY <3>1, <3>2, <3>3, <3>4
  <2>7. CASE ReturnNotFound
    <3>1. invoked \subseteq Nat
      BY CommandCount
    <3>2. ASSUME NEW i \in invoked, \A j \in invoked : i <= j
          PROVE  FALSE
      <4>1. Found(i)
        BY <2>5, <3>2, CommandCount DEF Found
      <4> QED BY <2>7, <4>1 DEF ReturnNotFound
    <3>3. invoked = {}
      <4> HIDE DEF invoked
      <4> QED BY <3>1, <3>2, LeastOf
    <3>4. ran' = NoRun
      BY <2>7 DEF ReturnNotFound
    <3> HIDE DEF invoked
    <3> QED BY <3>3, <3>4
  <2> QED BY <2>3, <2>6, <2>7 DEF ReturnRuns
<1>2. ConsoleInv /\ [cliRunShell]_vars =>
        [(oldScanCode' = RETURN /\ oldScanCode # RETURN /\ intact') => Right]_vars
  BY <1>1
<1> QED BY InitInv, NextStep, <1>2, PTL DEF Spec, RunsWhatWasTyped
=============================================================================
