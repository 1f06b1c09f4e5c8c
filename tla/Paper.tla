-------------------------------- MODULE Paper --------------------------------
(***************************************************************************)
(* What a text screen promises: everything written since it was cleared    *)
(* goes to an endless sheet of rows, and only the last row changes.        *)
(***************************************************************************)
EXTENDS Integers, Sequences

CONSTANTS WIDTH, Glyphs, BLANK

VARIABLES
  sheet, \* the rows written so far, the last one being written
  column \* where the next character goes in it

vars   == <<sheet, column>>
Fresh  == [x \in 0 .. WIDTH - 1 |-> BLANK]
Here   == Len(sheet)

Blank == sheet = <<Fresh>> /\ column = 0
Clear == sheet' = <<Fresh>> /\ column' = 0

(* The character c at column x of the last row, then the cursor at column  *)
(* next, of a new row if next is the width.                                *)
Mark(x, c, next) ==
  LET marked == [sheet EXCEPT ![Here][x] = c]
  IN  IF next = WIDTH
      THEN sheet' = Append(marked, Fresh) /\ column' = 0
      ELSE sheet' = marked /\ column' = next

Char(c)   == Mark(column, c, column + 1)
Erase     == column > 0 /\ Mark(column - 1, BLANK, column - 1)
Return    == sheet' = Append(sheet, Fresh) /\ column' = 0
Skip(to)  == /\ to > column /\ to < WIDTH
             /\ column' = to /\ UNCHANGED sheet

Next ==
  \/ Clear \/ Erase \/ Return
  \/ \E c \in Glyphs : Char(c)
  \/ \E to \in 1 .. WIDTH - 1 : Skip(to)

Spec == Blank /\ [][Next]_vars
=============================================================================
