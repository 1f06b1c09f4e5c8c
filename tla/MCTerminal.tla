----------------------------- MODULE MCTerminal -----------------------------
(* Any characters at all written to a small screen, one at a time.         *)
EXTENDS Terminal

CONSTANT MAX_GONE  \* bound: rows scrolled away since the last clear

ASSUME SheetAssumption == MAX_GONE \in Nat /\ VGA_HEIGHT > 1

VARIABLES
  term,
  gone  \* history: the rows scrolled off the top since the last clear

MCGlyphs == {" ", "a"}

Init == term = Cleared /\ gone = <<>>

(* The top row leaves when the cursor goes down from the last row.         *)
Write(c) ==
  /\ term' = Putchar(term, c)
  /\ IF term.row = VGA_HEIGHT - 1 /\ term'.column = 0 /\ c # BS
     THEN Len(gone) < MAX_GONE /\ gone' = Append(gone, term.cells[0])
     ELSE UNCHANGED gone

Clear == term' = Cleared /\ gone' = <<>>

Next == Clear \/ \E c \in Glyphs \cup {NL, BS, TAB} : Write(c)
Spec == Init /\ [][Next]_<<term, gone>>

(* The cursor never leaves the screen, so that nothing is written outside  *)
(* of it, and the rows below the cursor are blank.                         *)
TypeOK ==
  /\ term \in Screen
  /\ \A y \in Rows : y > term.row => term.cells[y] = BlankRow

(* The screen is a window on the end of an endless sheet: scrolling loses  *)
(* nothing but the top row, and no character changes another row.          *)
Sheet == INSTANCE Paper WITH
  WIDTH  <- VGA_WIDTH,
  column <- term.column,
  sheet  <- gone \o [k \in 1 .. term.row + 1 |-> term.cells[k - 1]]
ImplementsPaper == Sheet!Spec
=============================================================================
