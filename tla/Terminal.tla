------------------------------ MODULE Terminal ------------------------------
(***************************************************************************)
(* kernel/terminal.c: the text screen as a record of its cells and the     *)
(* cursor, and what each character written does to it.  Colours are left   *)
(* out.                                                                    *)
(***************************************************************************)
EXTENDS Integers, Sequences, SequencesExt

CONSTANTS
  VGA_WIDTH, VGA_HEIGHT,
  Glyphs,             \* characters that show
  BLANK,              \* the space
  NL, BS, TAB         \* newline, backspace, tab

ASSUME ScreenAssumption ==
  /\ VGA_WIDTH \in Nat \ {0} /\ VGA_HEIGHT \in Nat \ {0}
  /\ BLANK \in Glyphs /\ {NL, BS, TAB} \cap Glyphs = {}
  /\ NL # BS /\ NL # TAB /\ BS # TAB

Rows     == 0 .. VGA_HEIGHT - 1
Cols     == 0 .. VGA_WIDTH - 1
BlankRow == [x \in Cols |-> BLANK]
Screen   == [cells : [Rows -> [Cols -> Glyphs]], row : Rows, column : Cols]

(* terminal_initialize and terminal_clear.                                 *)
Cleared == [cells |-> [y \in Rows |-> BlankRow], row |-> 0, column |-> 0]

Scrolled_KeepsLast(t) ==
  [t EXCEPT !.row = VGA_HEIGHT - 1,
            !.cells = [y \in Rows |->
              IF y + 1 \in Rows THEN t.cells[y + 1] ELSE t.cells[y]]]
Scrolled(t) ==
  [t EXCEPT !.row = VGA_HEIGHT - 1,
            !.cells = [y \in Rows |->
              IF y + 1 \in Rows THEN t.cells[y + 1] ELSE BlankRow]]

(* To the start of the next row, which may not exist yet.                  *)
NextRow(t) ==
  IF t.row + 1 = VGA_HEIGHT THEN Scrolled([t EXCEPT !.column = 0])
                            ELSE [t EXCEPT !.column = 0, !.row = @ + 1]

Back(t) ==
  IF t.column > 0
  THEN [t EXCEPT !.column = @ - 1, !.cells[t.row][t.column - 1] = BLANK]
  ELSE t

TabStop(t) ==
  LET stop == ((t.column + 4) \div 4) * 4
  IN  IF stop >= VGA_WIDTH THEN NextRow(t) ELSE [t EXCEPT !.column = stop]

Wraps_Late(column) == column = VGA_WIDTH
Wraps(column)      == column + 1 = VGA_WIDTH

Show(t, c) ==
  LET shown == [t EXCEPT !.cells[t.row][t.column] = c]
  IN  IF Wraps(t.column) THEN NextRow(shown)
                         ELSE [shown EXCEPT !.column = @ + 1]

Putchar(t, c) ==
  CASE c = NL  -> NextRow(t)
    [] c = BS  -> Back(t)
    [] c = TAB -> TabStop(t)
    [] c \in Glyphs -> Show(t, c)

Writestring(t, s) == FoldLeft(Putchar, t, s)
=============================================================================
