--------------------------- MODULE Console_proofs ---------------------------
(* Theorems about the line editor, for every size of the screen and of its *)
(* buffers: what is shown is what will be executed, and a write line is    *)
(* taken apart as it was typed.                                            *)
EXTENDS Console, Folding, SequenceTheorems

Chars == Glyphs \cup {NL, BS, TAB}

-----------------------------------------------------------------------------
(* terminal_putchar: what each character does to the screen.               *)

LEMMA SizeFacts ==
  /\ VGA_WIDTH \in Nat \ {0} /\ VGA_HEIGHT \in Nat \ {0}
  /\ 0 \in Rows /\ 0 \in Cols /\ VGA_HEIGHT - 1 \in Rows
  /\ BLANK \in Glyphs /\ BlankRow \in [Cols -> Glyphs]
  BY ScreenAssumption DEF Rows, Cols, BlankRow

LEMMA NextRowFacts ==
  ASSUME NEW t \in Screen
  PROVE  /\ NextRow(t) \in Screen /\ NextRow(t).column = 0
         /\ t.row + 1 # VGA_HEIGHT =>
              NextRow(t).row = t.row + 1 /\ NextRow(t).cells = t.cells
         /\ t.row + 1 = VGA_HEIGHT =>
              /\ NextRow(t).row = t.row
              /\ \A y \in Rows : y + 1 \in Rows => NextRow(t).cells[y] = t.cells[y + 1]
<1>1. /\ t.row \in Rows /\ t.column \in Cols /\ t.cells \in [Rows -> [Cols -> Glyphs]]
      /\ t = [cells |-> t.cells, row |-> t.row, column |-> t.column]
  BY DEF Screen
<1>2. CASE t.row + 1 = VGA_HEIGHT
  <2> DEFINE up == [y \in Rows |-> IF y + 1 \in Rows THEN t.cells[y + 1] ELSE BlankRow]
  <2>1. NextRow(t) = [cells |-> up, row |-> VGA_HEIGHT - 1, column |-> 0]
    BY <1>1, <1>2 DEF NextRow, Scrolled
  <2>2. up \in [Rows -> [Cols -> Glyphs]]
    BY <1>1, SizeFacts
  <2>3. t.row = VGA_HEIGHT - 1
    BY <1>1, <1>2, SizeFacts DEF Rows
  <2> QED BY <1>2, <2>1, <2>2, <2>3, SizeFacts DEF Screen
<1>3. CASE t.row + 1 # VGA_HEIGHT
  <2>1. NextRow(t) = [cells |-> t.cells, row |-> t.row + 1, column |-> 0]
    BY <1>1, <1>3 DEF NextRow
  <2>2. t.row + 1 \in Rows
    BY <1>1, <1>3, SizeFacts DEF Rows
  <2> QED BY <1>1, <1>3, <2>1, <2>2, SizeFacts DEF Screen
<1> QED BY <1>2, <1>3

LEMMA MarkFacts ==
  ASSUME NEW t \in Screen, NEW x \in Cols, NEW c \in Glyphs
  PROVE  LET m == [t EXCEPT !.cells[t.row][x] = c]
         IN  /\ m \in Screen /\ m.row = t.row /\ m.column = t.column
             /\ m.cells[t.row][x] = c
             /\ \A y \in Rows, z \in Cols :
                  y # t.row \/ z # x => m.cells[y][z] = t.cells[y][z]
<1>1. /\ t.row \in Rows /\ t.column \in Cols /\ t.cells \in [Rows -> [Cols -> Glyphs]]
      /\ t = [cells |-> t.cells, row |-> t.row, column |-> t.column]
  BY DEF Screen
<1> DEFINE new == [t.cells EXCEPT ![t.row] = [@ EXCEPT ![x] = c]]
           m == [t EXCEPT !.cells[t.row][x] = c]
<1>2. m = [cells |-> new, row |-> t.row, column |-> t.column]
  <2>1. m = [t EXCEPT !.cells = new]
    OBVIOUS
  <2> HIDE DEF m, new
  <2> QED BY <1>1, <2>1
<1>3. new \in [Rows -> [Cols -> Glyphs]]
  BY <1>1
<1>4. /\ new[t.row][x] = c
      /\ \A y \in Rows, z \in Cols : y # t.row \/ z # x => new[y][z] = t.cells[y][z]
  BY <1>1
<1> HIDE DEF new
<1> QED BY <1>1, <1>2, <1>3, <1>4 DEF Screen

LEMMA BackFacts ==
  ASSUME NEW t \in Screen
  PROVE  /\ Back(t) \in Screen /\ Back(t).row = t.row
         /\ t.column = 0 => Back(t) = t
         /\ t.column # 0 =>
              /\ Back(t).column = t.column - 1
              /\ \A y \in Rows, z \in Cols :
                   y # t.row \/ z # t.column - 1 => Back(t).cells[y][z] = t.cells[y][z]
<1>1. /\ t.row \in Rows /\ t.column \in Cols /\ t.cells \in [Rows -> [Cols -> Glyphs]]
      /\ t = [cells |-> t.cells, row |-> t.row, column |-> t.column]
  BY DEF Screen
<1>2. CASE t.column = 0
  BY <1>2 DEF Back
<1>3. CASE t.column # 0
  <2> DEFINE m == [t EXCEPT !.cells[t.row][t.column - 1] = BLANK]
  <2>1. t.column > 0 /\ t.column - 1 \in Cols
    BY <1>1, <1>3, SizeFacts DEF Cols
  <2>2. /\ m \in Screen /\ m.row = t.row /\ m.column = t.column
        /\ \A y \in Rows, z \in Cols :
             y # t.row \/ z # t.column - 1 => m.cells[y][z] = t.cells[y][z]
    BY <2>1, SizeFacts, MarkFacts
  <2>3. Back(t) = [cells |-> m.cells, row |-> t.row, column |-> t.column - 1]
    BY <1>1, <2>1 DEF Back
  <2> HIDE DEF m
  <2> QED BY <1>1, <1>3, <2>1, <2>2, <2>3 DEF Screen
<1> QED BY <1>2, <1>3

(* A shown character and the place of the cursor after it.                 *)
LEMMA ShowFacts ==
  ASSUME NEW t \in Screen, NEW c \in Glyphs
  PROVE  /\ Show(t, c) \in Screen
         /\ t.column + 1 # VGA_WIDTH =>
              /\ Show(t, c).row = t.row /\ Show(t, c).column = t.column + 1
              /\ Show(t, c).cells[t.row][t.column] = c
              /\ \A y \in Rows, z \in Cols :
                   y # t.row \/ z # t.column => Show(t, c).cells[y][z] = t.cells[y][z]
         /\ t.column + 1 = VGA_WIDTH =>
              \E m \in Screen :
                /\ Show(t, c) = NextRow(m) /\ m.row = t.row
                /\ m.cells[t.row][t.column] = c
                /\ \A y \in Rows, z \in Cols :
                     y # t.row \/ z # t.column => m.cells[y][z] = t.cells[y][z]
<1> DEFINE m == [t EXCEPT !.cells[t.row][t.column] = c]
<1>1. t.column \in Cols
  BY DEF Screen
<1>2. /\ m \in Screen /\ m.row = t.row /\ m.column = t.column
      /\ m.cells[t.row][t.column] = c
      /\ \A y \in Rows, z \in Cols :
           y # t.row \/ z # t.column => m.cells[y][z] = t.cells[y][z]
  BY <1>1, MarkFacts
<1>3. CASE Wraps(t.column)
  <2>1. Show(t, c) = NextRow(m)
    BY <1>3 DEF Show
  <2> HIDE DEF m
  <2> QED BY <1>2, <1>3, <2>1, NextRowFacts DEF Wraps
<1>4. CASE ~Wraps(t.column)
  <2>1. Show(t, c) = [m EXCEPT !.column = @ + 1]
    BY <1>4 DEF Show
  <2>2. t.column + 1 \in Cols
    BY <1>1, <1>4, SizeFacts DEF Wraps, Cols
  <2> HIDE DEF m
  <2>3. Show(t, c) = [cells |-> m.cells, row |-> m.row, column |-> m.column + 1]
    BY <1>2, <2>1 DEF Screen
  <2> QED BY <1>2, <1>4, <2>2, <2>3 DEF Wraps, Screen
<1> QED BY <1>3, <1>4

LEMMA TabFacts ==
  ASSUME NEW t \in Screen
  PROVE  TabStop(t) \in Screen
<1> DEFINE stop == ((t.column + 4) \div 4) * 4
<1>1. stop \in Nat /\ t.column \in Cols
  BY SizeFacts DEF Screen, Cols
<1>2. CASE stop >= VGA_WIDTH
  BY <1>2, NextRowFacts DEF TabStop
<1>3. CASE ~(stop >= VGA_WIDTH)
  <2>1. stop \in Cols
    BY <1>1, <1>3, SizeFacts DEF Cols
  <2>2. TabStop(t) = [t EXCEPT !.column = stop]
    BY <1>3 DEF TabStop
  <2> HIDE DEF stop
  <2> QED BY <2>1, <2>2 DEF Screen
<1> QED BY <1>2, <1>3

LEMMA PutcharIs ==
  ASSUME NEW t
  PROVE  /\ Putchar(t, NL) = NextRow(t) /\ Putchar(t, BS) = Back(t)
         /\ Putchar(t, TAB) = TabStop(t)
         /\ \A c \in Glyphs : Putchar(t, c) = Show(t, c)
<1>1. NL # BS /\ NL # TAB /\ BS # TAB /\ \A c \in Glyphs : c # NL /\ c # BS /\ c # TAB
  BY ScreenAssumption
<1> QED BY <1>1 DEF Putchar

LEMMA PutcharTyped == \A t \in Screen, c \in Chars : Putchar(t, c) \in Screen
BY PutcharIs, NextRowFacts, BackFacts, TabFacts, ShowFacts DEF Chars

-----------------------------------------------------------------------------
(* terminal_writestring: one character after the other.                    *)

Turn(g, t, s, S) == IF S = {} THEN t ELSE Putchar(g[S \ {Max(S)}], s[Max(S)])
Fold(t, s) == CHOOSE g : g = [S \in SUBSET DOMAIN s |-> Turn(g, t, s, S)]

LEMMA Folds ==
  ASSUME NEW t \in Screen, NEW s \in Seq(Chars)
  PROVE  Fold(t, s) = [S \in SUBSET DOMAIN s |-> Turn(Fold(t, s), t, s, S)]
<1> DEFINE n == Len(s)
           f == [p \in Screen \X Chars |-> Putchar(p[1], p[2])]
<1>1. n \in Nat /\ DOMAIN s = 1 .. n /\ \A k \in 1 .. n : s[k] \in Chars
  OBVIOUS
<1>2. PICK g : IsFold(g, f, t, s, n)
  <2> HIDE DEF f
  <2> QED BY <1>1, FoldExists
<1>3. f \in [Screen \X Chars -> Screen]
  BY PutcharTyped
<1>4. \A S \in SUBSET (1 .. n) : g[S] \in Screen
  <2> HIDE DEF f, n
  <2> QED BY <1>1, <1>2, <1>3, FoldTyped
<1>5. ASSUME NEW S \in SUBSET (1 .. n)
      PROVE  Along(g, f, t, s, S) = Turn(g, t, s, S)
  <2>1. CASE S = {}
    BY <2>1 DEF Along, Turn
  <2>2. CASE S # {}
    <3>1. Max(S) \in S /\ S \ {Max(S)} \in SUBSET (1 .. n)
      <4>1. S \subseteq 0 .. n
        BY <1>1
      <4> QED BY <1>1, <2>2, <4>1, MaxFacts
    <3>2. g[S \ {Max(S)}] \in Screen /\ s[Max(S)] \in Chars
      BY <1>1, <1>4, <3>1
    <3> QED BY <2>2, <3>2 DEF Along, Turn
  <2> QED BY <2>1, <2>2
<1> HIDE DEF f
<1>6. g = [S \in SUBSET DOMAIN s |-> Turn(g, t, s, S)]
  BY <1>1, <1>2, <1>5 DEF IsFold
<1> QED BY <1>6, Zenon DEF Fold

(* The screens between the characters.                                     *)
LEMMA Written ==
  ASSUME NEW t \in Screen, NEW s \in Seq(Chars)
  PROVE  \E h : /\ h[0] = t /\ Writestring(t, s) = h[Len(s)]
                /\ \A k \in 1 .. Len(s) : h[k] = Putchar(h[k - 1], s[k])
<1> DEFINE g == Fold(t, s)
           n == Len(s)
           h == [k \in 0 .. n |-> g[1 .. k]]
<1>1. n \in Nat /\ DOMAIN s = 1 .. n
  OBVIOUS
<1>2. g = [S \in SUBSET (1 .. n) |-> Turn(g, t, s, S)]
  BY <1>1, Folds
<1>3. Writestring(t, s) = g[DOMAIN s]
  BY Zenon DEF Writestring, FoldLeft, MapThenFoldSet, Fold, Turn
<1> HIDE DEF g
<1>4. h[0] = t
  <2>1. 1 .. 0 = {} /\ 0 \in 0 .. n
    OBVIOUS
  <2>2. g[{}] = t
    BY <1>2 DEF Turn
  <2> QED BY <2>1, <2>2
<1>5. Writestring(t, s) = h[n]
  BY <1>1, <1>3
<1>6. ASSUME NEW k \in 1 .. n
      PROVE  h[k] = Putchar(h[k - 1], s[k])
  <2>1. /\ 1 .. k \in SUBSET (1 .. n) /\ 1 .. k # {}
        /\ Max(1 .. k) = k /\ (1 .. k) \ {k} = 1 .. k - 1
    BY <1>1, UpTo
  <2>2. g[1 .. k] = Turn(g, t, s, 1 .. k)
    BY <1>2, <2>1
  <2>3. g[1 .. k] = Putchar(g[1 .. k - 1], s[k])
    BY <2>1, <2>2 DEF Turn
  <2>4. k \in 0 .. n /\ k - 1 \in 0 .. n
    OBVIOUS
  <2> QED BY <2>3, <2>4
<1> HIDE DEF h
<1> QED BY <1>4, <1>5, <1>6

LEMMA WritestringType ==
  ASSUME NEW t \in Screen, NEW s \in Seq(Chars)
  PROVE  Writestring(t, s) \in Screen
<1>1. \A u \in Screen, c \in Chars : Putchar(u, c) \in Screen
  BY PutcharTyped
<1>2. PICK h : /\ h[0] = t /\ Writestring(t, s) = h[Len(s)]
               /\ \A k \in 1 .. Len(s) : h[k] = Putchar(h[k - 1], s[k])
  BY Written
<1> DEFINE T == {k \in Nat : h[k] \in Screen}
<1>3. 0 \in T
  BY <1>2
<1>4. ASSUME NEW k \in 0 .. Len(s) - 1, k \in T PROVE k + 1 \in T
  <2>1. k + 1 \in 1 .. Len(s) /\ k + 1 \in Nat /\ (k + 1) - 1 = k /\ h[k] \in Screen
    BY <1>4
  <2>2. s[k + 1] \in Chars /\ h[k + 1] = Putchar(h[k], s[k + 1])
    BY <1>2, <2>1
  <2> QED BY <1>1, <2>1, <2>2
<1>5. Len(s) \in Nat /\ Len(s) \in 0 .. Len(s)
  OBVIOUS
<1> HIDE DEF T
<1>6. \A k \in 0 .. Len(s) : k \in T
  BY <1>3, <1>4, <1>5, Counting
<1> QED BY <1>2, <1>5, <1>6 DEF T

-----------------------------------------------------------------------------
(* The screen as one line of cells, row after row.                         *)

At(t)      == t.row * VGA_WIDTH + t.column
Cell(t, p) == t.cells[p \div VGA_WIDTH][p % VGA_WIDTH]

LEMMA CellFacts ==
  ASSUME NEW p \in Nat
  PROVE  /\ p \div VGA_WIDTH \in Nat /\ p % VGA_WIDTH \in Cols
         /\ p = (p \div VGA_WIDTH) * VGA_WIDTH + (p % VGA_WIDTH)
  BY SizeFacts DEF Cols

(* A cell has one row and one column.                                      *)
LEMMA OneCell ==
  ASSUME NEW r \in Nat, NEW q \in Nat, NEW x \in Cols, NEW z \in Cols
  PROVE  /\ r * VGA_WIDTH \in Nat /\ (r + 1) * VGA_WIDTH = r * VGA_WIDTH + VGA_WIDTH
         /\ r < q => r * VGA_WIDTH + x < q * VGA_WIDTH + z
         /\ r * VGA_WIDTH + x = q * VGA_WIDTH + z => r = q /\ x = z
<1>1. \A a, b \in Nat : a < b => a * VGA_WIDTH + VGA_WIDTH <= b * VGA_WIDTH
  <2> TAKE a, b \in Nat
  <2> HAVE a < b
  <2>1. (b - (a + 1)) \in Nat /\ (b - (a + 1)) * VGA_WIDTH \in Nat
    BY SizeFacts
  <2>2. b * VGA_WIDTH = (a + 1) * VGA_WIDTH + (b - (a + 1)) * VGA_WIDTH
    BY SizeFacts
  <2> QED BY <2>1, <2>2, SizeFacts
<1>2. x \in Nat /\ z \in Nat /\ x < VGA_WIDTH /\ z < VGA_WIDTH
  BY SizeFacts DEF Cols
<1>3. /\ r * VGA_WIDTH \in Nat /\ q * VGA_WIDTH \in Nat
      /\ (r + 1) * VGA_WIDTH = r * VGA_WIDTH + VGA_WIDTH
  BY SizeFacts
<1>4. /\ r < q => r * VGA_WIDTH + VGA_WIDTH <= q * VGA_WIDTH
      /\ q < r => q * VGA_WIDTH + VGA_WIDTH <= r * VGA_WIDTH
  BY <1>1
<1> QED BY <1>2, <1>3, <1>4, SizeFacts

LEMMA CellAt ==
  ASSUME NEW r \in Nat, NEW x \in Cols
  PROVE  /\ (r * VGA_WIDTH + x) \div VGA_WIDTH = r
         /\ (r * VGA_WIDTH + x) % VGA_WIDTH = x
         /\ r * VGA_WIDTH + x \in Nat
<1> DEFINE p == r * VGA_WIDTH + x
<1>1. p \in Nat
  BY OneCell, SizeFacts DEF Cols
<1> HIDE DEF p
<1>2. /\ p \div VGA_WIDTH \in Nat /\ p % VGA_WIDTH \in Cols
      /\ p = (p \div VGA_WIDTH) * VGA_WIDTH + (p % VGA_WIDTH)
  BY <1>1, CellFacts
<1>3. p = r * VGA_WIDTH + x
  BY DEF p
<1>4. r = p \div VGA_WIDTH /\ x = p % VGA_WIDTH
  BY <1>2, <1>3, OneCell
<1> QED BY <1>1, <1>4 DEF p

(* One row further down.                                                   *)
LEMMA CellBelow ==
  ASSUME NEW p \in Nat
  PROVE  /\ (p + VGA_WIDTH) \div VGA_WIDTH = p \div VGA_WIDTH + 1
         /\ (p + VGA_WIDTH) % VGA_WIDTH = p % VGA_WIDTH
<1> DEFINE r == p \div VGA_WIDTH
           x == p % VGA_WIDTH
<1>1. r \in Nat /\ x \in Cols /\ p = r * VGA_WIDTH + x
  BY CellFacts
<1> HIDE DEF r, x
<1>2. p + VGA_WIDTH = (r + 1) * VGA_WIDTH + x
  BY <1>1, OneCell, SizeFacts DEF Cols
<1>3. r + 1 \in Nat
  BY <1>1
<1> QED BY <1>1, <1>2, <1>3, CellAt DEF r, x

LEMMA AtFacts ==
  ASSUME NEW t \in Screen
  PROVE  /\ t.row \in Nat /\ t.row \in Rows /\ t.row < VGA_HEIGHT
         /\ t.column \in Nat /\ t.column \in Cols
         /\ t.row * VGA_WIDTH \in Nat /\ At(t) \in Nat
         /\ At(t) \div VGA_WIDTH = t.row /\ At(t) % VGA_WIDTH = t.column
<1>1. /\ t.row \in Nat /\ t.row \in Rows /\ t.row < VGA_HEIGHT
      /\ t.column \in Nat /\ t.column \in Cols
  BY SizeFacts DEF Screen, Rows, Cols
<1>2. t.row * VGA_WIDTH \in Nat
  BY <1>1, OneCell
<1> QED BY <1>1, <1>2, CellAt DEF At

(* The cells before the cursor are on the screen, and none is the cursor's.*)
LEMMA CellBefore ==
  ASSUME NEW t \in Screen, NEW p \in Nat, p < At(t)
  PROVE  /\ p \div VGA_WIDTH \in Rows /\ p % VGA_WIDTH \in Cols
         /\ p \div VGA_WIDTH <= t.row
         /\ p \div VGA_WIDTH # t.row \/ p % VGA_WIDTH < t.column
<1>1. t.row \in Nat /\ t.row < VGA_HEIGHT /\ t.column \in Cols
  BY AtFacts
<1>2. /\ p \div VGA_WIDTH \in Nat /\ p % VGA_WIDTH \in Cols
      /\ p = (p \div VGA_WIDTH) * VGA_WIDTH + (p % VGA_WIDTH)
  BY CellFacts
<1>3. ~(t.row < p \div VGA_WIDTH)
  <2>1. SUFFICES ASSUME t.row < p \div VGA_WIDTH PROVE FALSE
    OBVIOUS
  <2>2. At(t) < p
    BY <1>1, <1>2, <2>1, OneCell DEF At
  <2>3. At(t) \in Nat
    BY <1>1, CellAt DEF At
  <2> QED BY <2>2, <2>3
<1>4. p \div VGA_WIDTH # t.row \/ p % VGA_WIDTH < t.column
  BY <1>1, <1>2, OneCell, SizeFacts, SMTT(30) DEF At, Cols
<1> QED BY <1>1, <1>2, <1>3, <1>4, SizeFacts DEF Rows

-----------------------------------------------------------------------------
(* What the line editor does to the cells before the cursor.               *)

(* A character goes where the cursor is; the cells before it stay, or move *)
(* up a row with the cursor.                                               *)
LEMMA ShowMoves ==
  ASSUME NEW t \in Screen, NEW c \in Glyphs
  PROVE  \E up \in {0, VGA_WIDTH} :
           /\ At(Show(t, c)) = At(t) + 1 - up
           /\ \A q \in 0 .. At(t) - up :
                Cell(Show(t, c), q) = IF q = At(t) - up THEN c ELSE Cell(t, q + up)
<1> DEFINE u == Show(t, c)
<1>1. /\ t.row \in Nat /\ t.row \in Rows /\ t.column \in Cols /\ At(t) \in Nat
      /\ t.row * VGA_WIDTH \in Nat /\ t.column \in Nat
      /\ At(t) \div VGA_WIDTH = t.row /\ At(t) % VGA_WIDTH = t.column
  BY AtFacts
<1>2. ASSUME NEW m, m.cells[t.row][t.column] = c,
             \A y \in Rows, z \in Cols :
               y # t.row \/ z # t.column => m.cells[y][z] = t.cells[y][z],
             NEW p \in 0 .. At(t)
      PROVE  Cell(m, p) = IF p = At(t) THEN c ELSE Cell(t, p)
  <2>1. CASE p = At(t)
    BY <1>1, <1>2, <2>1 DEF Cell
  <2>2. CASE p # At(t)
    <3>1. p \in Nat /\ p < At(t)
      BY <1>1, <2>2
    <3>2. /\ p \div VGA_WIDTH \in Rows /\ p % VGA_WIDTH \in Cols
          /\ p \div VGA_WIDTH # t.row \/ p % VGA_WIDTH # t.column
      BY <1>1, <3>1, CellBefore DEF Cols
    <3> QED BY <1>2, <2>2, <3>2 DEF Cell
  <2> QED BY <2>1, <2>2
<1>3. CASE t.column + 1 # VGA_WIDTH
  <2>1. /\ u.row = t.row /\ u.column = t.column + 1 /\ u.cells[t.row][t.column] = c
        /\ \A y \in Rows, z \in Cols :
             y # t.row \/ z # t.column => u.cells[y][z] = t.cells[y][z]
    BY <1>3, ShowFacts
  <2> HIDE DEF u
  <2>2. At(u) = At(t) + 1
    BY <1>1, <2>1 DEF At
  <2>3. \A q \in 0 .. At(t) : Cell(u, q) = IF q = At(t) THEN c ELSE Cell(t, q)
    BY <1>2, <2>1
  <2> QED BY <1>1, <2>2, <2>3 DEF u
<1>4. CASE t.column + 1 = VGA_WIDTH
  <2>1. PICK m \in Screen :
          /\ u = NextRow(m) /\ m.row = t.row /\ m.cells[t.row][t.column] = c
          /\ \A y \in Rows, z \in Cols :
               y # t.row \/ z # t.column => m.cells[y][z] = t.cells[y][z]
    BY <1>4, ShowFacts
  <2>2. \A p \in 0 .. At(t) : Cell(m, p) = IF p = At(t) THEN c ELSE Cell(t, p)
    BY <1>2, <2>1
  <2>3. At(t) + 1 = t.row * VGA_WIDTH + VGA_WIDTH
    BY <1>1, <1>4, SizeFacts DEF At
  <2> HIDE DEF u
  <2>4. CASE t.row + 1 # VGA_HEIGHT
    <3>1. u.row = t.row + 1 /\ u.column = 0 /\ u.cells = m.cells
      BY <2>1, <2>4, NextRowFacts
    <3>2. At(u) = (t.row + 1) * VGA_WIDTH + 0
      BY <3>1 DEF At
    <3>3. At(u) = At(t) + 1
      BY <1>1, <2>3, <3>2, OneCell, SizeFacts
    <3>4. \A q \in 0 .. At(t) : Cell(u, q) = Cell(m, q)
      BY <3>1 DEF Cell
    <3> QED BY <1>1, <2>2, <3>3, <3>4 DEF u
  <2>5. CASE t.row + 1 = VGA_HEIGHT
    <3>1. /\ u.row = t.row /\ u.column = 0
          /\ \A y \in Rows : y + 1 \in Rows => u.cells[y] = m.cells[y + 1]
      BY <2>1, <2>5, NextRowFacts
    <3>2. At(u) = At(t) + 1 - VGA_WIDTH
      BY <1>1, <2>3, <3>1, SizeFacts, SMTT(30) DEF At
    <3>3. ASSUME NEW q \in 0 .. At(t) - VGA_WIDTH
          PROVE  Cell(u, q) = IF q = At(t) - VGA_WIDTH THEN c ELSE Cell(t, q + VGA_WIDTH)
      <4>1. q \in Nat /\ q + VGA_WIDTH \in 0 .. At(t) /\ q + VGA_WIDTH \in Nat
        BY <1>1, SizeFacts
      <4>2. (q + VGA_WIDTH) \div VGA_WIDTH \in Rows
        BY <1>1, <4>1, CellBefore
      <4>3. /\ q \div VGA_WIDTH \in Nat
            /\ (q + VGA_WIDTH) \div VGA_WIDTH = q \div VGA_WIDTH + 1
            /\ (q + VGA_WIDTH) % VGA_WIDTH = q % VGA_WIDTH
        BY <4>1, CellBelow, CellFacts
      <4>4. q \div VGA_WIDTH \in Rows /\ q \div VGA_WIDTH + 1 \in Rows
        BY <4>2, <4>3, SizeFacts DEF Rows
      <4>5. Cell(u, q) = Cell(m, q + VGA_WIDTH)
        BY <3>1, <4>3, <4>4 DEF Cell
      <4>6. Cell(m, q + VGA_WIDTH)
              = IF q + VGA_WIDTH = At(t) THEN c ELSE Cell(t, q + VGA_WIDTH)
        BY <2>2, <4>1
      <4>7. CASE q = At(t) - VGA_WIDTH
        <5>1. q + VGA_WIDTH = At(t)
          BY <1>1, <4>7, SizeFacts
        <5> QED BY <4>5, <4>6, <4>7, <5>1
      <4>8. CASE q # At(t) - VGA_WIDTH
        <5>1. q + VGA_WIDTH # At(t)
          BY <1>1, <4>1, <4>8, SizeFacts
        <5> QED BY <4>5, <4>6, <4>8, <5>1
      <4> QED BY <4>7, <4>8
    <3> QED BY <3>2, <3>3 DEF u
  <2> QED BY <2>4, <2>5
<1> QED BY <1>3, <1>4

LEMMA RuboutSteps ==
  ASSUME NEW t \in Screen
  PROVE  Writestring(t, Rubout) = Back(Show(Back(t), BLANK))
<1>1. /\ Rubout \in Seq(Chars) /\ Len(Rubout) = 3
      /\ Rubout[1] = BS /\ Rubout[2] = BLANK /\ Rubout[3] = BS
  BY SizeFacts DEF Rubout, Chars
<1>2. PICK h : /\ h[0] = t /\ Writestring(t, Rubout) = h[Len(Rubout)]
               /\ \A k \in 1 .. Len(Rubout) : h[k] = Putchar(h[k - 1], Rubout[k])
  BY <1>1, Written
<1>3. h[1] = Putchar(h[0], BS) /\ h[2] = Putchar(h[1], BLANK) /\ h[3] = Putchar(h[2], BS)
  BY <1>1, <1>2
<1> QED BY <1>1, <1>2, <1>3, PutcharIs, SizeFacts, SMTT(30)

(* A rubout within the row takes the cell before the cursor.               *)
LEMMA RuboutMoves ==
  ASSUME NEW t \in Screen, t.column # 0
  PROVE  LET u == Writestring(t, Rubout)
         IN  /\ u.column = t.column - 1 /\ At(u) = At(t) - 1
             /\ \A q \in 0 .. At(t) - 2 : Cell(u, q) = Cell(t, q)
<1> DEFINE a == Back(t)
           b == Show(a, BLANK)
           u == Back(b)
           Same(v) == \A y \in Rows, z \in Cols :
                        y # t.row \/ z # t.column - 1 => v.cells[y][z] = t.cells[y][z]
<1>1. t.row \in Rows /\ t.column \in Cols /\ t.column - 1 \in Cols
  BY SizeFacts DEF Screen, Cols
<1>2. a \in Screen /\ a.row = t.row /\ a.column = t.column - 1 /\ Same(a)
  BY BackFacts
<1> HIDE DEF a
<1>3. b \in Screen /\ b.row = t.row /\ b.column = t.column /\ Same(b)
  <2>1. a.column + 1 # VGA_WIDTH /\ a.column + 1 = t.column
    BY <1>1, <1>2, SizeFacts DEF Cols
  <2> QED BY <1>2, <2>1, ShowFacts, SizeFacts, SMTT(30)
<1> HIDE DEF b
<1>4. u.row = t.row /\ u.column = t.column - 1 /\ Same(u)
  BY <1>3, BackFacts
<1>5. Writestring(t, Rubout) = u
  BY RuboutSteps DEF a, b
<1> HIDE DEF u
<1>6. /\ At(t) \in Nat /\ t.row * VGA_WIDTH \in Nat /\ t.column \in Nat
      /\ At(u) = At(t) - 1
  <2>1. /\ At(t) \in Nat /\ t.row * VGA_WIDTH \in Nat /\ t.column \in Nat
    BY AtFacts
  <2> QED BY <1>4, <2>1 DEF At
<1>7. ASSUME NEW q \in 0 .. At(t) - 2 PROVE Cell(u, q) = Cell(t, q)
  <2>1. q \in Nat /\ q < At(t) /\ q # At(t) - 1
    BY <1>6
  <2>2. /\ q \div VGA_WIDTH \in Rows /\ q % VGA_WIDTH \in Cols
        /\ q = (q \div VGA_WIDTH) * VGA_WIDTH + (q % VGA_WIDTH)
    BY <2>1, CellBefore, CellFacts
  <2>3. q \div VGA_WIDTH # t.row \/ q % VGA_WIDTH # t.column - 1
    BY <1>1, <1>6, <2>1, <2>2 DEF At, Cols
  <2> QED BY <1>4, <2>2, <2>3 DEF Cell
<1> QED BY <1>4, <1>5, <1>6, <1>7

(* At the start of a row it leaves the cursor there.                       *)
LEMMA RuboutStays ==
  ASSUME NEW t \in Screen, t.column = 0
  PROVE  Writestring(t, Rubout).column = 0
<1> DEFINE b == Show(t, BLANK)
<1>1. Back(t) = t
  BY BackFacts
<1>2. b \in Screen /\ b.column \in {0, 1}
  BY ShowFacts, NextRowFacts, SizeFacts
<1>3. Writestring(t, Rubout) = Back(b)
  BY <1>1, RuboutSteps
<1> HIDE DEF b
<1> QED BY <1>2, <1>3, BackFacts

-----------------------------------------------------------------------------
(* The line editor.                                                        *)

LEMMA ShownIs ==
  ASSUME NEW k
  PROVE  ShownAt(k) <=>
           (At(term) - k >= 0 =>
              Cell(term, At(term) - k) = command_buffer[Len(command_buffer) - k + 1])
  BY DEF ShownAt, Place, At, Cell

(* A typed character is shown; what was shown still is, one place further. *)
LEMMA TypeShows ==
  ASSUME TypeOK, NEW c \in Glyphs, Type(c)
  PROVE  /\ TypeOK' /\ term'.column \in {0, term.column + 1}
         /\ Len(command_buffer') = Len(command_buffer) + 1
         /\ \A k \in 1 .. Len(command_buffer') :
              (k = 1 \/ ShownAt(k - 1)) => ShownAt(k)'
<1> DEFINE n == Len(command_buffer)
<1>1. /\ term \in Screen /\ term' = Show(term, c)
      /\ command_buffer \in Seq(Glyphs) /\ n \in Nat /\ n < MAX_COMMAND_LENGTH - 1
      /\ command_buffer' = Append(command_buffer, c)
  BY PutcharIs DEF TypeOK, Type, Room
<1>2. /\ command_buffer' \in Seq(Glyphs) /\ Len(command_buffer') = n + 1
      /\ command_buffer'[n + 1] = c
      /\ \A i \in 1 .. n : command_buffer'[i] = command_buffer[i]
  BY <1>1
<1>3. term' \in Screen /\ term'.column \in {0, term.column + 1}
  BY <1>1, ShowFacts, NextRowFacts, SMTT(30)
<1>4. TypeOK'
  BY <1>1, <1>2, <1>3, ConsoleAssumption DEF TypeOK, Type
<1>5. PICK up \in {0, VGA_WIDTH} :
        /\ At(term') = At(term) + 1 - up
        /\ \A q \in 0 .. At(term) - up :
             Cell(term', q) = IF q = At(term) - up THEN c ELSE Cell(term, q + up)
  BY <1>1, ShowMoves
<1>6. At(term) \in Nat /\ up \in Nat
  BY <1>1, AtFacts, SizeFacts
<1>7. ASSUME NEW k \in 1 .. n + 1, k = 1 \/ ShownAt(k - 1), At(term') - k >= 0
      PROVE  Cell(term', At(term') - k) = command_buffer'[n + 1 - k + 1]
  <2>1. At(term') - k \in 0 .. At(term) - up
    BY <1>5, <1>6, <1>7
  <2>2. CASE k = 1
    <3>1. At(term') - k = At(term) - up /\ n + 1 - k + 1 = n + 1
      BY <1>1, <1>5, <1>6, <2>2
    <3> QED BY <1>2, <1>5, <2>1, <3>1
  <2>3. CASE k # 1
    <3>1. /\ At(term') - k # At(term) - up
          /\ At(term') - k + up = At(term) - (k - 1) /\ At(term) - (k - 1) >= 0
      <4>1. At(term') = At(term) + 1 - up /\ At(term') - k >= 0 /\ k \in Int
        BY <1>5, <1>7
      <4> QED BY <1>6, <2>3, <4>1
    <3>2. n + 1 - k + 1 = n - (k - 1) + 1 /\ n - (k - 1) + 1 \in 1 .. n
      <4>1. n \in Nat
        BY <1>1
      <4> HIDE DEF n
      <4> QED BY <2>3, <4>1
    <3>3. Cell(term', At(term') - k) = Cell(term, At(term) - (k - 1))
      BY <1>5, <2>1, <3>1
    <3>4. Cell(term, At(term) - (k - 1)) = command_buffer[n - (k - 1) + 1]
      BY <1>7, <2>3, <3>1, ShownIs, SMTT(30)
    <3> QED BY <1>2, <3>2, <3>3, <3>4
  <2> QED BY <2>2, <2>3
<1>8. ASSUME NEW k \in 1 .. n + 1, k = 1 \/ ShownAt(k - 1)
      PROVE  ShownAt(k)'
  BY <1>2, <1>7, <1>8 DEF ShownAt, Place, At, Cell
<1> QED BY <1>2, <1>3, <1>4, <1>8

(* A rubout takes the last character; what is left of the row stays.       *)
LEMMA BackspaceShows ==
  ASSUME TypeOK, Backspace
  PROVE  /\ TypeOK' /\ (strayed' <=> strayed \/ term.column = 0)
         /\ Len(command_buffer') = Len(command_buffer) - 1
         /\ term.column = 0 => term'.column = 0
         /\ term.column # 0 =>
              /\ term'.column = term.column - 1
              /\ \A k \in 1 .. Len(command_buffer') : ShownAt(k + 1) => ShownAt(k)'
<1> DEFINE n == Len(command_buffer)
<1>1. /\ term \in Screen /\ term' = Writestring(term, Rubout)
      /\ command_buffer \in Seq(Glyphs) /\ n \in Nat \ {0} /\ n < MAX_COMMAND_LENGTH
      /\ command_buffer' = SubSeq(command_buffer, 1, n - 1)
  BY EmptySeq DEF TypeOK, Backspace, Front
<1>2. /\ command_buffer' \in Seq(Glyphs) /\ Len(command_buffer') = n - 1
      /\ \A i \in 1 .. n - 1 : command_buffer'[i] = command_buffer[i]
  <2>1. \A i \in 1 .. n - 1 : command_buffer[i] \in Glyphs
    BY <1>1
  <2> HIDE DEF n
  <2>2. 1 \in Int /\ n - 1 \in Int /\ (n - 1) - 1 + 1 = n - 1
        /\ \A i \in Int : 1 + i - 1 = i
    BY <1>1
  <2>3. LET f == SubSeq(command_buffer, 1, n - 1)
        IN  /\ f \in Seq(Glyphs)
            /\ Len(f) = IF 1 <= n - 1 THEN n - 1 - 1 + 1 ELSE 0
            /\ \A i \in 1 .. n - 1 - 1 + 1 : f[i] = command_buffer[1 + i - 1]
    BY <2>1, <2>2, SubSeqProperties
  <2> QED BY <1>1, <2>2, <2>3
<1>3. term' \in Screen
  <2>1. Rubout \in Seq(Chars)
    BY SizeFacts DEF Rubout, Chars
  <2> QED BY <1>1, <2>1, WritestringType
<1>4. strayed' \in BOOLEAN /\ (strayed' <=> strayed \/ term.column = 0)
  BY Zenon DEF Backspace
<1>5. TypeOK'
  BY <1>1, <1>2, <1>3, <1>4, ConsoleAssumption DEF TypeOK
<1>6. CASE term.column = 0
  BY <1>1, <1>2, <1>4, <1>5, <1>6, RuboutStays
<1>7. CASE term.column # 0
  <2>1. /\ term'.column = term.column - 1 /\ At(term') = At(term) - 1
        /\ \A q \in 0 .. At(term) - 2 : Cell(term', q) = Cell(term, q)
    BY <1>1, <1>7, RuboutMoves
  <2>2. At(term) \in Nat
    BY <1>1, AtFacts
  <2>3. ASSUME NEW k \in 1 .. n - 1, ShownAt(k + 1), At(term') - k >= 0
        PROVE  Cell(term', At(term') - k) = command_buffer'[n - 1 - k + 1]
    <3>1. /\ At(term') - k = At(term) - (k + 1) /\ At(term) - (k + 1) >= 0
          /\ At(term) - (k + 1) \in 0 .. At(term) - 2
          /\ n - 1 - k + 1 = n - (k + 1) + 1 /\ n - (k + 1) + 1 \in 1 .. n - 1
      BY <1>1, <2>1, <2>2, <2>3
    <3>2. Cell(term, At(term) - (k + 1)) = command_buffer[n - (k + 1) + 1]
      BY <2>3, <3>1, ShownIs
    <3> QED BY <1>2, <2>1, <3>1, <3>2
  <2>4. ASSUME NEW k \in 1 .. n - 1, ShownAt(k + 1)
        PROVE  ShownAt(k)'
    BY <1>2, <2>3, <2>4 DEF ShownAt, Place, At, Cell
  <2> QED BY <1>2, <1>4, <1>5, <1>7, <2>1, <2>4
<1> QED BY <1>6, <1>7

LEMMA EnterStarts ==
  ASSUME TypeOK, Enter
  PROVE  TypeOK' /\ Len(command_buffer') = 0 /\ strayed' = FALSE
<1>1. PROMPT \in Seq(Chars) /\ \A out \in Outputs : <<NL>> \o out \o PROMPT \in Seq(Chars)
  <2>1. PROMPT \in Seq(Chars) /\ Outputs \subseteq Seq(Chars)
    BY ConsoleAssumption, SeqMonotonic DEF Chars
  <2>2. <<NL>> \in Seq(Chars)
    BY DEF Chars
  <2> QED BY <2>1, <2>2
<1>2. Cleared \in Screen /\ term \in Screen
  BY SizeFacts DEF Cleared, Screen, TypeOK
<1>3. term' \in Screen
  BY <1>1, <1>2, WritestringType DEF Enter
<1>4. command_buffer' = <<>> /\ strayed' = FALSE
  BY DEF Enter
<1>5. command_buffer' \in Seq(Glyphs) /\ Len(command_buffer') = 0
  BY <1>4
<1>6. 0 < MAX_COMMAND_LENGTH
  BY ConsoleAssumption
<1> QED BY <1>3, <1>4, <1>5, <1>6 DEF TypeOK

-----------------------------------------------------------------------------
(* What is shown.                                                          *)

ConsoleInv == TypeOK /\ LineShown /\ RowShown

LEMMA ConsoleStart == Init => ConsoleInv
<1>1. SUFFICES ASSUME Init PROVE ConsoleInv
  OBVIOUS
<1>2. Cleared \in Screen /\ PROMPT \in Seq(Chars)
  BY SizeFacts, ConsoleAssumption, SeqMonotonic DEF Cleared, Screen, Chars
<1>3. term \in Screen
  BY <1>1, <1>2, WritestringType DEF Init
<1>4. command_buffer = <<>> /\ strayed = FALSE
  BY <1>1 DEF Init
<1>5. command_buffer \in Seq(Glyphs) /\ Len(command_buffer) = 0
  BY <1>4
<1>6. 0 < MAX_COMMAND_LENGTH
  BY ConsoleAssumption
<1>7. TypeOK
  BY <1>3, <1>4, <1>5, <1>6 DEF TypeOK
<1>8. LineShown /\ RowShown
  BY <1>4, <1>5 DEF LineShown, RowShown
<1> QED BY <1>7, <1>8 DEF ConsoleInv

LEMMA ConsoleStep == ConsoleInv /\ [Next]_vars => ConsoleInv'
<1>1. SUFFICES ASSUME TypeOK, LineShown, RowShown, [Next]_vars PROVE ConsoleInv'
  BY DEF ConsoleInv
<1> DEFINE n == Len(command_buffer)
<1>2. n \in Nat /\ term.column \in Nat /\ strayed \in BOOLEAN
  BY <1>1, AtFacts DEF TypeOK
<1>3. ASSUME NEW c \in Glyphs, Type(c) PROVE ConsoleInv'
  <2>1. /\ TypeOK' /\ term'.column \in {0, term.column + 1}
        /\ Len(command_buffer') = n + 1
        /\ \A k \in 1 .. n + 1 : (k = 1 \/ ShownAt(k - 1)) => ShownAt(k)'
    BY <1>1, <1>3, TypeShows
  <2>2. strayed' = strayed
    BY <1>3 DEF Type
  <2>3. LineShown'
    <3>1. ASSUME ~strayed, NEW k \in 1 .. n + 1 PROVE ShownAt(k)'
      <4>1. k = 1 \/ k - 1 \in 1 .. n
        BY <1>2
      <4> QED BY <1>1, <2>1, <3>1, <4>1 DEF LineShown
    <3> QED BY <2>1, <2>2, <3>1 DEF LineShown
  <2>4. RowShown'
    <3>1. ASSUME NEW k \in 1 .. n + 1, k <= term'.column PROVE ShownAt(k)'
      <4>1. k = 1 \/ (k - 1 \in 1 .. n /\ k - 1 <= term.column)
        BY <1>2, <2>1, <3>1
      <4> QED BY <1>1, <2>1, <4>1 DEF RowShown
    <3>2. strayed => term'.column <= n + 1
      BY <1>1, <1>2, <2>1 DEF RowShown
    <3> QED BY <2>1, <2>2, <3>1, <3>2 DEF RowShown
  <2> QED BY <2>1, <2>3, <2>4 DEF ConsoleInv
<1>4. CASE Backspace
  <2>1. /\ TypeOK' /\ (strayed' <=> strayed \/ term.column = 0)
        /\ Len(command_buffer') = n - 1
        /\ term.column = 0 => term'.column = 0
        /\ term.column # 0 =>
             /\ term'.column = term.column - 1
             /\ \A k \in 1 .. n - 1 : ShownAt(k + 1) => ShownAt(k)'
    BY <1>1, <1>4, BackspaceShows
  <2>2. n - 1 \in Nat
    BY <2>1 DEF TypeOK
  <2>3. LineShown'
    <3>1. ASSUME ~strayed', NEW k \in 1 .. n - 1 PROVE ShownAt(k)'
      <4>1. ~strayed /\ term.column # 0 /\ k + 1 \in 1 .. n
        BY <1>2, <2>1, <3>1
      <4> QED BY <1>1, <2>1, <4>1 DEF LineShown
    <3> QED BY <2>1, <3>1 DEF LineShown
  <2>4. RowShown'
    <3>1. ASSUME NEW k \in 1 .. n - 1, k <= term'.column PROVE ShownAt(k)'
      <4>1. term.column # 0 /\ k + 1 \in 1 .. n /\ k + 1 <= term.column
        BY <1>2, <2>1, <3>1
      <4> QED BY <1>1, <2>1, <4>1 DEF RowShown
    <3>2. strayed' => term'.column <= n - 1
      BY <1>1, <1>2, <2>1, <2>2 DEF RowShown
    <3> QED BY <2>1, <3>1, <3>2 DEF RowShown
  <2> QED BY <2>1, <2>3, <2>4 DEF ConsoleInv
<1>5. CASE Enter
  BY <1>1, <1>5, EnterStarts DEF ConsoleInv, LineShown, RowShown
<1>6. CASE UNCHANGED vars
  BY <1>1, <1>6 DEF ConsoleInv, TypeOK, LineShown, RowShown, ShownAt, Place, vars
<1> QED BY <1>1, <1>3, <1>4, <1>5, <1>6 DEF Next

(* The three invariants of the editor hold together: each needs the others *)
(* to survive a step.                                                      *)
THEOREM ConsoleCorrect == Spec => []ConsoleInv
<1>1. Init => ConsoleInv
  BY ConsoleStart
<1>2. ConsoleInv /\ [Next]_vars => ConsoleInv'
  BY ConsoleStep
<1> QED BY <1>1, <1>2, PTL DEF Spec

(* The cursor stays on the screen and the terminator fits in the buffer.   *)
THEOREM TypeCorrect == Spec => []TypeOK
<1>1. ConsoleInv => TypeOK
  BY DEF ConsoleInv
<1> QED BY <1>1, ConsoleCorrect, PTL

(* What is shown between the prompt and the cursor is what Enter executes, *)
(* unless something was erased across the start of a row.                  *)
THEOREM LineCorrect == Spec => []LineShown
<1>1. ConsoleInv => LineShown
  BY DEF ConsoleInv
<1> QED BY <1>1, ConsoleCorrect, PTL

(* The cursor's row shows the end of the buffer, whatever was erased.      *)
THEOREM RowCorrect == Spec => []RowShown
<1>1. ConsoleInv => RowShown
  BY DEF ConsoleInv
<1> QED BY <1>1, ConsoleCorrect, PTL

-----------------------------------------------------------------------------
(* The words of a write line.                                              *)

(* String s is i blanks and then r, which does not begin with a blank.     *)
Leaves(s, i, r) ==
  /\ i \in Nat /\ r \in Seq(Glyphs) /\ Len(s) = i + Len(r)
  /\ \A k \in 1 .. i : s[k] = BLANK
  /\ \A k \in 1 .. Len(r) : s[i + k] = r[k]
  /\ r # <<>> => r[1] # BLANK

LEMMA TrimmedFacts ==
  ASSUME NEW s \in Seq(Glyphs)
  PROVE  \E i : Leaves(s, i, Trimmed(s))
<1> DEFINE n == Len(s)
           shown == {k \in DOMAIN s : s[k] # BLANK}
           m == Min(shown)
<1>1. n \in Nat /\ DOMAIN s = 1 .. n /\ \A k \in 1 .. n : s[k] \in Glyphs
  OBVIOUS
<1>2. CASE shown = {}
  <2>1. Trimmed(s) = <<>>
    BY <1>2 DEF Trimmed
  <2>2. \A k \in 1 .. n : s[k] = BLANK
    BY <1>1, <1>2
  <2>3. /\ Len(<<>>) = 0 /\ <<>> \in Seq(Glyphs) /\ n = n + 0
        /\ \A k \in 1 .. Len(<<>>) : FALSE
    BY <1>1
  <2>4. Leaves(s, n, <<>>)
    BY <1>1, <2>2, <2>3 DEF Leaves
  <2> QED BY <2>1, <2>4
<1>3. CASE shown # {}
  <2>1. Trimmed(s) = SubSeq(s, m, n)
    BY <1>3 DEF Trimmed
  <2>2. m \in shown /\ \A k \in shown : m <= k
    <3>1. shown \subseteq Nat
      BY <1>1
    <3> HIDE DEF shown
    <3> QED BY <1>3, <3>1, MinFacts
  <2>3. m \in 1 .. n /\ s[m] # BLANK /\ \A k \in 1 .. n : s[k] # BLANK => m <= k
    BY <1>1, <2>2
  <2> HIDE DEF m, n, shown
  <2>4. \A k \in m .. n : s[k] \in Glyphs
    BY <1>1, <2>3
  <2>5. /\ SubSeq(s, m, n) \in Seq(Glyphs)
        /\ Len(SubSeq(s, m, n)) = n - m + 1
        /\ \A k \in 1 .. n - m + 1 : SubSeq(s, m, n)[k] = s[m + k - 1]
    BY <1>1, <2>3, <2>4, SubSeqProperties
  <2>6. m - 1 \in Nat /\ n = (m - 1) + (n - m + 1) /\ 1 \in 1 .. n - m + 1 /\ m + 1 - 1 = m
    BY <1>1, <2>3
  <2>7. \A k \in 1 .. m - 1 : s[k] = BLANK
    BY <1>1, <2>3
  <2>8. ASSUME NEW k \in 1 .. n - m + 1 PROVE SubSeq(s, m, n)[k] = s[(m - 1) + k]
    <3>1. m + k - 1 = (m - 1) + k
      BY <2>3
    <3> QED BY <2>5, <3>1
  <2>9. SubSeq(s, m, n)[1] # BLANK
    BY <2>3, <2>5, <2>6
  <2>10. Leaves(s, m - 1, SubSeq(s, m, n))
    BY <2>5, <2>6, <2>7, <2>8, <2>9 DEF Leaves, n
  <2> QED BY <2>1, <2>10
<1> QED BY <1>2, <1>3

(* String s is four strings one after the other.                           *)
Joins(s, a, b, c, d) ==
  /\ Len(s) = Len(a) + Len(b) + Len(c) + Len(d)
  /\ \A k \in 1 .. Len(a) : s[k] = a[k]
  /\ \A k \in 1 .. Len(b) : s[Len(a) + k] = b[k]
  /\ \A k \in 1 .. Len(c) : s[Len(a) + Len(b) + k] = c[k]
  /\ \A k \in 1 .. Len(d) : s[Len(a) + Len(b) + Len(c) + k] = d[k]

LEMMA FourParts ==
  ASSUME NEW S, NEW a \in Seq(S), NEW b \in Seq(S), NEW c \in Seq(S), NEW d \in Seq(S),
         NEW s \in Seq(S)
  PROVE  s = a \o b \o c \o d <=> Joins(s, a, b, c, d)
<1> DEFINE u == a \o b \o c \o d
           i == Len(a)  j == Len(a) + Len(b)  l == Len(a) + Len(b) + Len(c)
<1>1. /\ Len(a) \in Nat /\ Len(b) \in Nat /\ Len(c) \in Nat /\ Len(d) \in Nat
      /\ Len(s) \in Nat
  OBVIOUS
<1>2. /\ a \o b \in Seq(S) /\ Len(a \o b) = j
      /\ \A k \in 1 .. i : (a \o b)[k] = a[k]
      /\ \A k \in 1 .. Len(b) : (a \o b)[i + k] = b[k]
  BY <1>1
<1>3. /\ a \o b \o c \in Seq(S) /\ Len(a \o b \o c) = l
      /\ \A k \in 1 .. j : (a \o b \o c)[k] = (a \o b)[k]
      /\ \A k \in 1 .. Len(c) : (a \o b \o c)[j + k] = c[k]
  BY <1>1, <1>2
<1>4. /\ u \in Seq(S) /\ Len(u) = l + Len(d)
      /\ \A k \in 1 .. l : u[k] = (a \o b \o c)[k]
      /\ \A k \in 1 .. Len(d) : u[l + k] = d[k]
  BY <1>1, <1>3
<1> HIDE DEF u
<1>5. /\ \A k \in 1 .. Len(a) : u[k] = a[k]
      /\ \A k \in 1 .. Len(b) : u[i + k] = b[k]
      /\ \A k \in 1 .. Len(c) : u[j + k] = c[k]
      /\ \A k \in 1 .. Len(d) : u[l + k] = d[k]
  <2>1. \A k \in 1 .. Len(a) : k \in 1 .. i /\ k \in 1 .. j /\ k \in 1 .. l
    BY <1>1
  <2>2. \A k \in 1 .. Len(b) : i + k \in 1 .. j /\ i + k \in 1 .. l
    BY <1>1
  <2>3. \A k \in 1 .. Len(c) : j + k \in 1 .. l
    BY <1>1
  <2> HIDE DEF i, j, l
  <2> QED BY <1>2, <1>3, <1>4, <2>1, <2>2, <2>3
<1>6. ASSUME Len(s) = Len(u),
             \A k \in 1 .. Len(a) : s[k] = a[k],
             \A k \in 1 .. Len(b) : s[i + k] = b[k],
             \A k \in 1 .. Len(c) : s[j + k] = c[k],
             \A k \in 1 .. Len(d) : s[l + k] = d[k]
      PROVE  s = u
  <2>1. ASSUME NEW k \in 1 .. Len(s) PROVE s[k] = u[k]
    <3>1. CASE k <= i
      BY <1>1, <1>5, <1>6, <3>1
    <3>2. CASE i < k /\ k <= j
      <4>1. k - i \in 1 .. Len(b) /\ i + (k - i) = k
        BY <1>1, <3>2
      <4> HIDE DEF i, j, l
      <4>2. /\ s[i + (k - i)] = b[k - i]
            /\ u[i + (k - i)] = b[k - i]
        BY <1>5, <1>6, <4>1
      <4> QED BY <4>1, <4>2
    <3>3. CASE j < k /\ k <= l
      <4>1. k - j \in 1 .. Len(c) /\ j + (k - j) = k
        BY <1>1, <3>3
      <4> HIDE DEF i, j, l
      <4>2. /\ s[j + (k - j)] = c[k - j]
            /\ u[j + (k - j)] = c[k - j]
        BY <1>5, <1>6, <4>1
      <4> QED BY <4>1, <4>2
    <3>4. CASE l < k
      <4>1. k - l \in 1 .. Len(d) /\ l + (k - l) = k
        BY <1>1, <1>4, <1>6, <3>4
      <4> HIDE DEF i, j, l
      <4>2. /\ s[l + (k - l)] = d[k - l]
            /\ u[l + (k - l)] = d[k - l]
        BY <1>5, <1>6, <4>1
      <4> QED BY <4>1, <4>2
    <3> QED BY <1>1, <3>1, <3>2, <3>3, <3>4
  <2> QED BY <1>4, <1>6, <2>1, SeqEqual
<1> QED BY <1>4, <1>5, <1>6 DEF u, Joins

(* The name ends in a blank, at the end or where its buffer is full.       *)
LEMMA EndFacts ==
  ASSUME NEW s \in Seq(Glyphs), s # <<>>, s[1] # BLANK, NEW end, end = Min(NameEnds(s))
  PROVE  /\ end \in 1 .. Len(s) /\ end <= MAX_FILENAME - 1
         /\ \A k \in 1 .. end : s[k] # BLANK
         /\ end = Len(s) \/ end = MAX_FILENAME - 1 \/ s[end + 1] = BLANK
         /\ \A e \in NameEnds(s) : end <= e
<1>1. Len(s) \in Nat \ {0}
  BY EmptySeq
<1>2. MAX_FILENAME \in Nat /\ MAX_FILENAME > 1
  BY ConsoleAssumption
<1>3. \A e : e \in NameEnds(s) <=>
           /\ e \in 0 .. Len(s)
           /\ e = Len(s) \/ e = MAX_FILENAME - 1 \/ s[e + 1] = BLANK
  BY DEF NameEnds
<1>4. end \in NameEnds(s) /\ \A e \in NameEnds(s) : end <= e
  <2>1. NameEnds(s) \subseteq Nat /\ Len(s) \in NameEnds(s)
    BY <1>1, <1>3
  <2> QED BY <2>1, MinFacts
<1>5. end # 0
  BY <1>1, <1>2, <1>3, <1>4
<1>6. end <= MAX_FILENAME - 1
  BY <1>1, <1>2, <1>3, <1>4
<1>7. ASSUME NEW k \in 1 .. end PROVE s[k] # BLANK
  <2>1. k - 1 \in 0 .. Len(s) /\ (k - 1) + 1 = k /\ ~(end <= k - 1)
    BY <1>1, <1>3, <1>4
  <2> QED BY <1>3, <1>4, <2>1
<1> QED BY <1>1, <1>3, <1>4, <1>5, <1>6, <1>7

LEMMA RestFacts ==
  ASSUME NEW s \in Seq(Glyphs), NEW e \in 0 .. Len(s)
  PROVE  /\ SubSeq(s, 1, e) \in Seq(Glyphs) /\ Len(SubSeq(s, 1, e)) = e
         /\ \A k \in 1 .. e : SubSeq(s, 1, e)[k] = s[k]
         /\ SubSeq(s, e + 1, Len(s)) \in Seq(Glyphs)
         /\ Len(SubSeq(s, e + 1, Len(s))) = Len(s) - e
         /\ \A k \in 1 .. Len(s) - e : SubSeq(s, e + 1, Len(s))[k] = s[e + k]
<1>1. Len(s) \in Nat /\ e \in Nat /\ \A k \in 1 .. Len(s) : s[k] \in Glyphs
  OBVIOUS
<1> DEFINE n == Len(s)
           f == SubSeq(s, 1, e)
           g == SubSeq(s, e + 1, n)
<1>2. (\A k \in 1 .. e : s[k] \in Glyphs) /\ \A k \in e + 1 .. n : s[k] \in Glyphs
  BY <1>1
<1>3. 1 \in Int /\ e \in Int /\ e + 1 \in Int /\ n \in Int
  BY <1>1
<1>4. /\ f \in Seq(Glyphs) /\ Len(f) = IF 1 <= e THEN e - 1 + 1 ELSE 0
      /\ \A k \in 1 .. e - 1 + 1 : f[k] = s[1 + k - 1]
  BY <1>2, <1>3, SubSeqProperties
<1>5. /\ g \in Seq(Glyphs) /\ Len(g) = IF e + 1 <= n THEN n - (e + 1) + 1 ELSE 0
      /\ \A k \in 1 .. n - (e + 1) + 1 : g[k] = s[(e + 1) + k - 1]
  <2> HIDE DEF n
  <2> QED BY <1>2, <1>3, SubSeqProperties
<1>6. e <= n
  BY <1>1
<1> HIDE DEF f, g, n
<1>7. ASSUME NEW k \in 1 .. e PROVE f[k] = s[k]
  <2>1. k \in 1 .. e - 1 + 1 /\ 1 + k - 1 = k
    BY <1>3
  <2> QED BY <1>4, <2>1
<1>8. ASSUME NEW k \in 1 .. n - e PROVE g[k] = s[e + k]
  <2>1. k \in 1 .. n - (e + 1) + 1 /\ (e + 1) + k - 1 = e + k
    BY <1>3
  <2> QED BY <1>5, <2>1
<1>9. Len(f) = e /\ Len(g) = n - e
  BY <1>1, <1>3, <1>4, <1>5, <1>6
<1> QED BY <1>4, <1>5, <1>7, <1>8, <1>9 DEF f, g, n

Blanks(n) == [k \in 1 .. n |-> BLANK]

(* What Reads asks for, character by character.                            *)
Spells(args, i, name, j, text) ==
  /\ Len(args) = i + Len(name) + j + Len(text)
  /\ \A k \in 1 .. i : args[k] = BLANK
  /\ \A k \in 1 .. Len(name) : args[i + k] = name[k]
  /\ \A k \in 1 .. j : args[i + Len(name) + k] = BLANK
  /\ \A k \in 1 .. Len(text) : args[i + Len(name) + j + k] = text[k]

LEMMA ReadsIs ==
  ASSUME NEW args \in Seq(Glyphs), NEW i \in Nat, NEW j \in Nat,
         NEW name \in Seq(Glyphs), NEW text \in Seq(Glyphs)
  PROVE  args = Blanks(i) \o name \o Blanks(j) \o text
           <=> Spells(args, i, name, j, text)
<1>1. /\ Blanks(i) \in Seq(Glyphs) /\ Len(Blanks(i)) = i
      /\ Blanks(j) \in Seq(Glyphs) /\ Len(Blanks(j)) = j
  BY SizeFacts DEF Blanks
<1>2. (\A k \in 1 .. i : Blanks(i)[k] = BLANK) /\ \A k \in 1 .. j : Blanks(j)[k] = BLANK
  BY DEF Blanks
<1>3. args = Blanks(i) \o name \o Blanks(j) \o text
        <=> Joins(args, Blanks(i), name, Blanks(j), text)
  BY <1>1, FourParts
<1> QED BY <1>1, <1>2, <1>3 DEF Joins, Spells

-----------------------------------------------------------------------------
(* cmd_write, taken apart.                                                 *)

WriteName(args) ==
  SubSeq(Trimmed(args), 1, Min(NameEnds(Trimmed(args))))
WriteText(args) ==
  Trimmed(SubSeq(Trimmed(args), Min(NameEnds(Trimmed(args))) + 1, Len(Trimmed(args))))

LEMMA WriteIs ==
  ASSUME NEW args
  PROVE  IF Trimmed(args) # <<>> /\ WriteText(args) # <<>>
         THEN cmd_write(args) =
                [kind |-> "create", name |-> WriteName(args), text |-> WriteText(args)]
         ELSE cmd_write(args).kind # "create"
<1>1. CASE Trimmed(args) = <<>>
  BY <1>1 DEF cmd_write, Nothing
<1>2. CASE Trimmed(args) # <<>> /\ WriteText(args) = <<>>
  BY <1>2 DEF cmd_write, WriteText, Nothing
<1>3. CASE Trimmed(args) # <<>> /\ WriteText(args) # <<>>
  BY <1>3 DEF cmd_write, WriteText, WriteName
<1> QED BY <1>1, <1>2, <1>3

(* The pieces of a line of more than blanks: i blanks, a name that ends at *)
(* e, j blanks, the text.                                                  *)
LEMMA WritePieces ==
  ASSUME NEW args \in Seq(Glyphs), Trimmed(args) # <<>>
  PROVE  \E i, j \in Nat :
           LET s    == Trimmed(args)
               e    == Min(NameEnds(s))
               rest == SubSeq(s, e + 1, Len(s))
           IN  /\ Leaves(args, i, s) /\ Leaves(rest, j, WriteText(args))
               /\ e \in 1 .. Len(s) /\ e <= MAX_FILENAME - 1
               /\ \A k \in 1 .. e : s[k] # BLANK
               /\ e = Len(s) \/ e = MAX_FILENAME - 1 \/ s[e + 1] = BLANK
               /\ \A x \in NameEnds(s) : e <= x
               /\ WriteName(args) \in Seq(Glyphs) /\ Len(WriteName(args)) = e
               /\ \A k \in 1 .. e : WriteName(args)[k] = s[k]
               /\ rest \in Seq(Glyphs) /\ Len(rest) = Len(s) - e
               /\ \A k \in 1 .. Len(s) - e : rest[k] = s[e + k]
<1> DEFINE s    == Trimmed(args)
           e    == Min(NameEnds(s))
           rest == SubSeq(s, e + 1, Len(s))
<1>1. PICK i : Leaves(args, i, s)
  BY TrimmedFacts
<1>2. i \in Nat /\ s \in Seq(Glyphs) /\ s[1] # BLANK
  BY <1>1 DEF Leaves
<1>3. /\ e \in 1 .. Len(s) /\ e <= MAX_FILENAME - 1
      /\ \A k \in 1 .. e : s[k] # BLANK
      /\ e = Len(s) \/ e = MAX_FILENAME - 1 \/ s[e + 1] = BLANK
      /\ \A x \in NameEnds(s) : e <= x
  BY <1>2, EndFacts
<1>4. /\ WriteName(args) \in Seq(Glyphs) /\ Len(WriteName(args)) = e
      /\ \A k \in 1 .. e : WriteName(args)[k] = s[k]
      /\ rest \in Seq(Glyphs) /\ Len(rest) = Len(s) - e
      /\ \A k \in 1 .. Len(s) - e : rest[k] = s[e + k]
  <2>1. e \in 0 .. Len(s)
    BY <1>3
  <2> HIDE DEF e, s
  <2>2. WriteName(args) = SubSeq(s, 1, e)
    BY DEF WriteName, e, s
  <2>3. /\ WriteName(args) \in Seq(Glyphs) /\ Len(WriteName(args)) = e
        /\ \A k \in 1 .. e : WriteName(args)[k] = s[k]
    BY <1>2, <2>1, <2>2, RestFacts
  <2>4. /\ rest \in Seq(Glyphs) /\ Len(rest) = Len(s) - e
        /\ \A k \in 1 .. Len(s) - e : rest[k] = s[e + k]
    BY <1>2, <2>1, RestFacts
  <2> QED BY <2>3, <2>4
<1>5. PICK j : Leaves(rest, j, WriteText(args))
  BY <1>4, TrimmedFacts DEF WriteText
<1>6. j \in Nat
  BY <1>5 DEF Leaves
<1> QED BY <1>1, <1>2, <1>3, <1>4, <1>5, <1>6

(* What is asked for can be read off the line as it was typed.             *)
LEMMA WriteRead ==
  ASSUME NEW args \in Seq(Glyphs), Trimmed(args) # <<>>, WriteText(args) # <<>>
  PROVE  /\ IsName(WriteName(args)) /\ IsText(WriteText(args))
         /\ Reads(args, WriteName(args), WriteText(args))
<1> DEFINE s    == Trimmed(args)
           e    == Min(NameEnds(s))
           rest == SubSeq(s, e + 1, Len(s))
           name == WriteName(args)
           text == WriteText(args)
<1>1. PICK i, j \in Nat :
        /\ Leaves(args, i, s) /\ Leaves(rest, j, text)
        /\ e \in 1 .. Len(s) /\ e <= MAX_FILENAME - 1
        /\ \A k \in 1 .. e : s[k] # BLANK
        /\ e = Len(s) \/ e = MAX_FILENAME - 1 \/ s[e + 1] = BLANK
        /\ name \in Seq(Glyphs) /\ Len(name) = e
        /\ \A k \in 1 .. e : name[k] = s[k]
        /\ rest \in Seq(Glyphs) /\ Len(rest) = Len(s) - e
        /\ \A k \in 1 .. Len(s) - e : rest[k] = s[e + k]
  BY WritePieces
<1> HIDE DEF s, e, rest, name, text
<1>2. /\ s \in Seq(Glyphs) /\ text \in Seq(Glyphs) /\ text[1] # BLANK
      /\ Len(s) \in Nat /\ Len(text) \in Nat \ {0} /\ e \in Nat
  BY <1>1, EmptySeq DEF Leaves, text
<1>3. /\ Len(args) = i + Len(s) /\ Len(s) - e = j + Len(text) /\ Len(name) = e
      /\ i \in Nat /\ j \in Nat /\ e \in Nat /\ Len(s) \in Nat /\ Len(text) \in Nat
  BY <1>1, <1>2 DEF Leaves
<1>4. IsName(name)
  <2>1. e \in 1 .. MAX_FILENAME - 1
    BY <1>1, <1>2, ConsoleAssumption
  <2>2. \A k \in DOMAIN name : name[k] # BLANK
    BY <1>1
  <2> QED BY <1>1, <2>1, <2>2 DEF IsName, Range
<1>5. IsText(text)
  BY <1>2 DEF IsText, text
<1>6. /\ \A k \in 1 .. i : args[k] = BLANK
      /\ \A k \in 1 .. Len(s) : args[i + k] = s[k]
      /\ \A k \in 1 .. j : rest[k] = BLANK
      /\ \A k \in 1 .. Len(text) : rest[j + k] = text[k]
  BY <1>1 DEF Leaves
<1>7. /\ \A k \in 1 .. e : name[k] = s[k]
      /\ \A k \in 1 .. Len(s) - e : rest[k] = s[e + k]
  BY <1>1
<1>8. Len(args) = i + Len(name) + j + Len(text)
  BY <1>3
<1>9. ASSUME NEW k \in 1 .. Len(name) PROVE args[i + k] = name[k]
  <2>1. k \in 1 .. e /\ k \in 1 .. Len(s)
    BY <1>3
  <2> QED BY <1>6, <1>7, <2>1
<1>10. ASSUME NEW k \in 1 .. j PROVE args[i + Len(name) + k] = BLANK
  <2>1. /\ k \in 1 .. Len(s) - e /\ e + k \in 1 .. Len(s)
        /\ i + Len(name) + k = i + (e + k)
    BY <1>3
  <2>2. args[i + (e + k)] = s[e + k] /\ s[e + k] = rest[k] /\ rest[k] = BLANK
    BY <1>6, <1>7, <2>1
  <2> QED BY <2>1, <2>2
<1>11. ASSUME NEW k \in 1 .. Len(text) PROVE args[i + Len(name) + j + k] = text[k]
  <2>1. /\ j + k \in 1 .. Len(s) - e /\ e + (j + k) \in 1 .. Len(s)
        /\ i + Len(name) + j + k = i + (e + (j + k))
    BY <1>3
  <2>2. /\ args[i + (e + (j + k))] = s[e + (j + k)] /\ s[e + (j + k)] = rest[j + k]
        /\ rest[j + k] = text[k]
    BY <1>6, <1>7, <2>1
  <2> QED BY <2>1, <2>2
<1>12. args = Blanks(i) \o name \o Blanks(j) \o text
  <2>1. Spells(args, i, name, j, text)
    BY <1>6, <1>8, <1>9, <1>10, <1>11 DEF Spells
  <2>2. name \in Seq(Glyphs) /\ text \in Seq(Glyphs)
    BY <1>1, <1>2
  <2>3. args = Blanks(i) \o name \o Blanks(j) \o text <=> Spells(args, i, name, j, text)
    <3> HIDE DEF Spells
    <3> QED BY <2>2, ReadsIs
  <2> QED BY <2>1, <2>3
<1>13. j > 0 \/ Len(name) = MAX_FILENAME - 1
  <2>1. SUFFICES ASSUME j = 0 PROVE e = MAX_FILENAME - 1
    BY <1>3
  <2>2. rest[1] # BLANK /\ 1 \in 1 .. Len(s) - e
    <3>1. 1 \in 1 .. Len(text) /\ j + 1 = 1
      BY <1>2, <2>1
    <3> QED BY <1>2, <1>3, <1>6, <2>1, <3>1
  <2>3. s[e + 1] # BLANK /\ e # Len(s)
    BY <1>3, <1>7, <2>2
  <2> QED BY <1>1, <2>3
<1>14. i \in 0 .. Len(args) /\ j \in 0 .. Len(args)
  BY <1>3, <1>8
<1>15. Reads(args, name, text)
  BY <1>12, <1>13, <1>14 DEF Reads, Blanks
<1> QED BY <1>4, <1>5, <1>15 DEF name, text

(* What is refused has no reading.                                         *)
LEMMA WriteRefused ==
  ASSUME NEW args \in Seq(Glyphs), Trimmed(args) = <<>> \/ WriteText(args) = <<>>,
         NEW name \in Seq(Glyphs), NEW text \in Seq(Glyphs),
         IsName(name), IsText(text), Reads(args, name, text)
  PROVE  FALSE
<1> DEFINE s == Trimmed(args)
           l == Len(name)
<1>1. PICK m, n \in 0 .. Len(args) :
        /\ args = Blanks(m) \o name \o Blanks(n) \o text
        /\ n > 0 \/ l = MAX_FILENAME - 1
  BY DEF Reads, Blanks
<1>2. m \in Nat /\ n \in Nat /\ l \in Nat \ {0} /\ Len(text) \in Nat \ {0}
  BY EmptySeq DEF IsName, IsText
<1>3. /\ Len(args) = m + l + n + Len(text)
      /\ \A k \in 1 .. m : args[k] = BLANK
      /\ \A k \in 1 .. l : args[m + k] = name[k]
      /\ \A k \in 1 .. n : args[m + l + k] = BLANK
      /\ \A k \in 1 .. Len(text) : args[m + l + n + k] = text[k]
  <2>1. Spells(args, m, name, n, text)
    BY <1>1, <1>2, ReadsIs
  <2> QED BY <2>1 DEF Spells
<1>4. args[m + 1] # BLANK /\ m + 1 \in 1 .. Len(args)
  <2>1. 1 \in 1 .. l /\ name[1] # BLANK
    BY <1>2 DEF IsName, Range
  <2> QED BY <1>2, <1>3, <2>1
<1>5. args[m + l + n + 1] # BLANK
  <2>1. 1 \in 1 .. Len(text) /\ text[1] # BLANK
    BY <1>2 DEF IsText
  <2> QED BY <1>3, <2>1
<1>6. PICK i : Leaves(args, i, s)
  BY TrimmedFacts
<1>7. /\ i \in Nat /\ s \in Seq(Glyphs) /\ Len(s) \in Nat /\ Len(args) = i + Len(s)
      /\ \A k \in 1 .. i : args[k] = BLANK
      /\ \A k \in 1 .. Len(s) : args[i + k] = s[k]
      /\ s # <<>> => s[1] # BLANK
  BY <1>6 DEF Leaves
<1> HIDE DEF l, s
<1>8. i <= m
  BY <1>2, <1>4, <1>7
<1>9. s # <<>> /\ 1 \in 1 .. Len(s)
  <2>1. Len(s) # 0
    BY <1>2, <1>4, <1>7, <1>8
  <2> QED BY <1>7, <2>1, EmptySeq
<1>10. i = m
  <2>1. args[i + 1] # BLANK
    BY <1>7, <1>9
  <2>2. i < m => i + 1 \in 1 .. m
    BY <1>2, <1>7
  <2> QED BY <1>2, <1>3, <1>7, <1>8, <2>1, <2>2
<1>11. Len(s) = l + n + Len(text)
  BY <1>2, <1>3, <1>7, <1>10
<1> DEFINE e == Min(NameEnds(s))
           rest == SubSeq(s, e + 1, Len(s))
<1>12. PICK j \in Nat :
         /\ Leaves(rest, j, WriteText(args))
         /\ e \in 1 .. Len(s) /\ \A x \in NameEnds(s) : e <= x
         /\ rest \in Seq(Glyphs) /\ Len(rest) = Len(s) - e
         /\ \A k \in 1 .. Len(s) - e : rest[k] = s[e + k]
  BY <1>9, WritePieces DEF s
<1> HIDE DEF e, rest
<1>13. l \in NameEnds(s)
  <2>1. l \in 0 .. Len(s)
    BY <1>2, <1>11
  <2>2. n > 0 => s[l + 1] = BLANK
    <3>1. n > 0 => 1 \in 1 .. n /\ l + 1 \in 1 .. Len(s) /\ m + l + 1 = i + (l + 1)
      BY <1>2, <1>10, <1>11
    <3> QED BY <1>3, <1>7, <3>1
  <2> QED BY <1>1, <2>1, <2>2 DEF NameEnds
<1>14. e <= l
  BY <1>12, <1>13
<1>15. WriteText(args) = <<>>
  BY <1>9 DEF s
<1>16. \A k \in 1 .. Len(s) - e : rest[k] = BLANK
  <2>1. Len(rest) = j
    BY <1>12, <1>15 DEF Leaves
  <2> QED BY <1>12, <2>1 DEF Leaves
<1>17. /\ l + n + 1 - e \in 1 .. Len(s) - e /\ e + (l + n + 1 - e) = l + n + 1
       /\ l + n + 1 \in 1 .. Len(s) /\ m + l + n + 1 = i + (l + n + 1)
  BY <1>2, <1>10, <1>11, <1>12, <1>14
<1>18. s[l + n + 1] = BLANK
  BY <1>12, <1>16, <1>17
<1> QED BY <1>5, <1>7, <1>17, <1>18

(* A write line is taken apart as it was typed, or has no reading.         *)
THEOREM WriteCorrect == Spec => WriteAsTyped
<1> DEFINE Write(args) ==
             IF call'.kind = "create"
             THEN IsName(call'.name) /\ IsText(call'.text)
                    /\ Reads(args, call'.name, call'.text)
             ELSE \A name, text \in Parts(args) :
                    IsName(name) /\ IsText(text) => ~Reads(args, name, text)
<1>1. ASSUME TypeOK, Enter, IsWrite(command_buffer)
      PROVE  Write(Tail(command_buffer))
  <2> DEFINE args == Tail(command_buffer)
  <2>1. args \in Seq(Glyphs) /\ call' = cmd_write(args)
    BY <1>1, HeadTailProperties DEF TypeOK, Enter, IsWrite, Executed
  <2> HIDE DEF args
  <2>2. CASE Trimmed(args) # <<>> /\ WriteText(args) # <<>>
    <3>1. call' = [kind |-> "create", name |-> WriteName(args), text |-> WriteText(args)]
      BY <2>1, <2>2, WriteIs
    <3>2. call'.kind = "create" /\ call'.name = WriteName(args) /\ call'.text = WriteText(args)
      BY <3>1
    <3> QED BY <2>1, <2>2, <3>2, WriteRead DEF args
  <2>3. CASE Trimmed(args) = <<>> \/ WriteText(args) = <<>>
    <3>1. call'.kind # "create"
      BY <2>1, <2>3, WriteIs
    <3>2. ASSUME NEW p \in Parts(args) PROVE p \in Seq(Glyphs)
      <4>1. PICK m, n \in DOMAIN args : p = SubSeq(args, m, n)
        BY DEF Parts
      <4>2. m \in Int /\ n \in Int /\ \A k \in m .. n : args[k] \in Glyphs
        BY <2>1
      <4> QED BY <4>1, <4>2, SubSeqProperties
    <3>3. ASSUME NEW name \in Parts(args), NEW text \in Parts(args),
                 IsName(name), IsText(text)
          PROVE  ~Reads(args, name, text)
      BY <2>1, <2>3, <3>2, <3>3, WriteRefused
    <3> QED BY <3>1, <3>3 DEF args
  <2> QED BY <2>2, <2>3
<1>2. TypeOK /\ [Next]_vars =>
        [Enter /\ IsWrite(command_buffer) => Write(Tail(command_buffer))]_vars
  BY <1>1
<1> QED BY <1>2, TypeCorrect, PTL DEF Spec, WriteAsTyped
=============================================================================
