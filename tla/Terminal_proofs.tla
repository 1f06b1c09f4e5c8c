--------------------------- MODULE Terminal_proofs ---------------------------
(* Theorems about the text screen, for every width and height: nothing is  *)
(* written outside it, and it is a window on the end of an endless sheet.  *)
EXTENDS MCTerminal, SequenceTheorems, TLAPS

Row == [Cols -> Glyphs]

(* A screen whose rows below the cursor are blank.                         *)
Proper(t) ==
  /\ t \in Screen
  /\ \A y \in Rows : y > t.row => t.cells[y] = BlankRow

(* The rows down to the cursor's.                                          *)
Page(t) == [k \in 1 .. t.row + 1 |-> t.cells[k - 1]]

LEMMA SizeFacts ==
  /\ 0 \in Rows /\ 0 \in Cols /\ BlankRow \in Row
  /\ VGA_WIDTH \in Nat \ {0} /\ VGA_HEIGHT \in Nat /\ VGA_HEIGHT > 1
  BY ScreenAssumption, SheetAssumption DEF Rows, Cols, BlankRow, Row

LEMMA PageFacts ==
  ASSUME NEW t, Proper(t)
  PROVE  /\ t.row \in Nat /\ t.row < VGA_HEIGHT /\ t.column \in Cols
         /\ t.cells \in [Rows -> Row]
         /\ Page(t) \in Seq(Row) /\ Len(Page(t)) = t.row + 1
         /\ \A k \in 1 .. t.row + 1 : k - 1 \in Rows /\ Page(t)[k] = t.cells[k - 1]
<1>1. /\ t.row \in Nat /\ t.row < VGA_HEIGHT /\ t.column \in Cols
      /\ t.cells \in [Rows -> Row]
  BY SizeFacts DEF Proper, Screen, Rows, Row
<1>2. \A k \in 1 .. t.row + 1 : k - 1 \in Rows
  BY <1>1, SizeFacts DEF Rows
<1>3. Page(t) \in [1 .. t.row + 1 -> Row]
  BY <1>1, <1>2 DEF Page
<1>4. Page(t) \in Seq(Row) /\ Len(Page(t)) = t.row + 1
  BY <1>1, <1>3
<1> QED BY <1>1, <1>2, <1>4 DEF Page

LEMMA SameSeq ==
  ASSUME NEW S, NEW s \in Seq(S), NEW u \in Seq(S), NEW n,
         Len(s) = n, Len(u) = n, \A i \in 1 .. n : s[i] = u[i]
  PROVE  s = u
BY SeqEqual

-----------------------------------------------------------------------------
(* What the parts of terminal_putchar do to the rows.                      *)

(* A character put in the cursor's row.                                    *)
LEMMA Marked ==
  ASSUME NEW t, Proper(t), NEW x \in Cols, NEW c \in Glyphs, NEW m,
         m.row = t.row, m.column \in Cols,
         m.cells = [t.cells EXCEPT ![t.row][x] = c],
         m = [cells |-> m.cells, row |-> m.row, column |-> m.column]
  PROVE  /\ Proper(m)
         /\ Page(m) = [Page(t) EXCEPT ![t.row + 1][x] = c]
<1>1. /\ t.row \in Nat /\ t.row \in Rows /\ t.cells \in [Rows -> Row]
      /\ Len(Page(t)) = t.row + 1 /\ Page(t) \in Seq(Row)
  BY PageFacts DEF Proper, Screen
<1>2. [t.cells[t.row] EXCEPT ![x] = c] \in Row
  BY <1>1 DEF Row
<1>3. /\ m.cells \in [Rows -> Row]
      /\ m.cells[t.row] = [t.cells[t.row] EXCEPT ![x] = c]
      /\ \A y \in Rows \ {t.row} : m.cells[y] = t.cells[y]
  BY <1>1, <1>2
<1>4. Proper(m)
  <2>1. m \in Screen
    BY <1>1, <1>3 DEF Screen, Row
  <2> QED BY <1>1, <1>3, <2>1 DEF Proper, Rows
<1>5. Page(m) \in Seq(Row) /\ Len(Page(m)) = t.row + 1
  BY <1>4, PageFacts
<1> DEFINE p == [Page(t) EXCEPT ![t.row + 1] = [Page(t)[t.row + 1] EXCEPT ![x] = c]]
<1>6. Page(t)[t.row + 1] = t.cells[t.row]
  BY <1>1, PageFacts
<1>7. p \in Seq(Row) /\ Len(p) = t.row + 1
  BY <1>1, <1>2, <1>6, ExceptSeq
<1>8. ASSUME NEW k \in 1 .. t.row + 1 PROVE Page(m)[k] = p[k]
  <2>1. Page(m)[k] = m.cells[k - 1] /\ Page(t)[k] = t.cells[k - 1] /\ k - 1 \in Rows
    BY <1>4, PageFacts
  <2>2. DOMAIN Page(t) = 1 .. t.row + 1
    BY <1>1, LenProperties
  <2>3. CASE k = t.row + 1
    BY <1>1, <1>3, <1>6, <2>1, <2>2, <2>3
  <2>4. CASE k # t.row + 1
    BY <1>1, <1>3, <2>1, <2>2, <2>4
  <2> QED BY <2>3, <2>4
<1>9. Page(m) = p
  <2> HIDE DEF p
  <2> QED BY <1>5, <1>7, <1>8, SameSeq
<1> QED BY <1>4, <1>9

(* Down a row that is there.                                               *)
LEMMA WentDown ==
  ASSUME NEW t, Proper(t), t.row + 1 # VGA_HEIGHT
  PROVE  /\ Proper(NextRow(t)) /\ NextRow(t).column = 0
         /\ Page(NextRow(t)) = Append(Page(t), BlankRow)
<1> DEFINE d == NextRow(t)
<1>1. d = [t EXCEPT !.column = 0, !.row = t.row + 1]
  BY DEF NextRow
<1>2. /\ t.row \in Nat /\ t.row + 1 \in Rows /\ t.cells \in [Rows -> Row]
      /\ Page(t) \in Seq(Row) /\ Len(Page(t)) = t.row + 1
  BY PageFacts, SizeFacts DEF Rows
<1>3. d.row = t.row + 1 /\ d.column = 0 /\ d.cells = t.cells /\ d \in Screen
  BY <1>1, <1>2, SizeFacts DEF Proper, Screen
<1>4. Proper(d)
  BY <1>2, <1>3 DEF Proper, Rows
<1>5. Page(d) \in Seq(Row) /\ Len(Page(d)) = t.row + 2
  BY <1>2, <1>3, <1>4, PageFacts
<1>6. /\ Append(Page(t), BlankRow) \in Seq(Row)
      /\ Len(Append(Page(t), BlankRow)) = t.row + 2
      /\ \A k \in 1 .. t.row + 1 : Append(Page(t), BlankRow)[k] = Page(t)[k]
      /\ Append(Page(t), BlankRow)[t.row + 2] = BlankRow
  BY <1>2, SizeFacts, AppendProperties
<1>7. t.cells[t.row + 1] = BlankRow
  BY <1>2 DEF Proper
<1>8. ASSUME NEW k \in 1 .. t.row + 2
      PROVE  Page(d)[k] = Append(Page(t), BlankRow)[k]
  <2>1. Page(d)[k] = t.cells[k - 1]
    BY <1>3, <1>4, PageFacts, SMTT(30)
  <2>2. k # t.row + 2 => Page(t)[k] = t.cells[k - 1]
    BY <1>2, PageFacts
  <2> QED BY <1>2, <1>6, <1>7, <2>1, <2>2
<1>9. Page(d) = Append(Page(t), BlankRow)
  BY <1>5, <1>6, <1>8, SameSeq
<1> QED BY <1>3, <1>4, <1>9

(* Down from the last row: the top row leaves.                             *)
LEMMA WentOn ==
  ASSUME NEW t, Proper(t), t.row + 1 = VGA_HEIGHT, NEW g \in Seq(Row)
  PROVE  /\ Proper(NextRow(t)) /\ NextRow(t).column = 0
         /\ t.cells[0] \in Row
         /\ Append(g, t.cells[0]) \o Page(NextRow(t))
              = Append(g \o Page(t), BlankRow)
<1> DEFINE d == NextRow(t)
           h == Append(g, t.cells[0])
           n == Len(g)
           left  == h \o Page(d)
           whole == g \o Page(t)
           right == Append(whole, BlankRow)
<1>1. /\ t.row \in Nat /\ t.cells \in [Rows -> Row] /\ t.row = VGA_HEIGHT - 1
      /\ Page(t) \in Seq(Row) /\ Len(Page(t)) = VGA_HEIGHT
      /\ \A k \in 1 .. VGA_HEIGHT : Page(t)[k] = t.cells[k - 1]
  BY PageFacts, SMTT(30)
<1> DEFINE moved == [y \in Rows |-> IF y + 1 \in Rows THEN t.cells[y + 1]
                                                      ELSE BlankRow]
<1>2. /\ d.row = VGA_HEIGHT - 1 /\ d.column = 0 /\ d.cells = moved
      /\ d = [cells |-> d.cells, row |-> d.row, column |-> d.column]
  <2> DEFINE e == [t EXCEPT !.column = 0]
  <2>1. d = Scrolled(e)
    BY DEF NextRow
  <2>2. e.cells = t.cells /\ e.column = 0
        /\ e = [cells |-> e.cells, row |-> e.row, column |-> e.column]
    BY DEF Proper, Screen
  <2> HIDE DEF e
  <2> DEFINE f == [y \in Rows |-> IF y + 1 \in Rows THEN e.cells[y + 1]
                                                   ELSE BlankRow]
  <2>3. f = moved
    BY <2>2
  <2>4. d = [e EXCEPT !.row = VGA_HEIGHT - 1, !.cells = f]
    BY <2>1 DEF Scrolled
  <2> HIDE DEF d, f, moved
  <2>5. d = [cells |-> moved, row |-> VGA_HEIGHT - 1, column |-> 0]
    BY <2>2, <2>3, <2>4
  <2> QED BY <2>5
<1> HIDE DEF d
<1>3. d.row \in Rows /\ d.cells \in [Rows -> Row] /\ d \in Screen
  <2>1. moved \in [Rows -> Row]
    BY <1>1, SizeFacts
  <2>2. VGA_HEIGHT - 1 \in Rows
    BY SizeFacts DEF Rows
  <2> QED BY <1>2, <2>1, <2>2, SizeFacts DEF Screen, Row
<1>4. Proper(d)
  BY <1>2, <1>3 DEF Proper, Rows
<1>5. /\ Page(d) \in Seq(Row) /\ Len(Page(d)) = VGA_HEIGHT
      /\ \A k \in 1 .. VGA_HEIGHT : Page(d)[k] = d.cells[k - 1]
  BY <1>2, <1>4, PageFacts, SizeFacts
<1>6. t.cells[0] \in Row
  BY <1>1, SizeFacts
<1>7. /\ h \in Seq(Row) /\ Len(h) = n + 1 /\ n \in Nat
      /\ \A i \in 1 .. n : h[i] = g[i]
      /\ h[n + 1] = t.cells[0]
  BY <1>6, AppendProperties, LenProperties
<1> HIDE DEF h, n
<1>8. /\ left \in Seq(Row) /\ Len(left) = n + 1 + VGA_HEIGHT
      /\ \A i \in 1 .. n + 1 + VGA_HEIGHT :
           left[i] = IF i <= n + 1 THEN h[i] ELSE Page(d)[i - (n + 1)]
  <2>1. /\ left \in Seq(Row) /\ Len(left) = Len(h) + Len(Page(d))
        /\ \A i \in 1 .. Len(h) + Len(Page(d)) :
             left[i] = IF i <= Len(h) THEN h[i] ELSE Page(d)[i - Len(h)]
    BY <1>5, <1>7, ConcatProperties
  <2> QED BY <1>5, <1>7, <2>1
<1>9. /\ whole \in Seq(Row) /\ Len(whole) = n + VGA_HEIGHT
      /\ \A i \in 1 .. n + VGA_HEIGHT :
           whole[i] = IF i <= n THEN g[i] ELSE Page(t)[i - n]
  <2>1. /\ whole \in Seq(Row) /\ Len(whole) = Len(g) + Len(Page(t))
        /\ \A i \in 1 .. Len(g) + Len(Page(t)) :
             whole[i] = IF i <= Len(g) THEN g[i] ELSE Page(t)[i - Len(g)]
    BY <1>1, ConcatProperties
  <2> QED BY <1>1, <2>1 DEF n
<1> HIDE DEF left, whole
<1>10. /\ right \in Seq(Row) /\ Len(right) = n + VGA_HEIGHT + 1
       /\ \A i \in 1 .. n + VGA_HEIGHT : right[i] = whole[i]
       /\ right[n + VGA_HEIGHT + 1] = BlankRow
  <2>1. /\ right \in Seq(Row) /\ Len(right) = Len(whole) + 1
        /\ \A i \in 1 .. Len(whole) : right[i] = whole[i]
        /\ right[Len(whole) + 1] = BlankRow
    BY <1>9, SizeFacts, AppendProperties
  <2> QED BY <1>9, <2>1
<1> HIDE DEF right
<1>11. ASSUME NEW i \in 1 .. n + 1 + VGA_HEIGHT PROVE left[i] = right[i]
  <2>1. CASE i <= n
    <3>1. left[i] = g[i]
      BY <1>7, <1>8, <2>1
    <3>2. right[i] = g[i]
      BY <1>7, <1>9, <1>10, <2>1, SizeFacts
    <3> QED BY <3>1, <3>2
  <2>2. CASE i = n + 1
    <3>1. left[i] = t.cells[0]
      BY <1>7, <1>8, <2>2
    <3>2. right[i] = Page(t)[1]
      BY <1>7, <1>9, <1>10, <2>2, SizeFacts, SMTT(30)
    <3> QED BY <1>1, <3>1, <3>2, SizeFacts
  <2>3. CASE n + 1 < i /\ i <= n + VGA_HEIGHT
    <3> DEFINE k == i - n
    <3>1. k \in 2 .. VGA_HEIGHT /\ k - 1 \in 1 .. VGA_HEIGHT
          /\ k - 2 \in Rows /\ k - 1 \in Rows
      BY <1>7, <2>3, SizeFacts DEF Rows
    <3>2. left[i] = Page(d)[k - 1]
      BY <1>7, <1>8, <2>3
    <3>3. Page(d)[k - 1] = d.cells[k - 2]
      BY <1>5, <3>1
    <3>4. d.cells[k - 2] = t.cells[k - 1]
      BY <1>2, <3>1
    <3>5. right[i] = Page(t)[k]
      BY <1>7, <1>9, <1>10, <2>3
    <3> QED BY <1>1, <3>1, <3>2, <3>3, <3>4, <3>5
  <2>4. CASE i = n + VGA_HEIGHT + 1
    <3>1. left[i] = Page(d)[VGA_HEIGHT]
      BY <1>7, <1>8, <2>4, SizeFacts
    <3>2. Page(d)[VGA_HEIGHT] = d.cells[VGA_HEIGHT - 1]
      BY <1>5, SizeFacts
    <3>3. /\ VGA_HEIGHT - 1 \in Rows /\ VGA_HEIGHT - 1 + 1 = VGA_HEIGHT
          /\ VGA_HEIGHT \notin Rows
      BY SizeFacts DEF Rows
    <3>4. d.cells[VGA_HEIGHT - 1] = BlankRow
      BY <1>2, <3>3
    <3> QED BY <1>10, <2>4, <3>1, <3>2, <3>4
  <2> QED BY <1>7, <2>1, <2>2, <2>3, <2>4, SizeFacts
<1>12. left = right
  <2>1. Len(left) = n + 1 + VGA_HEIGHT /\ Len(right) = n + 1 + VGA_HEIGHT
    BY <1>7, <1>8, <1>10, SizeFacts
  <2> QED BY <1>8, <1>10, <1>11, <2>1, SeqEqual
<1> QED BY <1>2, <1>4, <1>6, <1>12 DEF left, right, whole, h, d
-----------------------------------------------------------------------------
(* What a character does to the sheet.                                     *)

TerminalInv == Proper(term) /\ gone \in Seq(Row)

LEMMA SheetFacts ==
  ASSUME NEW g \in Seq(Row), NEW p \in Seq(Row), Len(p) # 0
  PROVE  /\ g \o p \in Seq(Row) /\ Len(g \o p) = Len(g) + Len(p)
         /\ \A r \in Row : Append(g \o p, r) = g \o Append(p, r)
         /\ \A r \in Row : [g \o p EXCEPT ![Len(g) + Len(p)] = r]
                             = g \o [p EXCEPT ![Len(p)] = r]
         /\ (g \o p)[Len(g) + Len(p)] = p[Len(p)]
<1> DEFINE w == g \o p
           n == Len(g) + Len(p)
<1>1. /\ w \in Seq(Row) /\ Len(w) = n
      /\ \A i \in 1 .. n : w[i] = IF i <= Len(g) THEN g[i] ELSE p[i - Len(g)]
  BY ConcatProperties
<1>2. Len(g) \in Nat /\ Len(p) \in Nat \ {0} /\ n \in 1 .. n /\ n \in Nat
  BY LenProperties
<1> HIDE DEF w, n
<1>3. ASSUME NEW r \in Row PROVE Append(w, r) = g \o Append(p, r)
  <2>1. Append(w, r) = w \o <<r>> /\ Append(p, r) = p \o <<r>>
    BY <1>1, AppendIsConcat
  <2>2. <<r>> \in Seq(Row)
    OBVIOUS
  <2>3. (g \o p) \o <<r>> = g \o (p \o <<r>>)
    BY <2>2, ConcatAssociative
  <2> QED BY <2>1, <2>3 DEF w
<1>4. ASSUME NEW r \in Row
      PROVE  [w EXCEPT ![n] = r] = g \o [p EXCEPT ![Len(p)] = r]
  <2> DEFINE q == [p EXCEPT ![Len(p)] = r]
             x == [w EXCEPT ![n] = r]
  <2>1. q \in Seq(Row) /\ Len(q) = Len(p)
    BY <1>2, ExceptSeq
  <2>2. x \in Seq(Row) /\ Len(x) = n
    BY <1>1, <1>2, ExceptSeq
  <2>3. /\ q[Len(p)] = r /\ \A k \in 1 .. Len(p) : k # Len(p) => q[k] = p[k]
        /\ x[n] = r /\ \A k \in 1 .. n : k # n => x[k] = w[k]
    <3>1. w \in [1 .. n -> Row] /\ p \in [1 .. Len(p) -> Row]
      BY <1>1, LenProperties
    <3>2. q[Len(p)] = r /\ \A k \in 1 .. Len(p) : k # Len(p) => q[k] = p[k]
      <4>1. PICK m : m = Len(p)
        OBVIOUS
      <4>2. p \in [1 .. m -> Row] /\ m \in 1 .. m
        BY <1>2, <3>1, <4>1
      <4>3. [p EXCEPT ![m] = r][m] = r
            /\ \A k \in 1 .. m : k # m => [p EXCEPT ![m] = r][k] = p[k]
        BY <4>2
      <4> QED BY <4>1, <4>3
    <3>3. x[n] = r /\ \A k \in 1 .. n : k # n => x[k] = w[k]
      BY <1>2, <3>1
    <3> QED BY <3>2, <3>3
  <2> HIDE DEF q, x
  <2>4. /\ g \o q \in Seq(Row) /\ Len(g \o q) = Len(g) + Len(q)
        /\ \A i \in 1 .. Len(g) + Len(q) :
             (g \o q)[i] = IF i <= Len(g) THEN g[i] ELSE q[i - Len(g)]
    BY <2>1, ConcatProperties, ZenonT(30)
  <2>5. Len(g) + Len(q) = n
    BY <2>1 DEF n
  <2>6. ASSUME NEW i \in 1 .. n PROVE x[i] = (g \o q)[i]
    <3>1. CASE i <= Len(g)
      <4>1. i # n
        BY <1>2, <3>1 DEF n
      <4> QED BY <1>1, <2>3, <2>4, <2>5, <3>1, <4>1
    <3>2. CASE i = n
      <4>1. (g \o q)[i] = q[Len(p)]
        BY <1>2, <2>4, <2>5, <3>2 DEF n
      <4> QED BY <2>3, <3>2, <4>1
    <3>3. CASE Len(g) < i /\ i < n
      <4>1. i - Len(g) \in 1 .. Len(p) /\ i - Len(g) # Len(p)
        BY <1>2, <3>3 DEF n
      <4>2. (g \o q)[i] = p[i - Len(g)]
        <5>1. (g \o q)[i] = q[i - Len(g)]
          BY <1>2, <2>4, <2>5, <3>3
        <5> QED BY <2>3, <4>1, <5>1
      <4>3. w[i] = p[i - Len(g)]
        BY <1>1, <1>2, <3>3
      <4>4. x[i] = w[i]
        BY <1>2, <2>3, <3>3
      <4> QED BY <4>2, <4>3, <4>4
    <3>4. i \in Nat /\ i <= n
      BY <1>2
    <3>5. i <= Len(g) \/ i = n \/ (Len(g) < i /\ i < n)
      BY <1>2, <3>4
    <3> QED BY <3>1, <3>2, <3>3, <3>5
  <2>7. x = g \o q
    BY <2>2, <2>4, <2>5, <2>6, SeqEqual
  <2> QED BY <2>7 DEF x, q
<1>5. w[n] = p[Len(p)]
  BY <1>1, <1>2 DEF n
<1> QED BY <1>1, <1>3, <1>4, <1>5 DEF w, n

(* The cursor goes to the next row, and the top row leaves when it must.   *)
LEMMA Returned ==
  ASSUME NEW t, Proper(t), NEW g \in Seq(Row), NEW h,
         h = IF t.row = VGA_HEIGHT - 1 THEN Append(g, t.cells[0]) ELSE g
  PROVE  /\ Proper(NextRow(t)) /\ NextRow(t).column = 0 /\ h \in Seq(Row)
         /\ h \o Page(NextRow(t)) = Append(g \o Page(t), BlankRow)
<1>1. t.row \in Nat /\ Page(t) \in Seq(Row) /\ Len(Page(t)) = t.row + 1
  BY PageFacts
<1>2. CASE t.row + 1 = VGA_HEIGHT
  <2>1. h = Append(g, t.cells[0])
    BY <1>1, <1>2, SizeFacts
  <2>2. t.cells[0] \in Row
    BY <1>2, WentOn
  <2>3. h \in Seq(Row)
    BY <2>1, <2>2, AppendProperties
  <2> QED BY <1>2, <2>1, <2>3, WentOn
<1>3. CASE t.row + 1 # VGA_HEIGHT
  <2>1. h = g
    BY <1>1, <1>3, SizeFacts
  <2>2. /\ Proper(NextRow(t)) /\ NextRow(t).column = 0
        /\ Page(NextRow(t)) = Append(Page(t), BlankRow)
    BY <1>3, WentDown
  <2>3. Len(Page(t)) # 0 /\ BlankRow \in Row
    BY <1>1, SizeFacts
  <2>4. g \o Append(Page(t), BlankRow) = Append(g \o Page(t), BlankRow)
    BY <1>1, <2>3, SheetFacts, SMTT(30)
  <2> QED BY <2>1, <2>2, <2>4
<1> QED BY <1>2, <1>3

LEMMA PutcharCases ==
  ASSUME NEW t, NEW c \in Glyphs \cup {NL, BS, TAB}
  PROVE  \/ c = NL /\ c # BS /\ Putchar(t, c) = NextRow(t)
         \/ c = BS /\ Putchar(t, c) = Back(t)
         \/ c = TAB /\ c # BS /\ Putchar(t, c) = TabStop(t)
         \/ c \in Glyphs /\ c # BS /\ Putchar(t, c) = Show(t, c)
<1>1. CASE c = NL
  BY <1>1, ScreenAssumption DEF Putchar
<1>2. CASE c = BS
  BY <1>2, ScreenAssumption DEF Putchar
<1>3. CASE c = TAB
  BY <1>3, ScreenAssumption DEF Putchar
<1>4. CASE c \in Glyphs
  BY <1>4, ScreenAssumption DEF Putchar
<1> QED BY <1>1, <1>2, <1>3, <1>4

(* Steps of the sheet, in terms of the rows above.                         *)
LEMMA SheetReturns ==
  ASSUME gone' \o Page(term') = Append(gone \o Page(term), BlankRow),
         term'.column = 0
  PROVE  Sheet!Return
  BY DEF Sheet!Return, Sheet!Fresh, Page, BlankRow, Cols

MarkedAt(rows, y, x, c) == [rows EXCEPT ![y][x] = c]

LEMMA SheetMarks ==
  ASSUME TerminalInv, NEW x, NEW c, NEW next, NEW marked,
         marked = MarkedAt(gone \o Page(term), Len(gone \o Page(term)), x, c),
         IF next = VGA_WIDTH
         THEN /\ gone' \o Page(term') = Append(marked, BlankRow)
              /\ term'.column = 0
         ELSE gone' \o Page(term') = marked /\ term'.column = next
  PROVE  Sheet!Mark(x, c, next)
  BY DEF Sheet!Mark, Sheet!Fresh, Sheet!Here, Page, BlankRow, Cols, MarkedAt

(* A mark in the cursor's row is one in the last row of the sheet.         *)
LEMMA MarkedSheet ==
  ASSUME TerminalInv, NEW x \in Cols, NEW c \in Glyphs, NEW m,
         m.row = term.row, m.column \in Cols,
         m.cells = MarkedAt(term.cells, term.row, x, c),
         m = [cells |-> m.cells, row |-> m.row, column |-> m.column]
  PROVE  /\ Proper(m)
         /\ gone \o Page(m) = MarkedAt(gone \o Page(term),
                                       Len(gone \o Page(term)), x, c)
<1>1. /\ Proper(m)
      /\ Page(m) = [Page(term) EXCEPT ![term.row + 1][x] = c]
  BY Marked DEF TerminalInv, MarkedAt
<1>2. /\ Page(term) \in Seq(Row) /\ Len(Page(term)) = term.row + 1
      /\ term.row \in Nat
  BY PageFacts DEF TerminalInv
<1> DEFINE r == [Page(term)[term.row + 1] EXCEPT ![x] = c]
<1>3. r \in Row
  <2>1. Page(term)[term.row + 1] \in Row
    BY <1>2, ElementOfSeq
  <2> QED BY <2>1 DEF Row
<1>4. /\ Len(gone \o Page(term)) = Len(gone) + Len(Page(term))
      /\ [gone \o Page(term) EXCEPT ![Len(gone) + Len(Page(term))] = r]
           = gone \o [Page(term) EXCEPT ![Len(Page(term))] = r]
      /\ (gone \o Page(term))[Len(gone) + Len(Page(term))]
           = Page(term)[Len(Page(term))]
  <2>1. Len(Page(term)) # 0 /\ gone \in Seq(Row)
    BY <1>2 DEF TerminalInv
  <2> HIDE DEF r
  <2>2. /\ Len(gone \o Page(term)) = Len(gone) + Len(Page(term))
        /\ \A e \in Row : [gone \o Page(term) EXCEPT ![Len(gone) + Len(Page(term))] = e]
                           = gone \o [Page(term) EXCEPT ![Len(Page(term))] = e]
        /\ (gone \o Page(term))[Len(gone) + Len(Page(term))]
             = Page(term)[Len(Page(term))]
    BY <1>2, <2>1, SheetFacts, Zenon
  <2> QED BY <1>3, <2>2, Zenon
<1> QED BY <1>1, <1>2, <1>4 DEF MarkedAt

LEMMA WroteNewline ==
  ASSUME TerminalInv, term' = NextRow(term), NEW c, c # BS,
         IF term.row = VGA_HEIGHT - 1 /\ term'.column = 0 /\ c # BS
         THEN gone' = Append(gone, term.cells[0]) ELSE gone' = gone
  PROVE  TerminalInv' /\ Sheet!Return
<1>1. term'.column = 0
  BY Returned DEF TerminalInv
<1>2. gone' = IF term.row = VGA_HEIGHT - 1 THEN Append(gone, term.cells[0])
                                           ELSE gone
  BY <1>1
<1>3. /\ Proper(term') /\ gone' \in Seq(Row)
      /\ gone' \o Page(term') = Append(gone \o Page(term), BlankRow)
  BY <1>2, Returned DEF TerminalInv
<1> QED BY <1>1, <1>3, SheetReturns DEF TerminalInv

LEMMA WroteBackspace ==
  ASSUME TerminalInv, term' = Back(term), gone' = gone
  PROVE  TerminalInv' /\ (Sheet!Erase \/ UNCHANGED <<term, gone>>)
<1>1. CASE term.column > 0
  <2>1. PICK x \in Cols : x = term.column - 1
    BY <1>1, PageFacts, SizeFacts DEF TerminalInv, Cols
  <2>2. term' = [term EXCEPT !.column = x, !.cells[term.row][x] = BLANK]
    BY <1>1, <2>1 DEF Back
  <2>3. /\ term'.row = term.row /\ term'.column = x
        /\ term'.cells = MarkedAt(term.cells, term.row, x, BLANK)
        /\ term' = [cells |-> term'.cells, row |-> term'.row,
                    column |-> term'.column]
    BY <2>2 DEF TerminalInv, Proper, Screen, MarkedAt
  <2>4. /\ Proper(term')
        /\ gone \o Page(term') = MarkedAt(gone \o Page(term),
                                          Len(gone \o Page(term)), x, BLANK)
    BY <2>3, ScreenAssumption, MarkedSheet
  <2>5. x # VGA_WIDTH
    BY SizeFacts DEF Cols
  <2>6. Sheet!Mark(x, BLANK, x)
    BY <2>3, <2>4, <2>5, SheetMarks
  <2>7. Sheet!Erase
    BY <1>1, <2>1, <2>6 DEF Sheet!Erase, Sheet!Mark
  <2> QED BY <2>4, <2>7 DEF TerminalInv
<1>2. CASE ~(term.column > 0)
  BY <1>2 DEF Back, TerminalInv
<1> QED BY <1>1, <1>2

LEMMA WroteTab ==
  ASSUME TerminalInv, term' = TabStop(term), NEW c, c # BS,
         IF term.row = VGA_HEIGHT - 1 /\ term'.column = 0 /\ c # BS
         THEN gone' = Append(gone, term.cells[0]) ELSE gone' = gone
  PROVE  /\ TerminalInv'
         /\ Sheet!Return \/ \E to \in 1 .. VGA_WIDTH - 1 : Sheet!Skip(to)
<1> DEFINE stop == ((term.column + 4) \div 4) * 4
<1>1. term.column \in Nat /\ term \in Screen
  BY PageFacts, SizeFacts DEF TerminalInv, Proper, Cols
<1>2. stop \in Nat /\ stop > term.column
  BY <1>1
<1>3. CASE stop >= VGA_WIDTH
  <2>1. term' = NextRow(term)
    BY <1>3 DEF TabStop
  <2> QED BY <2>1, WroteNewline
<1>4. CASE ~(stop >= VGA_WIDTH)
  <2>1. term' = [term EXCEPT !.column = stop]
    BY <1>4 DEF TabStop
  <2> HIDE DEF stop
  <2>2. stop \in 1 .. VGA_WIDTH - 1 /\ stop \in Cols /\ stop < VGA_WIDTH
    BY <1>1, <1>2, <1>4, SizeFacts DEF Cols
  <2>3. /\ term'.row = term.row /\ term'.column = stop
        /\ term'.cells = term.cells /\ term' \in Screen
    BY <1>1, <2>1, <2>2 DEF Screen
  <2>4. gone' = gone
    BY <2>2, <2>3
  <2>5. Proper(term') /\ Page(term') = Page(term)
    BY <2>3 DEF TerminalInv, Proper, Page
  <2>6. Sheet!Skip(stop)
    BY <1>2, <2>2, <2>3, <2>4, <2>5 DEF Sheet!Skip, Page
  <2> QED BY <2>2, <2>4, <2>5, <2>6 DEF TerminalInv
<1> QED BY <1>3, <1>4
LEMMA WroteGlyph ==
  ASSUME TerminalInv, NEW c \in Glyphs, c # BS, term' = Show(term, c),
         IF term.row = VGA_HEIGHT - 1 /\ term'.column = 0 /\ c # BS
         THEN gone' = Append(gone, term.cells[0]) ELSE gone' = gone
  PROVE  TerminalInv' /\ Sheet!Char(c)
<1>1. PICK x \in Cols : x = term.column
  BY PageFacts DEF TerminalInv
<1>2. /\ term \in Screen /\ term.row \in Rows /\ x \in Nat /\ x < VGA_WIDTH
      /\ term.cells \in [Rows -> Row]
  BY <1>1, PageFacts, SizeFacts, SMTT(30) DEF TerminalInv, Proper, Screen, Cols
<1>3. PICK shown : shown = [term EXCEPT !.cells[term.row][x] = c]
  OBVIOUS
<1>4. /\ shown.row = term.row /\ shown.column = x
      /\ shown.cells = MarkedAt(term.cells, term.row, x, c)
      /\ shown = [cells |-> shown.cells, row |-> shown.row,
                  column |-> shown.column]
  BY <1>1, <1>2, <1>3 DEF Screen, MarkedAt
<1>5. /\ Proper(shown)
      /\ gone \o Page(shown) = MarkedAt(gone \o Page(term),
                                        Len(gone \o Page(term)), x, c)
  BY <1>4, MarkedSheet
<1>6. CASE x + 1 = VGA_WIDTH
  <2>1. term' = NextRow(shown)
    BY <1>1, <1>3, <1>6 DEF Show, Wraps
  <2>2. term'.column = 0
    <3>1. NextRow(shown).column = 0
      BY <1>5, WentDown, WentOn DEF TerminalInv
    <3> QED BY <2>1, <3>1
  <2>3. term.row = VGA_HEIGHT - 1 => shown.cells[0] = term.cells[0]
    BY <1>2, <1>4, SizeFacts DEF MarkedAt
  <2>4. gone' = IF shown.row = VGA_HEIGHT - 1 THEN Append(gone, shown.cells[0])
                                              ELSE gone
    BY <1>4, <2>2, <2>3
  <2>5. /\ Proper(term') /\ gone' \in Seq(Row)
        /\ gone' \o Page(term') = Append(gone \o Page(shown), BlankRow)
    BY <1>5, <2>1, <2>4, Returned DEF TerminalInv
  <2>6. PICK next : next = x + 1
    OBVIOUS
  <2>7. Sheet!Mark(x, c, next)
    BY <1>5, <1>6, <2>2, <2>5, <2>6, SheetMarks
  <2> QED BY <1>1, <2>5, <2>6, <2>7 DEF TerminalInv, Sheet!Char, Sheet!Mark
<1>7. CASE x + 1 # VGA_WIDTH
  <2>1. PICK next \in Cols : next = x + 1 /\ next # 0 /\ next # VGA_WIDTH
    BY <1>2, <1>7, SizeFacts DEF Cols
  <2>2. term' = [shown EXCEPT !.column = next]
    BY <1>1, <1>3, <1>4, <1>7, <2>1 DEF Show, Wraps
  <2>3. /\ term'.row = term.row /\ term'.column = next
        /\ term'.cells = MarkedAt(term.cells, term.row, x, c)
        /\ term' = [cells |-> term'.cells, row |-> term'.row,
                    column |-> term'.column]
    BY <1>4, <2>2
  <2>4. gone' = gone
    BY <2>1, <2>3
  <2>5. /\ Proper(term')
        /\ gone \o Page(term') = MarkedAt(gone \o Page(term),
                                          Len(gone \o Page(term)), x, c)
    BY <2>1, <2>3, MarkedSheet
  <2>6. Sheet!Mark(x, c, next)
    BY <2>1, <2>3, <2>4, <2>5, SheetMarks
  <2> QED BY <1>1, <2>1, <2>4, <2>5, <2>6 DEF TerminalInv, Sheet!Char, Sheet!Mark
<1> QED BY <1>6, <1>7

LEMMA WriteStep ==
  ASSUME TerminalInv, NEW c \in Glyphs \cup {NL, BS, TAB}, Write(c)
  PROVE  TerminalInv' /\ (Sheet!Next \/ UNCHANGED <<term, gone>>)
<1>1. /\ term' = Putchar(term, c)
      /\ IF term.row = VGA_HEIGHT - 1 /\ term'.column = 0 /\ c # BS
         THEN gone' = Append(gone, term.cells[0]) ELSE gone' = gone
  BY DEF Write
<1>2. CASE c # BS /\ term' = NextRow(term)
  BY <1>1, <1>2, WroteNewline DEF Sheet!Next
<1>3. CASE c = BS /\ term' = Back(term)
  BY <1>1, <1>3, WroteBackspace DEF Sheet!Next
<1>4. CASE c # BS /\ term' = TabStop(term)
  BY <1>1, <1>4, WroteTab DEF Sheet!Next
<1>5. CASE c \in Glyphs /\ c # BS /\ term' = Show(term, c)
  BY <1>1, <1>5, WroteGlyph DEF Sheet!Next
<1> QED BY <1>1, <1>2, <1>3, <1>4, <1>5, PutcharCases

LEMMA ClearedSheet ==
  /\ Proper(Cleared)
  /\ <<>> \o [k \in 1 .. Cleared.row + 1 |-> Cleared.cells[k - 1]] = <<BlankRow>>
<1>1. Proper(Cleared) /\ Cleared.row = 0 /\ Cleared.cells[0] = BlankRow
  BY SizeFacts DEF Proper, Cleared, Screen, Row
<1>2. /\ Page(Cleared) \in Seq(Row) /\ Len(Page(Cleared)) = 1
      /\ Page(Cleared)[1] = BlankRow
  <2>1. /\ Page(Cleared) \in Seq(Row) /\ Len(Page(Cleared)) = 0 + 1
        /\ \A k \in 1 .. 0 + 1 : Page(Cleared)[k] = Cleared.cells[k - 1]
    BY <1>1, PageFacts
  <2> QED BY <1>1, <2>1
<1>3. Page(Cleared) = <<BlankRow>>
  BY <1>2, SeqEqual, SizeFacts
<1>4. <<>> \o Page(Cleared) = Page(Cleared)
  BY <1>2, ConcatEmptySeq
<1> QED BY <1>1, <1>3, <1>4 DEF Page

LEMMA TerminalStart == Init => TerminalInv /\ Sheet!Blank
<1> SUFFICES ASSUME Init PROVE TerminalInv /\ Sheet!Blank
  OBVIOUS
<1>1. term = Cleared /\ gone = <<>> /\ Cleared.column = 0
  BY DEF Init, Cleared
<1>2. <<>> \in Seq(Row)
  OBVIOUS
<1>3. Sheet!Blank
  BY <1>1, ClearedSheet DEF Sheet!Blank, Sheet!Fresh, BlankRow, Cols
<1> QED BY <1>1, <1>2, <1>3, ClearedSheet DEF TerminalInv

LEMMA TerminalStep ==
  TerminalInv /\ [Next]_<<term, gone>> =>
    TerminalInv' /\ [Sheet!Next]_(Sheet!vars)
<1> SUFFICES ASSUME TerminalInv, [Next]_<<term, gone>>
             PROVE  TerminalInv' /\ [Sheet!Next]_(Sheet!vars)
  OBVIOUS
<1>1. CASE UNCHANGED <<term, gone>>
  BY <1>1 DEF TerminalInv, Sheet!vars
<1>2. CASE Clear
  <2>1. term' = Cleared /\ gone' = <<>> /\ Cleared.column = 0
    BY <1>2 DEF Clear, Cleared
  <2>2. Sheet!Clear
    BY <2>1, ClearedSheet DEF Sheet!Clear, Sheet!Fresh, BlankRow, Cols
  <2> QED BY <2>1, <2>2, ClearedSheet DEF TerminalInv, Sheet!Next
<1>3. ASSUME NEW c \in Glyphs \cup {NL, BS, TAB}, Write(c)
      PROVE  TerminalInv' /\ [Sheet!Next]_(Sheet!vars)
  BY <1>1, <1>3, WriteStep
<1> QED BY <1>1, <1>2, <1>3 DEF Next

(* Whatever is written, of whatever size the screen, the cursor stays on   *)
(* it and the rows below the cursor are blank.                             *)
THEOREM TypeCorrect == Spec => []TypeOK
<1>1. TerminalInv => TypeOK
  BY DEF TerminalInv, Proper, TypeOK
<1> QED BY <1>1, TerminalStart, TerminalStep, PTL DEF Spec

(* The screen and what has scrolled off it are the sheet that everything   *)
(* was written to, the last row of it being the cursor's.                  *)
THEOREM PaperCorrect == Spec => ImplementsPaper
BY TerminalStart, TerminalStep, PTL DEF Spec, ImplementsPaper, Sheet!Spec
=============================================================================
