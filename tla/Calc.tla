-------------------------------- MODULE Calc --------------------------------
(***************************************************************************)
(* cmd_calc of kernel/shell.c and the %d of terminal_printf: two numbers   *)
(* read digit by digit into ints, an operator, and the line they print.    *)
(* An expression is <<digits, operator, digits>>; either may be empty.     *)
(* Signed overflow is undefined in C; the build wraps sums and products,   *)
(* faults on the quotient that does not fit, and differs by optimization   *)
(* level in what it prints of the int that has no negation.                *)
(***************************************************************************)
EXTENDS Integers, Sequences, SequencesExt

CONSTANTS
  INT_BITS,  \* the width of an int
  JUNK       \* digits no number has

ASSUME CalcAssumption == INT_BITS \in Nat \ {0} /\ JUNK \in Seq(Int \ 0 .. 9)

(* Arithmetic: a word has half its values below zero.                      *)
ASSUME PowersAssumption ==
  /\ 2 ^ (INT_BITS - 1) \in Nat \ {0}
  /\ 2 ^ INT_BITS = 2 * 2 ^ (INT_BITS - 1)

INT_MIN == -(2 ^ (INT_BITS - 1))
Ints    == INT_MIN .. -INT_MIN - 1
Wrap(n) == ((n - INT_MIN) % 2 ^ INT_BITS) + INT_MIN

Number(digits) == FoldLeft(LAMBDA n, d : Wrap(n * 10 + d), 0, digits)

(* C's quotient rounds toward zero.                                        *)
Quotient(a, b) ==
  LET magnitude(n) == IF n < 0 THEN -n ELSE n
      q == magnitude(a) \div magnitude(b)
  IN  IF (a < 0) = (b < 0) THEN q ELSE -q

Operation(op, a, b) ==
  CASE op = "+" -> a + b [] op = "-" -> a - b
    [] op = "*" -> a * b [] op = "/" -> Quotient(a, b)

(* The digits as they are taken off the number, the last one first, and as *)
(* they are shown.                                                         *)
Taken[n \in Nat] ==
  IF n = 0 THEN <<>> ELSE <<n % 10>> \o Taken[n \div 10]

Magnitude_AsTaken(n) == IF n = 0 THEN <<0>> ELSE Taken[n]
Magnitude(n)         == IF n = 0 THEN <<0>> ELSE Reverse(Taken[n])

Printed(n) ==
  [negative : {n < 0},
   digits   : IF n = INT_MIN THEN {Magnitude(-n), JUNK, <<>>}
              ELSE {Magnitude(IF n < 0 THEN -n ELSE n)}]

Line(a, op, b, r) ==
  [kind : {"line"},
   left : Printed(a), op : {op}, right : Printed(b), result : Printed(r)]
Message(kind) == {[kind |-> kind]}

(* What the command may end in: a line, a message, or a divide fault.      *)
cmd_calc(expr) ==
  LET a  == Number(expr[1])
      op == expr[2]
      b  == Number(expr[3])
  IN  CASE op \notin {"+", "-", "*", "/"} -> Message("usage")
        [] op = "/" /\ b = 0              -> Message("division by zero")
        [] op = "/" /\ a = INT_MIN /\ b = -1 -> Message("fault")
        [] OTHER -> Line(a, op, b, Wrap(Operation(op, a, b)))
=============================================================================
