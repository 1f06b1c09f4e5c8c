------------------------------- MODULE Console -------------------------------
(***************************************************************************)
(* shell_run of kernel/shell.c, the line editor, on the terminal: each key *)
(* keyboard_getchar returns changes command_buffer and what is shown of    *)
(* it; Enter runs the command, whatever it prints, and shows a new prompt. *)
(* Of the commands, write is the one that takes the line apart; the word   *)
(* "write " is one glyph here.                                             *)
(***************************************************************************)
EXTENDS Terminal

CONSTANTS
  MAX_COMMAND_LENGTH,
  MAX_FILENAME,
  WRITE,    \* the glyph for "write "
  PROMPT,   \* what shell_print_prompt writes
  Outputs   \* what commands may write; no newline need end it

ASSUME ConsoleAssumption ==
  /\ MAX_COMMAND_LENGTH \in Nat \ {0}
  /\ MAX_FILENAME \in Nat \ {0, 1} /\ WRITE \in Glyphs \ {BLANK}
  /\ PROMPT \in Seq(Glyphs) /\ Outputs \subseteq Seq(Glyphs \cup {NL, BS, TAB})

VARIABLES
  term,
  command_buffer, \* its first command_index characters
  call,           \* history: what the last line asked of fs_create_file
  strayed         \* history: since the prompt, a character has been erased
                  \* while the cursor was at the start of a row

vars == <<term, command_buffer, call, strayed>>

(* cmd_write: the name ends at a space, at the end of the line or where    *)
(* its buffer is full; the contents begin at the next character that is    *)
(* not a space.                                                            *)
Trimmed(s) ==
  LET shown == {k \in DOMAIN s : s[k] # BLANK}
  IN  IF shown = {} THEN <<>> ELSE SubSeq(s, Min(shown), Len(s))

NameEnds_UpToEnd(s) == {k \in 1 .. Len(s) : k = Len(s) \/ k = MAX_FILENAME - 1}
NameEnds(s) ==
  {k \in 0 .. Len(s) : k = Len(s) \/ k = MAX_FILENAME - 1 \/ s[k + 1] = BLANK}

Nothing == [kind |-> "nothing", name |-> <<>>, text |-> <<>>]

cmd_write(args) ==
  LET s    == Trimmed(args)
      end  == Min(NameEnds(s))
      text == Trimmed(SubSeq(s, end + 1, Len(s)))
  IN  CASE s = <<>>    -> [Nothing EXCEPT !.kind = "usage"]
        [] s # <<>> /\ text = <<>> -> [Nothing EXCEPT !.kind = "no content"]
        [] OTHER ->
             [kind |-> "create", name |-> SubSeq(s, 1, end), text |-> text]

IsWrite(cmd) == cmd # <<>> /\ Head(cmd) = WRITE
Executed(cmd) == IF IsWrite(cmd) THEN cmd_write(Tail(cmd)) ELSE Nothing

(* shell_init's greeting leaves the cursor at the start of a row.          *)
Init ==
  /\ term = Writestring(Cleared, PROMPT)
  /\ command_buffer = <<>> /\ call = Nothing /\ strayed = FALSE

Room_OffByOne(buffer) == Len(buffer) < MAX_COMMAND_LENGTH
Room(buffer)          == Len(buffer) < MAX_COMMAND_LENGTH - 1

(* A character past the end of the buffer is neither kept nor shown.       *)
Type_ShowsAll(c) ==
  /\ term' = Putchar(term, c)
  /\ command_buffer' = IF Room(command_buffer)
                       THEN Append(command_buffer, c) ELSE command_buffer
  /\ call' = Nothing /\ UNCHANGED strayed
Type(c) ==
  /\ Room(command_buffer)
  /\ command_buffer' = Append(command_buffer, c)
  /\ term' = Putchar(term, c)
  /\ call' = Nothing /\ UNCHANGED strayed

Rubout_NoReturn == <<BS, BLANK>>
Rubout          == <<BS, BLANK, BS>>

Backspace ==
  /\ command_buffer # <<>>
  /\ command_buffer' = Front(command_buffer)
  /\ term' = Writestring(term, Rubout)
  /\ strayed' = (strayed \/ term.column = 0) /\ UNCHANGED call

(* "clear" empties the screen instead of writing; an empty command writes  *)
(* nothing.                                                                *)
Enter ==
  /\ \/ \E out \in Outputs :
          /\ command_buffer = <<>> => out = <<>>
          /\ term' = Writestring(term, <<NL>> \o out \o PROMPT)
     \/ command_buffer # <<>> /\ term' = Writestring(Cleared, PROMPT)
  /\ call' = Executed(command_buffer)
  /\ command_buffer' = <<>> /\ strayed' = FALSE

Next == Backspace \/ Enter \/ \E c \in Glyphs : Type(c)
Spec == Init /\ [][Next]_vars

-----------------------------------------------------------------------------
(* The k-th cell behind the cursor, along the rows, holds the k-th last    *)
(* character of the buffer; cells scrolled off the top do not count.       *)
Place      == term.row * VGA_WIDTH + term.column
ShownAt(k) ==
  LET cell == Place - k
  IN  cell >= 0 =>
        term.cells[cell \div VGA_WIDTH][cell % VGA_WIDTH]
          = command_buffer[Len(command_buffer) - k + 1]

(* The cursor stays on the screen and the terminator fits in the buffer.   *)
TypeOK ==
  /\ term \in Screen
  /\ command_buffer \in Seq(Glyphs) /\ Len(command_buffer) < MAX_COMMAND_LENGTH
  /\ strayed \in BOOLEAN

(* A write line is taken apart as it was typed: spaces, a name without     *)
(* spaces, spaces, and contents that are the whole rest of the line.  Only *)
(* a name as long as the buffer takes may run into its contents.  What is  *)
(* refused has no such reading.                                            *)
Reads(args, name, text) ==
  \E i, j \in 0 .. Len(args) :
    LET Blanks(n) == [k \in 1 .. n |-> BLANK]
    IN  /\ args = Blanks(i) \o name \o Blanks(j) \o text
        /\ j > 0 \/ Len(name) = MAX_FILENAME - 1
IsName(s) == Len(s) \in 1 .. MAX_FILENAME - 1 /\ BLANK \notin Range(s)
IsText(s) == s # <<>> /\ Head(s) # BLANK
Parts(s)  == {SubSeq(s, m, n) : m, n \in DOMAIN s}
WriteAsTyped ==
  [][Enter /\ IsWrite(command_buffer) =>
       LET args == Tail(command_buffer)
       IN  IF call'.kind = "create"
           THEN IsName(call'.name) /\ IsText(call'.text)
                  /\ Reads(args, call'.name, call'.text)
           ELSE \A name, text \in Parts(args) :
                  IsName(name) /\ IsText(text) => ~Reads(args, name, text)]_vars

(* What is shown between the prompt and the cursor is what Enter executes, *)
(* over as many rows as it takes, as long as nothing was erased across the *)
(* start of a row: the terminal does not go back over it.                  *)
LineShown == ~strayed => \A k \in 1 .. Len(command_buffer) : ShownAt(k)

(* Even after that, the row of the cursor shows the end of the buffer, and *)
(* never more than the buffer holds.                                       *)
RowShown ==
  /\ strayed => term.column <= Len(command_buffer)
  /\ \A k \in 1 .. Len(command_buffer) : k <= term.column => ShownAt(k)
=============================================================================
