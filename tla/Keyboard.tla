------------------------------ MODULE Keyboard ------------------------------
(***************************************************************************)
(* kernel/keyboard.c: keyboard_getchar, which polls the controller and     *)
(* turns scancodes into characters, and the keyboard in front of it: keys  *)
(* go down and up, the last one pressed repeats while it is held, and the  *)
(* codes wait in the controller, in order, until the kernel looks.  The    *)
(* kernel may look at any time: between two looks it runs commands.        *)
(*                                                                         *)
(* A key has a code, the same for press and release but for bit 7.  Some   *)
(* keys share the code of another one and send 0xE0 before it (Enter and / *)
(* of the keypad); some of those fake a shift as well, so that old         *)
(* programs take them for the keypad key with that code: they send the     *)
(* codes of left shift before theirs, or take back the shift that is down, *)
(* and undo it when they come up (PrintScreen; the grey keys, depending on *)
(* NumLock).  No character is expected of these.                           *)
(***************************************************************************)
EXTENDS Integers, Sequences

CONSTANTS
  Keys,
  CodeOf,       \* the code of each key
  Prefixed,     \* keys that send E0 before it
  Fakers,       \* those that fake a shift
  ShiftCodes,   \* the codes of the two shift keys, 0x2A and 0x36
  LSHIFT, E0,   \* 0x2A, and the prefix 0xE0
  PlainChars,   \* codes with a character in keyboard_map
  ShiftedChars, \* and those with one in keyboard_map_shifted
  QUEUE,        \* bound: codes that wait in the controller, none of them lost
  Typists       \* what typists may do: sets of "repeat" (hold a key until it
                \* repeats), "rollover" (move a key while a character key is
                \* down), "twins" (even one with the same code), "shifts"
                \* (hold both), "early" (type during boot), "keypad" (use
                \* prefixed keys with a character), "fakes" (use Fakers)

Codes     == {CodeOf[k] : k \in Keys}
ShiftKeys == {k \in Keys : CodeOf[k] \in ShiftCodes}
CharKeys  == {k \in Keys : CodeOf[k] \in PlainChars}

ASSUME KeyboardAssumption ==
  /\ QUEUE \in Nat
  /\ Fakers \subseteq Prefixed /\ Prefixed \subseteq Keys
  /\ ShiftKeys \cap Prefixed = {}
  /\ LSHIFT \in ShiftCodes /\ ShiftCodes \subseteq Codes
  /\ ShiftedChars \subseteq PlainChars /\ PlainChars \cap ShiftCodes = {}
  /\ E0 \notin Codes \cup PlainChars \cup ShiftCodes

VARIABLES
  habits,        \* the typist at this keyboard, one of Typists
  held,          \* the keys that are down
  latest,        \* {the key that repeats}, or {}
  queue,         \* the codes in the controller, each with the character the
                 \* typist meant by it: history, as none is for most codes
  ready,         \* keyboard_init has run
  shift_pressed,
  last_scancode, \* {the code}, or {} for the 0 it starts from
  answer         \* history: what the last code taken gave, and what it meant

vars == <<habits, held, latest, queue, ready, shift_pressed, last_scancode,
          answer>>

HasEntry(code, shifted) ==
  code \in IF shifted THEN ShiftedChars ELSE PlainChars

Scancode == [code : Codes \cup {E0}, up : BOOLEAN]
Meaning  == [code : PlainChars, shifted : BOOLEAN]
Char     == {m \in Meaning : HasEntry(m.code, m.shifted)}
Nothing  == <<>>
Sent     == [scan : Scancode, meant : {Nothing} \cup {<<m>> : m \in Meaning}]

ShiftDown == held \cap ShiftKeys # {}

Init ==
  /\ habits \in Typists
  /\ held = {} /\ latest = {} /\ queue = <<>>
  /\ ready = FALSE /\ shift_pressed = FALSE /\ last_scancode = {}
  /\ answer = [got |-> Nothing, meant |-> Nothing]

(* keyboard_init drops what has been typed so far.                         *)
keyboard_init ==
  /\ ~ready /\ ready' = TRUE
  /\ shift_pressed' = FALSE /\ last_scancode' = {}
  /\ queue' = <<>>
  /\ UNCHANGED <<habits, held, latest, answer>>

-----------------------------------------------------------------------------
(* The keyboard.  The codes of one move reach the controller together.     *)

Code(c, up, meant) == [scan |-> [code |-> c, up |-> up], meant |-> meant]
Prefix(k) ==
  IF k \in Prefixed THEN <<Code(E0, TRUE, Nothing)>> ELSE <<>>
FakeShift(up) == <<Code(E0, TRUE, Nothing), Code(LSHIFT, up, Nothing)>>

Send(codes) ==
  Len(queue) + Len(codes) <= QUEUE /\ queue' = queue \o codes

Typing       == ready \/ "early" \in habits
OtherHeld(k) == (held \ {k}) \cap CharKeys # {}
MayMove(k)   == OtherHeld(k) => "rollover" \in habits

(* What a faker sends before its code when it goes down.                   *)
Fakes(k) ==
  IF k \notin Fakers THEN {<<>>}
  ELSE IF ShiftDown THEN {<<>>, FakeShift(TRUE)}
       ELSE {<<>>, FakeShift(FALSE)}

(* What it sends after it has come up: with no shift down, the end of the  *)
(* one it may have faked, otherwise perhaps the one it took back.          *)
Undoes(k) ==
  IF k \notin Fakers THEN {<<>>}
  ELSE IF ShiftDown THEN {<<>>, FakeShift(FALSE)} ELSE {FakeShift(TRUE)}

MeantBy(k) ==
  IF k \in CharKeys \ Fakers
  THEN <<[code |-> CodeOf[k], shifted |-> ShiftDown]>> ELSE Nothing

Press(k) ==
  /\ Typing /\ k \notin held /\ MayMove(k)
  /\ (\E l \in held : CodeOf[l] = CodeOf[k]) => "twins" \in habits
  /\ k \in ShiftKeys /\ ShiftDown => "shifts" \in habits
  /\ k \in CharKeys \cap Prefixed => "keypad" \in habits
  /\ k \in Fakers => "fakes" \in habits
  /\ held' = held \cup {k} /\ latest' = {k}
  /\ \E fake \in Fakes(k) :
       Send(fake \o Prefix(k) \o <<Code(CodeOf[k], FALSE, MeantBy(k))>>)
  /\ UNCHANGED <<habits, ready, shift_pressed, last_scancode, answer>>

Release(k) ==
  /\ k \in held /\ MayMove(k)
  /\ held' = held \ {k} /\ latest' = latest \ {k}
  /\ \E undo \in Undoes(k) :
       Send(Prefix(k) \o <<Code(CodeOf[k], TRUE, Nothing)>> \o undo)
  /\ UNCHANGED <<habits, ready, shift_pressed, last_scancode, answer>>

Repeat ==
  /\ "repeat" \in habits
  /\ \E k \in latest : Send(Prefix(k) \o <<Code(CodeOf[k], FALSE, Nothing)>>)
  /\ UNCHANGED <<habits, held, latest, ready, shift_pressed, last_scancode,
                 answer>>

-----------------------------------------------------------------------------
(* One turn of the loop of keyboard_getchar that finds a code.             *)

Seen_Never(scan)   == FALSE
Seen_AnyMove(scan) == \E last \in last_scancode : last.code = scan.code
Seen(scan)         == scan \in last_scancode

ShiftAfter_LeftOnly(scan) ==
  IF scan.code \in ShiftCodes /\ (scan.up => scan.code = LSHIFT)
  THEN ~scan.up ELSE shift_pressed
ShiftAfter(scan) ==
  IF scan.code \in ShiftCodes THEN ~scan.up ELSE shift_pressed

GivesChar_NoZero(scan) == ~scan.up /\ scan.code \in PlainChars
GivesChar(scan)        == ~scan.up /\ HasEntry(scan.code, shift_pressed)

Getchar ==
  /\ ready /\ queue # <<>>
  /\ queue' = Tail(queue)
  /\ LET scan == Head(queue).scan
         new  == ~Seen(scan)
     IN  /\ last_scancode' = {scan}
         /\ shift_pressed' = IF new THEN ShiftAfter(scan) ELSE shift_pressed
         /\ answer' =
              [got   |-> IF new /\ GivesChar(scan)
                         THEN <<[code |-> scan.code, shifted |-> shift_pressed]>>
                         ELSE Nothing,
               meant |-> Head(queue).meant]
  /\ UNCHANGED <<habits, held, latest, ready>>

Next ==
  \/ keyboard_init \/ Getchar \/ Repeat
  \/ \E k \in Keys : Press(k) \/ Release(k)

Spec == Init /\ [][Next]_vars

-----------------------------------------------------------------------------
(* Every variable keeps its type: what is returned is a character, never   *)
(* a zero of the map it was looked up in.                                  *)
TypeOK ==
  /\ habits \in Typists
  /\ held \subseteq Keys /\ latest \subseteq held
  /\ queue \in Seq(Sent) /\ Len(queue) <= QUEUE
  /\ ready \in BOOLEAN /\ shift_pressed \in BOOLEAN
  /\ last_scancode \in {{}} \cup {{scan} : scan \in Scancode}
  /\ answer.got \in {Nothing} \cup {<<c>> : c \in Char}
  /\ answer.meant \in {Nothing} \cup {<<m>> : m \in Meaning}

(* A typist who waits for the prompt, uses one shift key at a time and no  *)
(* key that fakes one, and lets go of a key before the next one or before  *)
(* it repeats; one who lets keys repeat stays off the keypad.              *)
Careful(typist) ==
  /\ typist \cap {"shifts", "early", "fakes", "twins"} = {}
  /\ "repeat" \in typist => typist \cap {"rollover", "keypad"} = {}

(* The character the maps have for a press, if any: the keypad's signs     *)
(* have none with shift.                                                   *)
InMaps(meant) ==
  IF \E m \in Char : meant = <<m>> THEN meant ELSE Nothing

(* A careful typist's characters come back one for each press, in order    *)
(* and in the case the shift key gave them at that moment, however long    *)
(* the codes waited: no code gives anything but what was meant by it.      *)
AnswersMeant == Careful(habits) => answer.got = InMaps(answer.meant)

(* Whatever the typist does, short of holding two keys with one code, no   *)
(* press of a key that has a character is skipped, unless keyboard_init    *)
(* came between the two: but the keypad's signs are, in shift.             *)
NothingLost ==
  "twins" \notin habits /\ answer.meant # Nothing /\ answer.got = Nothing
    => shift_pressed /\ answer.meant[1].code \notin ShiftedChars

(* Shift is never left on: with no code waiting, shift_pressed means that  *)
(* a shift key is down, or a key that fakes one.                           *)
NoStuckShift ==
  queue = <<>> /\ shift_pressed => ShiftDown \/ held \cap Fakers # {}
=============================================================================
