----------------------------- MODULE MCKeyboard -----------------------------
(* The two Enter keys, which have one code between them; a sign of the     *)
(* keypad, which has a character in one map only; both shifts; and         *)
(* PrintScreen, which fakes one and has the code of the keypad's asterisk. *)
EXTENDS Keyboard

MCKeys     == {"enter", "kpenter", "kpminus", "lshift", "rshift", "prtsc"}
MCCodeOf   == [k \in MCKeys |-> CASE k = "kpenter" -> "enter"
                                  [] k = "kpminus" -> "minus"
                                  [] k = "lshift"  -> "2a"
                                  [] k = "rshift"  -> "36"
                                  [] k = "prtsc"   -> "star"
                                  [] OTHER         -> k]
MCPrefixed == {"kpenter", "prtsc"}
MCFakers   == {"prtsc"}
MCShiftCodes   == {"2a", "36"}
MCPlainChars   == {"enter", "minus", "star"}
MCShiftedChars == {"enter", "star"}

MCTypists ==
  {{"repeat"}, {"rollover", "keypad"},
   {"repeat", "rollover", "shifts", "early", "keypad", "fakes"},
   {"rollover", "shifts", "keypad", "fakes", "twins"}}
=============================================================================
