----------------------------- MODULE MCConsole ------------------------------
(* A screen three columns wide, on which a command of five characters      *)
(* takes two or three rows and scrolls.                                    *)
EXTENDS Console

MCGlyphs  == {" ", "a", "w"}
MCPrompt  == <<"w">>
MCOutputs == {<<>>, <<"a">>, <<"a", "newline">>}
=============================================================================
