------------------------------ MODULE MCKernel ------------------------------
(* Machines with two drives on the channel, with ours alone and with none, *)
(* the last with a serial port or without.                                 *)
EXTENDS Kernel

CONSTANTS d1, d2

MCUnits == {0, 1}
MCData  == {d1, d2}
MCSessions ==
  {[drives |-> {0, 1}, port |-> FALSE, commands |-> {"sector", "disks"}],
   [drives |-> {0}, port |-> FALSE, commands |-> {"sector", "disks", "reboot"}],
   [drives |-> {}, port |-> FALSE, commands |-> {"calc", "panic", "reboot"}]}
  \cup [drives : {{}}, port : BOOLEAN, commands : {{"serial_print", "serial_read"}}]

MCBytes    == {"NUL", "x", "y"}
MCMessages == {<<>>, <<"x">>, <<"x", "y", "x">>}

(* In 5 bits: 0, 3, 10, 15 (the largest), 16 (the least, unsigned), 31     *)
(* (minus one, unsigned).                                                  *)
MCNumbers     == {<<>>, <<0>>, <<3>>, <<1, 0>>, <<1, 5>>, <<1, 6>>, <<3, 1>>}
MCExpressions == MCNumbers \X {"+", "-", "*", "/", "?"} \X MCNumbers
MCJunk        == <<-8>>
=============================================================================
