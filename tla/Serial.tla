------------------------------- MODULE Serial -------------------------------
(***************************************************************************)
(* kernel/serial.h and its two commands: a 16550 polled without a bound.   *)
(* The byte being shifted out has left the transmitter's queue, whose      *)
(* emptiness is what the driver looks at.  A machine may have no port;     *)
(* reads of it then give all ones.                                         *)
(***************************************************************************)
EXTENDS Integers, Sequences, SequencesExt

CONSTANTS
  Bytes,    \* bytes the other end may send or be sent
  NUL,      \* the zero byte, one of them
  ONES,     \* the byte of all ones
  LOOP,     \* 0xAE, the byte of the loopback test
  Messages, \* what serial_print is given
  BUFFER,   \* cmd_serial_read's buffer
  FIFO      \* bound: how many bytes wait in the port

ASSUME SerialAssumption ==
  /\ NUL \in Bytes /\ ONES # NUL /\ LOOP # NUL
  /\ Messages \subseteq Seq(Bytes \ {NUL})
  /\ BUFFER \in Nat \ {0} /\ FIFO \in Nat \ {0}

VARIABLES
  port,    \* there is one
  doing,   \* "nothing", "print", "read"
  unsent,  \* the rest of the message
  thr,     \* the byte waiting to be shifted out, if any
  tsr,     \* the byte being shifted out, if any
  fifo,    \* bytes received and not read
  buffer,  \* what serial_read has stored
  message, \* history: the message;
  ahead,   \* what serial_init left in the transmitter;
  line,    \* what has left the port since then;
  arrived  \* what the port received since then

serialVars == <<port, doing, unsent, thr, tsr, fifo, buffer, message, ahead,
                line, arrived>>

SerialReset(exists) ==
  /\ port' = exists /\ doing' = "nothing"
  /\ unsent' = <<>> /\ thr' = <<>> /\ tsr' = <<>> /\ fifo' = <<>>
  /\ buffer' = <<>> /\ message' = <<>> /\ ahead' = <<>> /\ line' = <<>>
  /\ arrived' = <<>>

(* serial_init clears both queues, sends the test byte to itself, looks    *)
(* for it at once and ends the loopback.  The byte may have come by then,  *)
(* come after that look and stay, be lost, or leave on the line after all. *)
(* A byte that was being shifted out goes on, or is lost in the loopback.  *)
Emptied_NotAtAll(queue) == queue
Emptied(queue)           == <<>>

serial_init ==
  /\ \E late, out \in IF port THEN {<<>>, <<LOOP>>} ELSE {<<>>} :
       /\ late = <<>> \/ out = <<>>
       /\ fifo' = Emptied(fifo) \o late /\ arrived' = late
       /\ thr' = Emptied(thr) \o out
  /\ tsr' \in {tsr, <<>>}
  /\ ahead' = tsr' \o thr' /\ line' = <<>>

cmd_serial_print(msg) ==
  /\ doing = "nothing" /\ doing' = "print"
  /\ serial_init
  /\ unsent' = msg /\ message' = msg /\ buffer' = <<>>
  /\ UNCHANGED port

cmd_serial_read ==
  /\ doing = "nothing" /\ doing' = "read"
  /\ serial_init
  /\ unsent' = <<>> /\ message' = <<>> /\ buffer' = <<>>
  /\ UNCHANGED port

TransmitEmpty_Always == TRUE
TransmitEmpty        == thr = <<>>

write_serial ==
  /\ doing = "print" /\ unsent # <<>> /\ TransmitEmpty
  /\ thr' = IF port THEN <<Head(unsent)>> ELSE <<>>
  /\ unsent' = Tail(unsent)
  /\ UNCHANGED <<port, doing, tsr, fifo, buffer, message, ahead, line, arrived>>

PrintDone ==
  /\ doing = "print" /\ unsent = <<>> /\ doing' = "nothing"
  /\ arrived' = <<>>
  /\ UNCHANGED <<port, unsent, thr, tsr, fifo, buffer, message, ahead, line>>

SerialRoom_OffByOne == Len(buffer) < BUFFER
SerialRoom          == Len(buffer) < BUFFER - 1
Store_NotCounted(c) ==
  doing' = (IF c = NUL THEN "nothing" ELSE doing) /\ UNCHANGED buffer
Store(c) ==
  IF c = NUL THEN doing' = "nothing" /\ UNCHANGED buffer
             ELSE buffer' = Append(buffer, c) /\ UNCHANGED doing

(* read_serial waits until a byte is there.                                *)
serial_read ==
  /\ doing = "read" /\ SerialRoom
  /\ \/ port /\ fifo # <<>> /\ fifo' = Tail(fifo) /\ Store(Head(fifo))
     \/ ~port /\ UNCHANGED fifo /\ Store(ONES)
  /\ UNCHANGED <<port, unsent, thr, tsr, message, ahead, line, arrived>>

ReadDone ==
  /\ doing = "read" /\ ~SerialRoom /\ doing' = "nothing"
  /\ UNCHANGED <<port, unsent, thr, tsr, fifo, buffer, message, ahead, line,
                 arrived>>

(* The other end.  The kernel reads faster than bytes come: none is lost   *)
(* for want of room while it polls, and those before are thrown away.      *)
Shift ==
  /\ tsr = <<>> /\ thr # <<>> /\ tsr' = thr /\ thr' = <<>>
  /\ UNCHANGED <<port, doing, unsent, fifo, buffer, message, ahead, line,
                 arrived>>

Transmit ==
  /\ tsr # <<>> /\ tsr' = <<>> /\ line' = line \o tsr
  /\ UNCHANGED <<port, doing, unsent, thr, fifo, buffer, message, ahead, arrived>>

Receive(b) ==
  /\ port /\ Len(fifo) < FIFO /\ fifo' = Append(fifo, b)
  /\ arrived' = IF doing = "read" THEN Append(arrived, b) ELSE arrived
  /\ UNCHANGED <<port, doing, unsent, thr, tsr, buffer, message, ahead, line>>

SerialProgram == write_serial \/ PrintDone \/ serial_read \/ ReadDone
=============================================================================
