---------------------------- MODULE Kernel_proofs ----------------------------
(* Proofs about Kernel, for any drives, sectors, limits, messages,         *)
(* sessions and expressions.                                               *)
EXTENDS Kernel, Folding, SequenceTheorems

(* From the command of a sector call to its end, our drive is the one      *)
(* selected, whichever was when the call began.                            *)
OursSelected ==
  /\ DOMAIN medium = Units
  /\ at \in {"drq", "data", "done"} => select = Ours

(* Neither a device nor the user puts the kernel inside a sector call, and *)
(* only WriteWords changes what a drive holds.                             *)
LEMMA PioStep ==
  ASSUME OursSelected, PioProgram
  PROVE  /\ OursSelected'
         /\ \A u \in Units \ {Ours} : medium'[u] = medium[u]
<1> USE DEF OursSelected
<1>1. CASE WaitReady
  <2>1. CASE LooksOn(~Bsy(select))
    BY <2>1, <1>1 DEF LooksOn
  <2>2. CASE GivesUp
    BY <2>2, <1>1 DEF GivesUp, Returns
  <2>3. CASE Met(~Bsy(select)) /\ select' = Addressed /\ UNCHANGED medium
    BY <2>3 DEF Addressed
  <2> QED BY <1>1, <2>1, <2>2, <2>3 DEF WaitReady
<1>2. CASE WaitDrq
  BY <1>2 DEF WaitDrq, LooksOn, GivesUp, Returns
<1>3. CASE ReadWords
  BY <1>3 DEF ReadWords, Returns
<1>4. CASE WriteWords
  <2>1. select = Ours /\ select' = select
    BY <1>4 DEF WriteWords
  <2>2. CASE UNCHANGED medium
    BY <2>1, <2>2
  <2>3. CASE medium' = [medium EXCEPT ![select][job[select].lba] = request.data]
    BY <2>1, <2>3
  <2> QED BY <1>4, <2>2, <2>3 DEF WriteWords
<1>5. CASE WaitDone
  BY <1>5 DEF WaitDone, LooksOn, Returns
<1>6. CASE WaitIdentify
  BY <1>6 DEF WaitIdentify, LooksOn, Returns
<1> QED BY <1>1, <1>2, <1>3, <1>4, <1>5, <1>6 DEF PioProgram

LEMMA OffStep ==
  ASSUME OursSelected, Off
  PROVE  OursSelected' /\ UNCHANGED medium
BY DEF OursSelected, Off, PioReset

LEMMA OursStep ==
  ASSUME OursSelected, [Next]_vars
  PROVE  /\ OursSelected'
         /\ \A u \in Units \ {Ours} : medium'[u] = medium[u]
<1>1. CASE UNCHANGED pioVars
  BY <1>1 DEF OursSelected, pioVars
<1>2. CASE Program
  <2>1. CASE PioProgram
    BY <2>1, PioStep
  <2>2. CASE Detect
    BY <2>2 DEF Detect, Identify, OursSelected
  <2>3. CASE Prompt
    BY <2>3, <1>1 DEF Prompt
  <2>6. CASE Detected
    BY <2>6 DEF Detected, OursSelected
  <2>4. CASE Pulse
    BY <2>4, <1>1, OffStep DEF Pulse
  <2>5. CASE pc = "serial" /\ UNCHANGED pioVars
    BY <2>5, <1>1
  <2> QED BY <1>2, <2>1, <2>2, <2>3, <2>4, <2>5, <2>6 DEF Program
<1>3. CASE User
  <2>1. CASE \E r \in Request : Sector(r)
    BY <2>1 DEF Sector, Transfer, OursSelected
  <2>2. CASE \E e \in Expressions : CalcCommand(e)
    BY <2>2, <1>1, OffStep DEF CalcCommand
  <2>3. CASE \E msg \in Messages : SerialPrint(msg)
    BY <2>3, <1>1 DEF SerialPrint
  <2>4. CASE PowerOn \/ Disks \/ SerialRead \/ Panic \/ RebootCommand
    BY <2>4, <1>1 DEF PowerOn, Disks, SerialRead, Panic, RebootCommand
  <2> QED BY <1>3, <2>1, <2>2, <2>3, <2>4 DEF User
<1>4. CASE Devices
  <2>1. CASE \E u \in Units : DriveWorks(u)
    BY <2>1 DEF DriveWorks, OursSelected
  <2>2. CASE PowerSwitch
    BY <2>2, OffStep DEF PowerSwitch
  <2>3. CASE ControllerReads
    BY <2>3, <1>1 DEF ControllerReads
  <2> QED BY <1>1, <1>4, <2>1, <2>2, <2>3 DEF Devices
<1>5. CASE UNCHANGED vars
  BY <1>1, <1>5 DEF vars
<1> QED BY <1>2, <1>3, <1>4, <1>5 DEF Next

(* The other drive on the channel is never written, whatever the drives do *)
(* and whichever of them the register selects when a sector call begins.   *)
THEOREM OtherDriveSafe == Spec => OnlyOursWritten
<1>1. Init => OursSelected
  BY DEF Init, OursSelected
<1>2. OursSelected /\ [Next]_vars => OursSelected'
  BY OursStep
<1>3. OursSelected /\ [Next]_vars
        => [\A u \in Units \ {Ours} : medium'[u] = medium[u]]_vars
  BY OursStep
<1> QED BY <1>1, <1>2, <1>3, PTL DEF Spec, OnlyOursWritten

-----------------------------------------------------------------------------
(* What has left the port, what is in it and what is still to be written   *)
(* are what serial_init left in it and the message; a command that is not  *)
(* printing has nothing to write.                                          *)
Out   == Bytes \cup {LOOP}
Place == {<<>>} \cup {<<b>> : b \in Out}

SerialTyped ==
  /\ line \in Seq(Out) /\ ahead \in Seq(Out)
  /\ tsr \in Place /\ thr \in Place
  /\ unsent \in Seq(Bytes) /\ message \in Seq(Bytes)
LeftAhead == \E old \in Place : ahead \in {old, Append(old, LOOP)}
Conserved == port => line \o tsr \o thr \o unsent = ahead \o message
AtRest ==
  /\ doing # "print" => unsent = <<>>
  /\ doing # "nothing" => pc = "serial"
PrintInv == SerialTyped /\ LeftAhead /\ Conserved /\ AtRest

LEMMA Places ==
  ASSUME NEW s \in Place
  PROVE  s \in Seq(Out) /\ Len(s) <= 1
<1>1. CASE s = <<>>
  <2>1. <<>> \in Seq(Out) /\ Len(<<>>) <= 1
    OBVIOUS
  <2> QED BY <1>1, <2>1
<1>2. ASSUME NEW b \in Out, s = <<b>> PROVE s \in Seq(Out) /\ Len(s) <= 1
  <2>1. <<b>> \in Seq(Out) /\ Len(<<b>>) <= 1
    OBVIOUS
  <2> QED BY <1>2, <2>1
<1> QED BY <1>1, <1>2 DEF Place

LEMMA EmptyConcat ==
  ASSUME NEW S, NEW s \in Seq(S)
  PROVE  s \o <<>> = s /\ <<>> \o s = s
  OBVIOUS

LEMMA Wider ==
  ASSUME NEW s \in Seq(Bytes)
  PROVE  s \in Seq(Out)
  BY DEF Out

LEMMA InitLeaves ==
  ASSUME PrintInv, serial_init
  PROVE  /\ tsr' \in Place /\ thr' \in Place /\ line' = <<>>
         /\ ahead' = tsr' \o thr' /\ ahead' \in Seq(Out) /\ LeftAhead'
<1>1. /\ tsr' \in {tsr, <<>>} /\ line' = <<>> /\ ahead' = tsr' \o thr'
      /\ thr' \in {<<>>, <<LOOP>>}
  <2>1. PICK out \in {<<>>, <<LOOP>>} : thr' = <<>> \o out
    BY DEF serial_init, Emptied
  <2>2. <<>> \in Seq(Out) /\ <<LOOP>> \in Seq(Out)
    BY DEF Out
  <2>3. thr' = out
    BY <2>1, <2>2, EmptyConcat
  <2> QED BY <2>3 DEF serial_init
<1>2. tsr' \in Place /\ thr' \in Place
  <2>1. tsr \in Place
    BY DEF PrintInv, SerialTyped
  <2>2. <<>> \in Place /\ <<LOOP>> \in Place
    BY DEF Place, Out
  <2> QED BY <1>1, <2>1, <2>2
<1>3. tsr' \in Seq(Out) /\ thr' \in Seq(Out)
  BY <1>2, Places
<1>4. ahead' \in Seq(Out)
  BY <1>1, <1>3, ConcatProperties
<1>5. ahead' \in {tsr', Append(tsr', LOOP)}
  <2>1. CASE thr' = <<>>
    BY <1>1, <1>3, <2>1, EmptyConcat
  <2>2. CASE thr' = <<LOOP>>
    <3>1. tsr' \o <<LOOP>> = Append(tsr', LOOP)
      BY <1>3
    <3> QED BY <1>1, <2>2, <3>1
  <2> QED BY <1>1, <2>1, <2>2
<1> QED BY <1>1, <1>2, <1>4, <1>5 DEF LeftAhead

LEMMA PrintStart ==
  ASSUME PrintInv, NEW msg \in Messages, cmd_serial_print(msg), pc' = "serial"
  PROVE  PrintInv'
<1>1. msg \in Seq(Bytes)
  <2>1. msg \in Seq(Bytes \ {NUL})
    BY SerialAssumption
  <2> QED BY <2>1
<1>2. /\ tsr' \in Place /\ thr' \in Place /\ line' = <<>>
      /\ ahead' = tsr' \o thr' /\ ahead' \in Seq(Out) /\ LeftAhead'
      /\ unsent' = msg /\ message' = msg /\ doing' = "print"
  BY InitLeaves DEF cmd_serial_print
<1>3. line' \o tsr' \o thr' \o unsent' = ahead' \o message'
  <2>1. tsr' \in Seq(Out)
    BY <1>2, Places
  <2>2. line' \o tsr' = tsr'
    BY <1>2, <2>1, EmptyConcat
  <2> QED BY <1>2, <2>2
<1>4. SerialTyped'
  <2>1. <<>> \in Seq(Out)
    OBVIOUS
  <2> QED BY <1>1, <1>2, <2>1 DEF SerialTyped
<1> QED BY <1>2, <1>3, <1>4 DEF PrintInv, Conserved, AtRest

LEMMA ReadStart ==
  ASSUME PrintInv, cmd_serial_read, pc' = "serial"
  PROVE  PrintInv'
<1>1. /\ tsr' \in Place /\ thr' \in Place /\ line' = <<>>
      /\ ahead' = tsr' \o thr' /\ ahead' \in Seq(Out) /\ LeftAhead'
      /\ unsent' = <<>> /\ message' = <<>> /\ doing' = "read"
  BY InitLeaves DEF cmd_serial_read
<1>2. line' \o tsr' \o thr' \o unsent' = ahead' \o message'
  <2>1. tsr' \in Seq(Out)
    BY <1>1, Places
  <2>2. line' \o tsr' = tsr'
    BY <1>1, <2>1, EmptyConcat
  <2> QED BY <1>1, <2>2
<1>3. SerialTyped'
  <2>1. <<>> \in Seq(Out) /\ <<>> \in Seq(Bytes)
    OBVIOUS
  <2> QED BY <1>1, <2>1 DEF SerialTyped
<1> QED BY <1>1, <1>2, <1>3 DEF PrintInv, Conserved, AtRest

LEMMA WriteByte ==
  ASSUME PrintInv, write_serial, pc' = pc
  PROVE  PrintInv'
<1>1. /\ unsent \in Seq(Bytes) /\ unsent # <<>> /\ unsent' = Tail(unsent)
      /\ thr = <<>> /\ thr' = IF port THEN <<Head(unsent)>> ELSE <<>>
      /\ UNCHANGED <<port, doing, tsr, message, ahead, line>>
  BY DEF PrintInv, SerialTyped, write_serial, TransmitEmpty
<1>2. Head(unsent) \in Bytes /\ Tail(unsent) \in Seq(Bytes)
  BY <1>1
<1>3. thr' \in Place
  BY <1>1, <1>2 DEF Place, Out
<1>4. SerialTyped' /\ LeftAhead'
  BY <1>1, <1>2, <1>3 DEF PrintInv, SerialTyped, LeftAhead
<1>5. Conserved'
  <2> SUFFICES ASSUME port PROVE line \o tsr \o thr' \o unsent' = ahead \o message
    BY <1>1 DEF Conserved
  <2>1. thr' = <<Head(unsent)>>
    BY <1>1
  <2>2. unsent = thr' \o unsent'
    BY <1>1, <1>2, <2>1
  <2> PICK x \in Seq(Out) : x = line \o tsr
    <3>1. line \in Seq(Out) /\ tsr \in Seq(Out)
      BY Places DEF PrintInv, SerialTyped
    <3> QED BY <3>1, ConcatProperties
  <2>3. thr' \in Seq(Out) /\ unsent' \in Seq(Out) /\ unsent \in Seq(Out)
    BY <1>1, <1>2, <1>3, Places, Wider
  <2>4. x \o thr' \o unsent' = x \o unsent
    BY <2>2, <2>3, ConcatAssociative
  <2>5. x \o thr = x
    BY <1>1, EmptyConcat
  <2> QED BY <2>4, <2>5 DEF PrintInv, Conserved
<1> QED BY <1>1, <1>4, <1>5 DEF PrintInv, AtRest, write_serial

LEMMA ByteShifts ==
  ASSUME PrintInv, Shift, pc' = pc
  PROVE  PrintInv'
<1>1. /\ tsr = <<>> /\ tsr' = thr /\ thr' = <<>>
      /\ UNCHANGED <<port, doing, unsent, message, ahead, line>>
  BY DEF Shift
<1>2. line \in Seq(Out) /\ thr \in Seq(Out) /\ thr \in Place
  BY Places DEF PrintInv, SerialTyped
<1>3. line \o tsr' \o thr' = line \o tsr \o thr
  <2>1. line \o thr \in Seq(Out)
    BY <1>2, ConcatProperties
  <2>2. line \o thr \o <<>> = line \o thr /\ line \o <<>> = line
    BY <1>2, <2>1, EmptyConcat
  <2> QED BY <1>1, <2>2
<1>4. SerialTyped'
  <2>1. <<>> \in Place
    BY DEF Place
  <2> QED BY <1>1, <1>2, <2>1 DEF PrintInv, SerialTyped
<1> QED BY <1>1, <1>3, <1>4 DEF PrintInv, LeftAhead, Conserved, AtRest

LEMMA ByteLeaves ==
  ASSUME PrintInv, Transmit, pc' = pc
  PROVE  PrintInv'
<1>1. /\ tsr' = <<>> /\ line' = line \o tsr
      /\ UNCHANGED <<port, doing, unsent, message, ahead, thr>>
  BY DEF Transmit
<1>2. line \in Seq(Out) /\ tsr \in Seq(Out)
  BY Places DEF PrintInv, SerialTyped
<1>3. line' \in Seq(Out)
  BY <1>1, <1>2, ConcatProperties
<1>4. line' \o tsr' = line \o tsr
  BY <1>1, <1>3, EmptyConcat
<1>5. SerialTyped'
  <2>1. <<>> \in Place
    BY DEF Place
  <2> QED BY <1>1, <1>3, <2>1 DEF PrintInv, SerialTyped
<1> QED BY <1>1, <1>4, <1>5 DEF PrintInv, LeftAhead, Conserved, AtRest

LEMMA SerialStep ==
  ASSUME PrintInv, SerialProgram, pc = "serial", pc' = pc
  PROVE  PrintInv'
<1>1. CASE write_serial
  BY <1>1, WriteByte
<1>2. CASE PrintDone
  BY <1>2 DEF PrintDone, PrintInv, SerialTyped, LeftAhead, Conserved, AtRest
<1>3. CASE serial_read
  BY <1>3 DEF serial_read, Store, PrintInv, SerialTyped, LeftAhead, Conserved, AtRest
<1>4. CASE ReadDone
  BY <1>4 DEF ReadDone, PrintInv, SerialTyped, LeftAhead, Conserved, AtRest
<1> QED BY <1>1, <1>2, <1>3, <1>4 DEF SerialProgram

(* Steps that leave the port alone: the thread is not in a serial command  *)
(* before or after them, or stays where it is.                             *)
LEMMA PortAlone ==
  ASSUME PrintInv, UNCHANGED serialVars,
         pc' = pc \/ pc # "serial" \/ doing = "nothing"
  PROVE  PrintInv'
BY DEF serialVars, PrintInv, SerialTyped, LeftAhead, Conserved, AtRest

LEMMA PortEmpty ==
  ASSUME tsr = <<>>, thr = <<>>, unsent = <<>>, message = <<>>, ahead = <<>>,
         line = <<>>, doing = "nothing"
  PROVE  PrintInv
<1>1. /\ <<>> \in Seq(Out) /\ <<>> \in Seq(Bytes) /\ <<>> \in Place
      /\ <<>> \o <<>> = <<>>
  BY DEF Place
<1>2. SerialTyped /\ LeftAhead
  BY <1>1 DEF SerialTyped, LeftAhead
<1>3. line \o tsr \o thr \o unsent = ahead \o message
  BY <1>1
<1> QED BY <1>2, <1>3 DEF PrintInv, Conserved, AtRest

LEMMA PortReset ==
  ASSUME Off
  PROVE  PrintInv'
<1>1. /\ tsr' = <<>> /\ thr' = <<>> /\ unsent' = <<>> /\ message' = <<>>
      /\ ahead' = <<>> /\ line' = <<>> /\ doing' = "nothing"
  BY DEF Off, SerialReset
<1>2. /\ <<>> \in Seq(Out) /\ <<>> \in Seq(Bytes) /\ <<>> \in Place
      /\ <<>> \o <<>> = <<>>
  BY DEF Place
<1>3. SerialTyped' /\ LeftAhead'
  BY <1>1, <1>2 DEF SerialTyped, LeftAhead
<1>4. line' \o tsr' \o thr' \o unsent' = ahead' \o message'
  BY <1>1, <1>2
<1> QED BY <1>1, <1>3, <1>4 DEF PrintInv, Conserved, AtRest

LEMMA PrintStep ==
  ASSUME PrintInv, [Next]_vars
  PROVE  PrintInv'
<1>1. CASE Program
  <2>1. CASE PioProgram /\ UNCHANGED <<kernelVars, serialVars, pc, detect>>
    BY <2>1, PortAlone
  <2>2. CASE pc = "serial" /\ SerialProgram /\ pc' = pc
    BY <2>2, SerialStep
  <2>3. CASE Detect
    BY <2>3, PortAlone DEF Detect
  <2>4. CASE Detected
    BY <2>4, PortAlone DEF Detected
  <2>5. CASE Prompt
    BY <2>5, PortAlone DEF Prompt
  <2>6. CASE Pulse
    BY <2>6, PortAlone, PortReset DEF Pulse
  <2> QED BY <1>1, <2>1, <2>2, <2>3, <2>4, <2>5, <2>6 DEF Program
<1>2. CASE User
  <2>1. CASE \E msg \in Messages : SerialPrint(msg)
    BY <2>1, PrintStart DEF SerialPrint
  <2>2. CASE SerialRead
    BY <2>2, ReadStart DEF SerialRead
  <2>3. CASE \E e \in Expressions : CalcCommand(e)
    BY <2>3, PortAlone, PortReset DEF CalcCommand
  <2>4. CASE \E r \in Request : Sector(r)
    BY <2>4, PortAlone DEF Sector, Types
  <2>5. CASE PowerOn \/ Disks \/ Panic \/ RebootCommand
    BY <2>5, PortAlone DEF PowerOn, Disks, Panic, RebootCommand, Types
  <2> QED BY <1>2, <2>1, <2>2, <2>3, <2>4, <2>5 DEF User
<1>3. CASE Devices
  <2>1. CASE Transmit /\ pc' = pc
    BY <2>1, ByteLeaves
  <2>2. CASE (\E b \in Bytes : Receive(b)) /\ pc' = pc
    BY <2>2 DEF Receive, PrintInv, SerialTyped, LeftAhead, Conserved, AtRest
  <2>3. CASE UNCHANGED <<serialVars, pc>>
    BY <2>3, PortAlone
  <2>4. CASE PowerSwitch
    BY <2>4, PortReset DEF PowerSwitch
  <2>5. CASE Shift /\ pc' = pc
    BY <2>5, ByteShifts
  <2> QED BY <1>3, <2>1, <2>2, <2>3, <2>4, <2>5 DEF Devices, ControllerReads
<1>4. CASE UNCHANGED vars
  BY <1>4, PortAlone DEF vars
<1> QED BY <1>1, <1>2, <1>3, <1>4 DEF Next

(* serial_print hands over every byte of its message once and in order,    *)
(* for any message, however slow the transmitter, behind at most the byte  *)
(* that was being shifted out and the byte of serial_init's test; only two *)
(* bytes may still be in the port when the prompt is back.                 *)
THEOREM PrintCorrect == Spec => []PrintedInOrder
<1>1. Init => PrintInv
  BY PortEmpty DEF Init
<1>2. PrintInv /\ [Next]_vars => PrintInv'
  BY PrintStep
<1>3. PrintInv => PrintedInOrder
  <2> SUFFICES ASSUME PrintInv PROVE PrintedInOrder
    OBVIOUS
  <2>1. Len(tsr) <= 1 /\ Len(thr) <= 1
    BY Places DEF PrintInv, SerialTyped
  <2>2. \E old \in {<<>>} \cup {<<b>> : b \in Bytes \cup {LOOP}} :
          ahead \in {old, Append(old, LOOP)}
    BY DEF PrintInv, LeftAhead, Place, Out
  <2> QED BY <2>1, <2>2 DEF PrintInv, Conserved, AtRest, PrintedInOrder
<1> QED BY <1>1, <1>2, <1>3, PTL DEF Spec

-----------------------------------------------------------------------------
(* While a read is under way, what is stored and what waits is what came;  *)
(* after it the reason it ended stays visible in what came.                *)
Chars == Bytes \cup {ONES, LOOP}
ReadTyped ==
  /\ buffer \in Seq(Chars) /\ fifo \in Seq(Chars) /\ arrived \in Seq(Chars)
  /\ Len(buffer) <= BUFFER - 1
NoNul == \A k \in DOMAIN buffer : buffer[k] # NUL
Came ==
  /\ ~port => arrived = <<>>
  /\ doing = "read" /\ port => buffer \o fifo = arrived
  /\ port => IsPrefix(buffer, arrived)
  /\ doing = "print" => buffer = <<>>
Ended ==
  doing = "nothing" /\ arrived # <<>> =>
    Len(buffer) = BUFFER - 1 \/ arrived[Len(buffer) + 1] = NUL
Idle    == doing # "nothing" => pc = "serial"
ReadInv == ReadTyped /\ NoNul /\ Came /\ Ended /\ Idle

LEMMA PrefixOfConcat ==
  ASSUME NEW S, NEW s \in Seq(S), NEW t \in Seq(S)
  PROVE  IsPrefix(s, s \o t)
BY DEF IsPrefix

LEMMA AppendConcat ==
  ASSUME NEW S, NEW s \in Seq(S), NEW t \in Seq(S), NEW c \in S
  PROVE  Append(s, c) \o t = s \o (<<c>> \o t)
<1>1. <<c>> \in Seq(S) /\ Append(s, c) = s \o <<c>>
  OBVIOUS
<1> QED BY <1>1, ConcatAssociative

LEMMA EmptyPrefix ==
  ASSUME NEW S, NEW t \in Seq(S)
  PROVE  IsPrefix(<<>>, t)
BY DEF IsPrefix

LEMMA NothingRead == <<>> \in Seq(Chars) /\ IsPrefix(<<>>, <<>>)
<1>1. <<>> \in Seq(Chars)
  OBVIOUS
<1> QED BY <1>1 DEF IsPrefix

(* serial_init with an empty buffer.                                       *)
LEMMA ReadInit ==
  ASSUME serial_init, port' = port, buffer' = <<>>,
         doing' \in {"print", "read"}, pc' = "serial"
  PROVE  ReadInv'
<1>1. fifo' = arrived' /\ fifo' \in {<<>>, <<LOOP>>} /\ (~port => arrived' = <<>>)
  BY DEF serial_init, Emptied
<1>2. ReadTyped'
  <2>1. Len(buffer') <= BUFFER - 1
    <3>1. BUFFER \in Nat /\ BUFFER >= 1
      BY SerialAssumption
    <3>2. Len(buffer') = 0
      OBVIOUS
    <3> QED BY <3>1, <3>2
  <2>2. <<>> \in Seq(Chars) /\ <<LOOP>> \in Seq(Chars)
    BY DEF Chars
  <2> QED BY <1>1, <2>1, <2>2 DEF ReadTyped
<1>3. buffer' \o fifo' = arrived'
  BY <1>1, <1>2 DEF ReadTyped
<1>4. IsPrefix(buffer', arrived')
  BY <1>2, EmptyPrefix DEF ReadTyped
<1> QED BY <1>1, <1>2, <1>3, <1>4 DEF ReadInv, NoNul, Came, Ended, Idle

LEMMA ReadByte ==
  ASSUME ReadInv, serial_read, pc' = pc
  PROVE  ReadInv'
<1> USE DEF ReadInv, serial_read
<1>1. /\ Len(buffer) < BUFFER - 1 /\ BUFFER \in Nat /\ arrived' = arrived
      /\ buffer \in Seq(Chars) /\ fifo \in Seq(Chars) /\ arrived \in Seq(Chars)
  BY SerialAssumption DEF ReadTyped, SerialRoom
<1>2. CASE ~port
  <2>1. buffer' = Append(buffer, ONES) /\ doing' = doing /\ fifo' = fifo
    BY <1>2, SerialAssumption DEF Store
  <2>2. ReadTyped'
    BY <1>1, <2>1 DEF ReadTyped, Chars
  <2>3. NoNul'
    BY <1>1, <2>1, SerialAssumption DEF NoNul, Chars
  <2> QED BY <1>1, <1>2, <2>1, <2>2, <2>3 DEF Came, Ended, Idle
<1>3. CASE port
  <2> DEFINE c == Head(fifo)
  <2>1. fifo # <<>> /\ fifo' = Tail(fifo) /\ Store(c)
    BY <1>3
  <2>2. c \in Chars /\ fifo' \in Seq(Chars) /\ fifo = <<c>> \o fifo'
    BY <1>1, <2>1
  <2>3. arrived = buffer \o fifo
    BY <1>3 DEF Came
  <2>4. CASE c = NUL
    <3>1. buffer' = buffer /\ doing' = "nothing"
      BY <2>1, <2>4 DEF Store
    <3>2. arrived[Len(buffer) + 1] = NUL
      BY <1>1, <2>1, <2>3, <2>4
    <3> QED BY <1>1, <1>3, <2>2, <3>1, <3>2 DEF ReadTyped, NoNul, Came, Ended, Idle
  <2>5. CASE c # NUL
    <3>1. buffer' = Append(buffer, c) /\ doing' = doing
      BY <2>1, <2>5 DEF Store
    <3>2. buffer' \in Seq(Chars) /\ Len(buffer') <= BUFFER - 1
      BY <1>1, <2>2, <3>1
    <3>3. buffer' \o fifo' = arrived
      <4> HIDE DEF ReadInv, serial_read, c
      <4>1. Append(buffer, c) \o fifo' = buffer \o (<<c>> \o fifo')
        BY <1>1, <2>2, AppendConcat
      <4> QED BY <2>2, <2>3, <3>1, <4>1
    <3>4. IsPrefix(buffer', arrived)
      BY <2>2, <3>2, <3>3, PrefixOfConcat
    <3>5. NoNul'
      BY <1>1, <2>5, <3>1 DEF NoNul
    <3> QED BY <1>1, <1>3, <2>2, <3>1, <3>2, <3>3, <3>4, <3>5
            DEF ReadTyped, Came, Ended, Idle
  <2> QED BY <2>4, <2>5
<1> QED BY <1>2, <1>3

LEMMA ByteArrives ==
  ASSUME ReadInv, NEW b \in Bytes, Receive(b), pc' = pc
  PROVE  ReadInv'
<1> USE DEF ReadInv, Receive
<1>1. /\ buffer \in Seq(Chars) /\ fifo \in Seq(Chars) /\ arrived \in Seq(Chars)
      /\ b \in Chars
  BY DEF ReadTyped, Chars
<1>2. ReadTyped'
  BY <1>1 DEF ReadTyped
<1>3. CASE doing # "read"
  BY <1>2, <1>3 DEF NoNul, Came, Ended, Idle
<1>4. CASE doing = "read"
  <2>1. arrived' = Append(arrived, b) /\ fifo' = Append(fifo, b) /\ port
    BY <1>4
  <2>2. arrived = buffer \o fifo
    BY <1>4, <2>1 DEF Came
  <2>3. buffer \o fifo' = arrived'
    BY <1>1, <2>1, <2>2, SMTT(30)
  <2>4. IsPrefix(buffer, arrived')
    BY <1>1, <1>2, <2>3, PrefixOfConcat DEF ReadTyped
  <2> QED BY <1>2, <1>4, <2>3, <2>4 DEF NoNul, Came, Ended, Idle
<1> QED BY <1>3, <1>4

LEMMA ReadEnds ==
  ASSUME ReadInv, ReadDone, pc' = pc
  PROVE  ReadInv'
<1>1. Len(buffer) = BUFFER - 1
  <2>1. Len(buffer) \in Nat /\ BUFFER \in Nat
    BY SerialAssumption DEF ReadInv, ReadTyped
  <2> QED BY <2>1 DEF ReadInv, ReadTyped, ReadDone, SerialRoom
<1> QED BY <1>1 DEF ReadInv, ReadTyped, ReadDone, NoNul, Came, Ended, Idle

LEMMA PrintEnds ==
  ASSUME ReadInv, PrintDone, pc' = pc
  PROVE  ReadInv'
<1>1. <<>> \in Seq(Chars) /\ IsPrefix(<<>>, <<>>)
  BY NothingRead
<1> QED BY <1>1 DEF ReadInv, ReadTyped, PrintDone, NoNul, Came, Ended, Idle

LEMMA ReadSerialStep ==
  ASSUME ReadInv, SerialProgram, pc = "serial", pc' = pc
  PROVE  ReadInv'
<1>1. CASE write_serial
  BY <1>1 DEF write_serial, ReadInv, ReadTyped, NoNul, Came, Ended, Idle
<1> QED BY <1>1, PrintEnds, ReadByte, ReadEnds DEF SerialProgram

(* As PortAlone and PortReset.                                             *)
LEMMA ReaderAlone ==
  ASSUME ReadInv, UNCHANGED serialVars,
         pc' = pc \/ pc # "serial" \/ doing = "nothing"
  PROVE  ReadInv'
BY DEF serialVars, ReadInv, ReadTyped, NoNul, Came, Ended, Idle

LEMMA ReaderReset ==
  ASSUME Off
  PROVE  ReadInv'
<1>1. <<>> \in Seq(Chars) /\ IsPrefix(<<>>, <<>>)
  BY NothingRead
<1>2. BUFFER \in Nat /\ BUFFER >= 1
  BY SerialAssumption
<1> QED
  BY <1>1, <1>2
  DEF Off, SerialReset, ReadInv, ReadTyped, NoNul, Came, Ended, Idle

LEMMA ReadStep ==
  ASSUME ReadInv, [Next]_vars
  PROVE  ReadInv'
<1>1. CASE Program
  <2>1. CASE PioProgram /\ UNCHANGED <<kernelVars, serialVars, pc, detect>>
    BY <2>1, ReaderAlone
  <2>2. CASE pc = "serial" /\ SerialProgram /\ pc' = pc
    BY <2>2, ReadSerialStep
  <2>3. CASE Detect
    BY <2>3, ReaderAlone DEF Detect
  <2>4. CASE Detected
    <3>1. pc # "serial" /\ UNCHANGED serialVars
      BY <2>4 DEF Detected
    <3> QED BY <3>1, ReaderAlone
  <2>5. CASE Prompt
    <3>1. (pc # "serial" \/ doing = "nothing") /\ UNCHANGED serialVars
      BY <2>5 DEF Prompt
    <3> QED BY <3>1, ReaderAlone
  <2>6. CASE Pulse
    BY <2>6, ReaderAlone, ReaderReset DEF Pulse
  <2> QED BY <1>1, <2>1, <2>2, <2>3, <2>4, <2>5, <2>6 DEF Program
<1>2. CASE User
  <2>1. CASE \E msg \in Messages : SerialPrint(msg)
    BY <2>1, ReadInit DEF SerialPrint, cmd_serial_print
  <2>2. CASE SerialRead
    BY <2>2, ReadInit DEF SerialRead, cmd_serial_read
  <2>3. CASE \E e \in Expressions : CalcCommand(e)
    BY <2>3, ReaderAlone, ReaderReset DEF CalcCommand
  <2>4. CASE \E r \in Request : Sector(r)
    BY <2>4, ReaderAlone DEF Sector, Types
  <2>5. CASE PowerOn \/ Disks \/ Panic \/ RebootCommand
    BY <2>5, ReaderAlone DEF PowerOn, Disks, Panic, RebootCommand, Types
  <2> QED BY <1>2, <2>1, <2>2, <2>3, <2>4, <2>5 DEF User
<1>3. CASE Devices
  <2>1. CASE Transmit /\ pc' = pc
    BY <2>1 DEF Transmit, ReadInv, ReadTyped, NoNul, Came, Ended, Idle
  <2>2. CASE (\E b \in Bytes : Receive(b)) /\ pc' = pc
    BY <2>2, ByteArrives
  <2>3. CASE UNCHANGED <<serialVars, pc>>
    BY <2>3, ReaderAlone
  <2>4. CASE PowerSwitch
    BY <2>4, ReaderReset DEF PowerSwitch
  <2>5. CASE Shift /\ pc' = pc
    BY <2>5 DEF Shift, ReadInv, ReadTyped, NoNul, Came, Ended, Idle
  <2> QED BY <1>3, <2>1, <2>2, <2>3, <2>4, <2>5 DEF Devices, ControllerReads
<1>4. CASE UNCHANGED vars
  BY <1>4, ReaderAlone DEF vars
<1> QED BY <1>1, <1>2, <1>3, <1>4 DEF Next

LEMMA ReadInvStart == Init => ReadInv
<1>1. <<>> \in Seq(Chars) /\ IsPrefix(<<>>, <<>>)
  BY NothingRead
<1>2. BUFFER \in Nat /\ BUFFER >= 1
  BY SerialAssumption
<1> QED
  BY <1>1, <1>2 DEF Init, ReadInv, ReadTyped, NoNul, Came, Ended, Idle

(* serial_read returns what came after serial_init, in order, up to the    *)
(* first NUL or as much as fits, for any buffer and any line.              *)
THEOREM ReadCorrect == Spec => []ReadInOrder
<1>1. Init => ReadInv
  BY ReadInvStart
<1>2. ReadInv /\ [Next]_vars => ReadInv'
  BY ReadStep
<1>3. ReadInv => ReadInOrder
  BY DEF ReadInv, NoNul, Came, Ended, Idle, ReadInOrder
<1> QED BY <1>1, <1>2, <1>3, PTL DEF Spec

-----------------------------------------------------------------------------
(* Types, and what holds between a drive and the loop that waits for it.   *)
Active == {"working", "give", "take"}

(* A drive that moves or will move a sector is at a command, and waits to  *)
(* take words for a WRITE alone.                                           *)
DriveInv ==
  \A u \in Units :
    /\ phase[u] \in Active => job[u].op # "none"
    /\ phase[u] = "take" => job[u].op = "WRITE"
    /\ phase[u] = "give" => job[u].op # "WRITE"

(* What each loop may rely on: the call has no answer yet, the command it  *)
(* sent is the one the drive is at if the drive took it, and the drive     *)
(* still waits when the words are moved.                                   *)
Sent == [op |-> request.op, lba |-> request.lba]
CallInv ==
  /\ at \in {"ready", "drq", "data", "done"} => request \in Request
  /\ at \in {"ready", "drq", "data"} => answer = Pending
  /\ at = "identify" => request = NoRequest
  /\ at \in {"idle", "ready"} => ~accepted
  /\ at \in {"drq", "data", "done"} => select = Ours
  /\ at = "data" => phase[Ours] \in {"give", "take"}
  /\ at \in {"drq", "data"} /\ accepted /\ phase[Ours] \in Active => job[Ours] = Sent
  /\ at = "identify" /\ accepted /\ phase[select] \in Active => job[select] = IDENTIFY
  /\ at = "done" /\ accepted => phase[Ours] \notin Active
PioInv == PioType /\ DriveInv /\ CallInv

LEMMA Commands ==
  /\ NoJob \in Command /\ IDENTIFY \in Command
  /\ NoRequest.op = "none" /\ NoRequest \notin Request
  /\ NoJob.op = "none" /\ IDENTIFY.op = "IDENTIFY"
  /\ \A r \in Request : /\ [op |-> r.op, lba |-> r.lba] \in Command
                        /\ r.op \in {"READ", "WRITE"} /\ r.lba \in LBA
                        /\ r.op = "WRITE" => r.data \in Data
<1>1. (CHOOSE l \in LBA : TRUE) \in LBA
  BY PioAssumption
<1> QED BY <1>1 DEF NoJob, IDENTIFY, NoRequest, Command, Request

(* The two limits and what is left of them are within the type's bound.    *)
Looks == 0 .. (IF LIMIT > ID_LIMIT THEN LIMIT ELSE ID_LIMIT)
LEMMA LooksFit ==
  /\ 0 \in Looks /\ LIMIT \in Looks /\ ID_LIMIT - 1 \in Looks
  /\ \A t \in Looks : t > 0 => t - 1 \in Looks
BY PioAssumption DEF Looks

LEMMA LookKeeps ==
  ASSUME PioInv, NEW goal, LooksOn(goal)
  PROVE  PioInv'
<1>1. timeout \in Looks /\ timeout > 0 /\ timeout' = timeout - 1
  BY DEF PioInv, PioType, Looks, LooksOn, Left
<1>2. PioType'
  BY <1>1, LooksFit DEF PioInv, PioType, Looks, LooksOn
<1> QED BY <1>2 DEF PioInv, DriveInv, CallInv, Sent, LooksOn

LEMMA GiveUpKeeps ==
  ASSUME PioInv, GivesUp
  PROVE  PioInv'
BY LooksFit DEF PioInv, PioType, DriveInv, CallInv, Sent, GivesUp, Returns, Looks, At

LEMMA ReturnKeeps ==
  ASSUME PioInv, Returns, UNCHANGED <<phase, job, medium, select, request, answer>>
  PROVE  PioInv'
BY LooksFit DEF PioInv, PioType, DriveInv, CallInv, Sent, Returns, Looks, At

(* A drive's place in a command changes for itself alone.                  *)
LEMMA EndsKeeps ==
  ASSUME PioInv, NEW u \in Units, NEW p \in {"ready", "error", "store"}, Ends(u, p)
  PROVE  /\ phase' \in [Units -> Phases] /\ job' \in [Units -> Command]
         /\ DriveInv' /\ phase'[u] = p
         /\ \A v \in Units \ {u} : phase'[v] = phase[v] /\ job'[v] = job[v]
BY Commands DEF PioInv, PioType, DriveInv, Ends, Phases, Active

LEMMA CommandedKeeps ==
  ASSUME PioInv, NEW u \in Units, NEW c \in Command, c.op # "none", Commanded(u, c)
  PROVE  /\ phase' \in [Units -> Phases] /\ job' \in [Units -> Command]
         /\ accepted' \in BOOLEAN /\ DriveInv'
         /\ accepted' => phase'[u] = "working" /\ job'[u] = c /\ phase[u] # "none"
         /\ ~accepted' => phase' = phase /\ job' = job
         /\ \A v \in Units \ {u} : phase'[v] = phase[v] /\ job'[v] = job[v]
<1>1. CASE accepted' = TRUE
  BY <1>1, ZenonT(30) DEF PioInv, PioType, DriveInv, Commanded, Phases, Active
<1>2. CASE accepted' = FALSE
  BY <1>2 DEF PioInv, PioType, DriveInv, Commanded
<1> QED BY <1>1, <1>2 DEF Commanded

LEMMA ReadyKeeps ==
  ASSUME PioInv, WaitReady
  PROVE  PioInv'
<1>1. CASE LooksOn(~Bsy(select))
  BY <1>1, LookKeeps
<1>2. CASE GivesUp
  BY <1>2, GiveUpKeeps
<1>3. CASE /\ select' = Ours /\ Commanded(select', Sent)
           /\ at' = "drq" /\ timeout' = LIMIT
           /\ UNCHANGED <<medium, request, answer>>
  <2>1. request \in Request /\ answer = Pending /\ Ours \in Units
    BY PioAssumption DEF WaitReady, PioInv, CallInv
  <2>2. Sent \in Command /\ Sent.op # "none"
    BY <2>1, Commands DEF Sent
  <2>3. PioType'
    BY <1>3, <2>1, <2>2, CommandedKeeps, LooksFit DEF PioInv, PioType, At, Looks
  <2>4. DriveInv'
    BY <1>3, <2>1, <2>2, CommandedKeeps
  <2>5. Sent' = Sent
    BY <1>3 DEF Sent
  <2>6. accepted' => phase'[Ours] = "working" /\ job'[Ours] = Sent
    BY <1>3, <2>1, <2>2, CommandedKeeps
  <2>7. CallInv'
    BY <1>3, <2>1, <2>5, <2>6 DEF CallInv, Active
  <2> QED BY <2>3, <2>4, <2>7 DEF PioInv
<1> QED BY <1>1, <1>2, <1>3 DEF WaitReady, Addressed, Sent

LEMMA DrqKeeps ==
  ASSUME PioInv, WaitDrq
  PROVE  PioInv'
<1>1. CASE LooksOn(Drq(select))
  BY <1>1, LookKeeps
<1>2. CASE GivesUp
  BY <1>2, GiveUpKeeps
<1>3. CASE /\ Met(Drq(select)) /\ at' = "data"
           /\ UNCHANGED <<phase, job, medium, select, timeout, request, answer, accepted>>
  BY <1>3 DEF WaitDrq, Met, Drq, PioInv, PioType, At, DriveInv, CallInv, Sent
<1> QED BY <1>1, <1>2, <1>3 DEF WaitDrq

LEMMA GivenTyped ==
  ASSUME PioInv, NEW u \in Units
  PROVE  Given(u) \in Data \cup {NOISE}
BY DEF PioInv, PioType, Given, Command

LEMMA ReadKeeps ==
  ASSUME PioInv, ReadWords
  PROVE  PioInv'
<1>1. select \in Units /\ select' = select /\ medium' = medium /\ request' = request
  BY DEF ReadWords, PioInv, PioType
<1>2. phase' \in [Units -> Phases] /\ job' \in [Units -> Command] /\ DriveInv'
  <2>1. CASE phase[select] = "give"
    BY <1>1, <2>1, EndsKeeps DEF ReadWords
  <2>2. CASE phase[select] # "give"
    BY <2>2 DEF ReadWords, PioInv, PioType, DriveInv
  <2> QED BY <2>1, <2>2
<1>3. answer' \in {Done(d) : d \in Data \cup {NOISE}}
  BY <1>1, GivenTyped DEF ReadWords
<1>4. at' = "idle" /\ timeout' = 0 /\ accepted' = FALSE
  BY DEF ReadWords, Returns
<1>5. PioType'
  BY <1>1, <1>2, <1>3, <1>4, LooksFit DEF PioInv, PioType, At, Looks
<1>6. CallInv'
  BY <1>4 DEF CallInv
<1> QED BY <1>2, <1>5, <1>6 DEF PioInv

LEMMA WriteKeeps ==
  ASSUME PioInv, WriteWords
  PROVE  PioInv'
<1>1. /\ select = Ours /\ Ours \in Units /\ select' = select
      /\ request \in Request /\ request.op = "WRITE" /\ request' = request
      /\ at' = "done" /\ timeout' = LIMIT /\ accepted' = accepted
      /\ answer' = Done(NOISE)
  BY PioAssumption DEF WriteWords, PioInv, CallInv
<1>2. phase' \in [Units -> Phases] /\ job' \in [Units -> Command] /\ DriveInv'
  <2>1. CASE phase[select] = "take"
    BY <1>1, <2>1, EndsKeeps DEF WriteWords
  <2>2. CASE phase[select] # "take"
    BY <2>2 DEF WriteWords, PioInv, PioType, DriveInv
  <2> QED BY <2>1, <2>2
<1>3. medium' \in [Units -> [LBA -> Data]]
  <2>1. CASE UNCHANGED medium
    BY <2>1 DEF PioInv, PioType
  <2>2. CASE medium' = [medium EXCEPT ![select][job[select].lba] = request.data]
    <3>1. request.data \in Data
      BY <1>1, Commands
    <3> QED BY <1>1, <2>2, <3>1 DEF PioInv, PioType
  <2> QED BY <2>1, <2>2 DEF WriteWords
<1>4. PioType'
  BY <1>1, <1>2, <1>3, LooksFit DEF PioInv, PioType, At, Looks
<1>5. accepted => phase'[Ours] \notin Active
  <2>1. CASE phase[Ours] = "take"
    BY <1>1, <2>1, EndsKeeps DEF WriteWords, Active
  <2>2. CASE phase[Ours] # "take"
    <3>1. phase[Ours] = "give" /\ job[Ours].op # "WRITE" /\ Sent.op = "WRITE"
      BY <1>1, <2>2 DEF WriteWords, PioInv, CallInv, DriveInv, Sent
    <3> QED BY <3>1 DEF PioInv, CallInv, WriteWords, Active
  <2> QED BY <2>1, <2>2
<1>6. CallInv'
  BY <1>1, <1>5 DEF CallInv
<1> QED BY <1>2, <1>4, <1>6 DEF PioInv

LEMMA IdentifyKeeps ==
  ASSUME PioInv, WaitIdentify
  PROVE  PioInv'
<1>1. CASE LooksOn(Err(select) \/ Drq(select))
  BY <1>1, LookKeeps
<1>2. CASE Returns /\ UNCHANGED <<phase, job, medium, select, request, answer>>
  BY <1>2, ReturnKeeps
<1>3. CASE Returns /\ Ends(select, "ready") /\ UNCHANGED <<medium, select, request, answer>>
  <2>1. select \in Units
    BY DEF PioInv, PioType
  <2>2. phase' \in [Units -> Phases] /\ job' \in [Units -> Command] /\ DriveInv'
    BY <1>3, <2>1, EndsKeeps
  <2>3. PioType'
    BY <1>3, <2>2, LooksFit DEF PioInv, PioType, Returns, At, Looks
  <2>4. CallInv'
    BY <1>3 DEF Returns, CallInv
  <2> QED BY <2>2, <2>3, <2>4 DEF PioInv
<1> QED BY <1>1, <1>2, <1>3 DEF WaitIdentify

LEMMA PioKeeps ==
  ASSUME PioInv, PioProgram
  PROVE  PioInv'
<1>1. CASE WaitDone
  BY <1>1, LookKeeps, ReturnKeeps DEF WaitDone
<1> QED
  BY <1>1, ReadyKeeps, DrqKeeps, ReadKeeps, WriteKeeps, IdentifyKeeps DEF PioProgram

LEMMA TransferKeeps ==
  ASSUME PioInv, NEW r \in Request, Transfer(r)
  PROVE  PioInv'
BY LooksFit DEF Transfer, PioInv, PioType, At, Looks, DriveInv, CallInv

LEMMA ProbeKeeps ==
  ASSUME PioInv, NEW u \in Units, Identify(u)
  PROVE  PioInv'
<1>1. IDENTIFY \in Command /\ IDENTIFY.op # "none" /\ Commanded(u, IDENTIFY)
  BY Commands DEF Identify
<1>2. /\ phase' \in [Units -> Phases] /\ job' \in [Units -> Command]
      /\ accepted' \in BOOLEAN /\ DriveInv'
      /\ accepted' => job'[u] = IDENTIFY /\ phase[u] # "none"
  BY <1>1, CommandedKeeps
<1>3. PioType'
  BY <1>2, LooksFit DEF Identify, PioInv, PioType, At, Looks
<1>4. CallInv'
  BY <1>2 DEF Identify, CallInv
<1> QED BY <1>2, <1>3, <1>4 DEF PioInv

LEMMA WorksKeeps ==
  ASSUME PioInv, NEW u \in Units, DriveWorks(u)
  PROVE  PioInv'
<1>1. CASE /\ phase[u] = "working" /\ job' = job
           /\ phase' = [phase EXCEPT ![u] = IF job[u].op = "WRITE" THEN "take" ELSE "give"]
  <2>1. PioType'
    BY <1>1 DEF DriveWorks, PioInv, PioType, Phases
  <2>2. DriveInv'
    BY <1>1 DEF PioInv, PioType, DriveInv, Active
  <2>3. CallInv'
    BY <1>1, PioAssumption DEF DriveWorks, PioInv, PioType, CallInv, Sent, Active
  <2> QED BY <2>1, <2>2, <2>3 DEF PioInv
<1>2. ASSUME NEW p \in {"error", "ready"}, Ends(u, p), Bsy(u)
      PROVE  PioInv'
  <2>1. /\ phase' \in [Units -> Phases] /\ job' \in [Units -> Command]
        /\ DriveInv' /\ phase'[u] = p
        /\ \A v \in Units \ {u} : phase'[v] = phase[v] /\ job'[v] = job[v]
    BY <1>2, EndsKeeps
  <2>2. PioType'
    BY <2>1 DEF DriveWorks, PioInv, PioType
  <2>3. CallInv'
    <3>1. select \in Units /\ Ours \in Units
      BY PioAssumption DEF PioInv, PioType
    <3> QED BY <1>2, <2>1, <3>1 DEF DriveWorks, PioInv, CallInv, Sent, Active, Bsy
  <2> QED BY <2>1, <2>2, <2>3 DEF PioInv
<1>3. (Ends(u, "error") \/ Ends(u, "ready")) => \E p \in {"error", "ready"} : Ends(u, p)
  OBVIOUS
<1> QED BY <1>1, <1>2, <1>3 DEF DriveWorks, Bsy

LEMMA ResetKeeps ==
  ASSUME PioInv, Off
  PROVE  PioInv'
BY Commands, PioAssumption, LooksFit
   DEF Off, PioReset, PioInv, PioType, Phases, At, Looks, DriveInv, CallInv, Active

LEMMA PioAlone ==
  ASSUME PioInv, UNCHANGED pioVars
  PROVE  PioInv'
BY DEF pioVars, PioInv, PioType, DriveInv, CallInv, Sent

LEMMA PioInvStart == Init => PioInv
BY Commands, PioAssumption, LooksFit
   DEF Init, PioInv, PioType, Phases, At, Looks, DriveInv, CallInv, Active

(* What the thread is in, and that only a command that moves sectors or    *)
(* looks for drives is in a loop of theirs.                                *)
ThreadInv ==
  /\ session \in Sessions /\ bound \in BOOLEAN /\ full \in BOOLEAN
  /\ pc \in Resting \cup {"boot", "disks", "sector", "serial", "reboot"}
  /\ detect \subseteq Units
  /\ at # "idle" => pc \in {"boot", "disks", "sector"}
  /\ doing \in {"nothing", "print", "read"}

(* Binding a drive selects it, between the loops.                          *)
Turns ==
  /\ at = "idle" /\ select' \in {select} \cup Units
  /\ UNCHANGED <<phase, job, medium, at, timeout, request, answer, accepted>>

LEMMA TurnKeeps ==
  ASSUME PioInv, Turns
  PROVE  PioInv'
<1>1. PioType'
  BY DEF Turns, PioInv, PioType
<1>2. DriveInv' /\ CallInv'
  BY DEF Turns, PioInv, DriveInv, CallInv, Sent
<1> QED BY <1>1, <1>2 DEF PioInv

(* What a step of the system is to the drives and the loops.               *)
LEMMA Steps ==
  ASSUME ThreadInv, [Next]_vars
  PROVE  \/ UNCHANGED pioVars \/ PioProgram \/ Off \/ Turns
         \/ \E u \in Units : Identify(u) \/ DriveWorks(u)
         \/ \E r \in Request : Transfer(r)
<1>1. CASE Program
  <2>1. CASE Detect
    BY <2>1 DEF Detect, ThreadInv
  <2>2. CASE Prompt \/ Pulse
    BY <2>2 DEF Prompt, Pulse
  <2>3. CASE Detected
    <3>1. session.drives \subseteq Units
      BY KernelAssumption DEF ThreadInv
    <3>2. select' \in {select} \cup Units
      BY <2>3, <3>1 DEF Detected, Binds
    <3> QED BY <2>3, <3>2 DEF Detected, Turns
  <2> QED BY <1>1, <2>1, <2>2, <2>3 DEF Program
<1>2. CASE User
  <2>1. CASE \E e \in Expressions : CalcCommand(e)
    BY <2>1 DEF CalcCommand
  <2>2. CASE \E r \in Request : Sector(r)
    BY <2>2 DEF Sector
  <2>3. CASE \E msg \in Messages : SerialPrint(msg)
    BY <2>3 DEF SerialPrint
  <2>4. CASE PowerOn \/ Disks \/ SerialRead \/ Panic \/ RebootCommand
    BY <2>4 DEF PowerOn, Disks, SerialRead, Panic, RebootCommand
  <2> QED BY <1>2, <2>1, <2>2, <2>3, <2>4 DEF User
<1>3. CASE Devices
  BY <1>3 DEF Devices, ControllerReads, PowerSwitch
<1>4. CASE UNCHANGED vars
  BY <1>4 DEF vars
<1> QED BY <1>1, <1>2, <1>3, <1>4 DEF Next

LEMMA PioInvStep ==
  ASSUME PioInv, ThreadInv, [Next]_vars
  PROVE  PioInv'
BY Steps, PioAlone, TurnKeeps, PioKeeps, ResetKeeps, ProbeKeeps, WorksKeeps, TransferKeeps

LEMMA ThreadStep ==
  ASSUME ThreadInv, [Next]_vars
  PROVE  ThreadInv'
<1> USE DEF ThreadInv
<1>1. CASE Off
  BY <1>1, KernelAssumption DEF Off, PioReset, SerialReset, Resting
<1>2. CASE Program
  <2>1. CASE PioProgram /\ UNCHANGED <<kernelVars, serialVars, pc, detect>>
    <3>1. at # "idle"
      BY <2>1 DEF PioProgram, WaitReady, WaitDrq, ReadWords, WriteWords, WaitDone, WaitIdentify
    <3> QED BY <2>1, <3>1 DEF kernelVars, serialVars
  <2>2. CASE pc = "serial" /\ SerialProgram /\ UNCHANGED <<kernelVars, pioVars, pc, detect>>
    BY <2>2 DEF SerialProgram, write_serial, PrintDone, serial_read, ReadDone, Store,
                kernelVars, pioVars
  <2>3. CASE Detect
    BY <2>3 DEF Detect, kernelVars, serialVars
  <2>4. CASE Detected
    <3>1. bound' \in BOOLEAN
      BY <2>4 DEF Detected, Binds
    <3> QED BY <2>4, <3>1 DEF Detected, serialVars, Resting
  <2>5. CASE Prompt
    BY <2>5 DEF Prompt, kernelVars, pioVars, serialVars, Resting
  <2>6. CASE Pulse
    BY <2>6, <1>1 DEF Pulse, kernelVars, pioVars, serialVars, Resting
  <2> QED BY <1>2, <2>1, <2>2, <2>3, <2>4, <2>5, <2>6 DEF Program
<1>3. CASE User
  <2>1. CASE \E e \in Expressions : CalcCommand(e)
    BY <2>1, <1>1 DEF CalcCommand, Types, pioVars, serialVars
  <2>2. CASE \E r \in Request : Sector(r)
    BY <2>2 DEF Sector, Types, kernelVars, serialVars
  <2>3. CASE \E msg \in Messages : SerialPrint(msg)
    BY <2>3 DEF SerialPrint, Types, cmd_serial_print, kernelVars, pioVars
  <2>4. CASE SerialRead
    BY <2>4 DEF SerialRead, Types, cmd_serial_read, kernelVars, pioVars
  <2>5. CASE PowerOn \/ Disks \/ Panic
    BY <2>5 DEF PowerOn, Disks, Panic, Types, kernelVars, pioVars, serialVars, Resting
  <2>6. CASE RebootCommand
    BY <2>6 DEF RebootCommand, Types, pioVars, serialVars
  <2> QED BY <1>3, <2>1, <2>2, <2>3, <2>4, <2>5, <2>6 DEF User
<1>4. CASE Devices
  <2>1. CASE (\E u \in Units : DriveWorks(u)) /\ UNCHANGED <<kernelVars, serialVars, pc, detect>>
    BY <2>1 DEF DriveWorks, kernelVars, serialVars
  <2>2. CASE /\ Shift \/ Transmit \/ \E b \in Bytes : Receive(b)
             /\ UNCHANGED <<kernelVars, pioVars, pc, detect>>
    BY <2>2 DEF Shift, Transmit, Receive, kernelVars, pioVars
  <2>3. CASE ControllerReads
    BY <2>3 DEF ControllerReads, pioVars, serialVars
  <2>4. CASE PowerSwitch
    BY <2>4, <1>1 DEF PowerSwitch
  <2> QED BY <1>4, <2>1, <2>2, <2>3, <2>4 DEF Devices
<1>5. CASE UNCHANGED vars
  BY <1>5 DEF vars, pioVars, serialVars
<1> QED BY <1>2, <1>3, <1>4, <1>5 DEF Next

LEMMA Typed == Spec => [](PioInv /\ ThreadInv)
<1>1. Init => PioInv /\ ThreadInv
  BY PioInvStart, KernelAssumption DEF Init, ThreadInv, Resting
<1>2. PioInv /\ ThreadInv /\ [Next]_vars => (PioInv /\ ThreadInv)'
  BY PioInvStep, ThreadStep
<1> QED BY <1>1, <1>2, PTL DEF Spec

(* The kernel is in a sector's or a probe's loop only within a command     *)
(* that waits for it, every command sent is one the drives know, and the   *)
(* serial buffer keeps room for its NUL, whatever the drives do.           *)
THEOREM TypeCorrect == Spec => []TypeOK
<1>1. Init => ReadInv
  BY ReadInvStart
<1>2. ReadInv /\ [Next]_vars => ReadInv'
  BY ReadStep
<1>3. PioInv /\ ThreadInv /\ ReadInv => TypeOK
  BY SerialAssumption DEF PioInv, ThreadInv, ReadInv, ReadTyped, TypeOK
<1> QED BY <1>1, <1>2, <1>3, Typed, PTL DEF Spec

-----------------------------------------------------------------------------
(* The sector calls implement SectorDrive.                                 *)
LEMMA SameNames ==
  /\ Drive!NoOrder = NoJob /\ Drive!NoRequest = NoRequest
  /\ Drive!Pending = Pending /\ Drive!Failed = Failed /\ Drive!Probe = IDENTIFY
  /\ \A d : Drive!Done(d) = Done(d)
  /\ Drive!Order(request.op) = Sent
BY DEF Drive!NoOrder, NoJob, Drive!NoRequest, NoRequest, Drive!Pending, Pending,
       Drive!Failed, Failed, Drive!Probe, IDENTIFY, Drive!Done, Done, Drive!Order, Sent

Step == Drive!Next \/ UNCHANGED Drive!vars

(* Nothing of our drive or of the call changes.                            *)
LEMMA Unseen ==
  ASSUME medium'[Ours] = medium[Ours], Owed' = Owed, request' = request, answer' = answer
  PROVE  Step
BY DEF Step, Drive!vars

LEMMA Settles ==
  ASSUME medium'[Ours] = medium[Ours], Owed' \in {Owed, NoJob},
         request' = request, answer' = answer
  PROVE  Step
<1>1. CASE Owed' = Owed
  BY <1>1, Unseen
<1>2. CASE Owed' = NoJob
  BY <1>2, SameNames DEF Drive!Settle, Drive!Next, Step
<1> QED BY <1>1, <1>2

LEMMA LookIsUnseen ==
  ASSUME NEW goal, LooksOn(goal)
  PROVE  Step
<1>1. Owed' = Owed
  BY DEF LooksOn, Owed, UnderWay
<1> QED BY <1>1, Unseen DEF LooksOn

(* A call given up on leaves its command owed if the drive is at it.       *)
LEMMA GivesUpFails ==
  ASSUME PioInv, at \in {"ready", "drq"}, GivesUp
  PROVE  Step
<1>1. /\ request \in Request /\ answer = Pending /\ answer' = Failed
      /\ UNCHANGED <<phase, job, medium, select, request>> /\ at' = "idle"
  BY DEF PioInv, CallInv, GivesUp, Returns
<1>2. request.op # "none"
  BY <1>1, Commands
<1>3. Owed' = IF phase[Ours] \in Active THEN job[Ours] ELSE NoJob
  BY <1>1 DEF Owed, UnderWay, Active
<1>4. Owed' = Owed \/ (Owed = NoJob /\ Owed' = Sent)
  <2>1. CASE UnderWay
    <3>1. Owed = NoJob
      BY <2>1 DEF Owed
    <3> QED BY <1>3, <2>1, <3>1 DEF PioInv, CallInv, UnderWay
  <2>2. CASE ~UnderWay
    BY <1>3, <2>2 DEF Owed, Active
  <2> QED BY <2>1, <2>2
<1> QED BY <1>1, <1>2, <1>4, SameNames DEF Drive!Fail, Drive!Next, Step

LEMMA ReadyImplements ==
  ASSUME PioInv, WaitReady
  PROVE  Step
<1>1. CASE LooksOn(~Bsy(select))
  BY <1>1, LookIsUnseen
<1>2. CASE GivesUp
  BY <1>2, GivesUpFails DEF WaitReady
<1>3. CASE /\ select' = Ours /\ Commanded(select', Sent)
           /\ at' = "drq" /\ UNCHANGED <<medium, request, answer>>
  <2>1. Owed = IF phase[Ours] \in Active THEN job[Ours] ELSE NoJob
    BY DEF WaitReady, PioInv, CallInv, Owed, UnderWay, Active
  <2>2. Owed' \in {Owed, NoJob}
    <3>1. CASE accepted' = TRUE
      BY <1>3, <3>1 DEF Owed, UnderWay
    <3>2. CASE accepted' = FALSE
      BY <1>3, <2>1, <3>2 DEF Commanded, Owed, UnderWay, Active
    <3> QED BY <1>3, <3>1, <3>2 DEF Commanded
  <2> QED BY <1>3, <2>2, Settles
<1> QED BY <1>1, <1>2, <1>3 DEF WaitReady, Addressed, Sent

LEMMA DrqImplements ==
  ASSUME PioInv, WaitDrq
  PROVE  Step
<1>1. CASE LooksOn(Drq(select))
  BY <1>1, LookIsUnseen
<1>2. CASE GivesUp
  BY <1>2, GivesUpFails DEF WaitDrq
<1>3. CASE at' = "data" /\ UNCHANGED <<phase, job, medium, select, request, answer, accepted>>
  <2>1. Owed' = Owed
    BY <1>3 DEF WaitDrq, Owed, UnderWay
  <2> QED BY <1>3, <2>1, Unseen
<1> QED BY <1>1, <1>2, <1>3 DEF WaitDrq

(* When the words are moved, nothing is owed and the drive is at the       *)
(* call's command, or the command it is at is the one owed.                *)
LEMMA AtTheWords ==
  ASSUME PioInv, at = "data"
  PROVE  /\ select = Ours /\ request \in Request /\ answer = Pending
         /\ phase[Ours] \in {"give", "take"}
         /\ accepted => Owed = NoJob /\ job[Ours] = Sent
         /\ ~accepted => Owed = job[Ours] /\ Owed # NoJob
         /\ phase[Ours] = "take" <=> job[Ours].op = "WRITE"
<1>1. select = Ours /\ phase[Ours] \in {"give", "take"} /\ Ours \in Units
  BY PioAssumption DEF PioInv, CallInv
<1>2. job[Ours].op # "none" /\ (phase[Ours] = "take" <=> job[Ours].op = "WRITE")
  BY <1>1 DEF PioInv, DriveInv, Active
<1>3. job[Ours] # NoJob
  BY <1>2, Commands
<1> QED BY <1>1, <1>2, <1>3 DEF PioInv, CallInv, Owed, UnderWay, Active

LEMMA ReadImplements ==
  ASSUME PioInv, ReadWords
  PROVE  Step
<1>1. /\ select = Ours /\ request \in Request /\ answer = Pending
      /\ request.op = "READ" /\ Ours \in Units
      /\ accepted => Owed = NoJob /\ job[Ours] = Sent
      /\ ~accepted => Owed = job[Ours] /\ Owed # NoJob
      /\ phase[Ours] \in {"give", "take"}
      /\ phase[Ours] = "take" <=> job[Ours].op = "WRITE"
  BY AtTheWords, PioAssumption DEF ReadWords
<1>2. at' = "idle" /\ ~accepted' /\ UNCHANGED <<medium, select, request>>
  BY DEF ReadWords, Returns
<1>3. CASE phase[Ours] = "give"
  <2>1. answer' = Done(Given(Ours)) /\ phase'[Ours] = "ready"
    BY <1>1, <1>3 DEF ReadWords, Ends, PioInv, PioType
  <2>2. Owed' = NoJob
    BY <2>1 DEF Owed
  <2>3. CASE accepted
    <3>1. answer' = Done(medium[Ours][request.lba])
      BY <1>1, <2>1, <2>3 DEF Given, Sent
    <3> QED BY <1>1, <1>2, <2>2, <2>3, <3>1, SameNames
            DEF Drive!Read, Drive!Asked, Drive!Next, Step
  <2>4. CASE ~accepted
    <3>1. Owed = job[Ours] /\ Owed.op # "WRITE"
      BY <1>1, <1>3, <2>4
    <3>2. IF Owed.op = "READ" THEN answer' = Done(medium[Ours][Owed.lba])
                              ELSE answer' = Done(NOISE)
      BY <2>1, <3>1 DEF Given
    <3> QED BY <1>1, <1>2, <2>2, <2>4, <3>1, <3>2, SameNames
            DEF Drive!LateRead, Drive!Asked, Drive!Next, Step
  <2> QED BY <2>3, <2>4
<1>4. CASE phase[Ours] = "take"
  <2>1. answer' = Done(NOISE) /\ UNCHANGED <<phase, job>> /\ ~accepted
    <3>1. ~accepted
      BY <1>1, <1>4 DEF Sent
    <3> QED BY <1>1, <1>4, <3>1 DEF ReadWords
  <2>2. Owed' = Owed /\ Owed.op = "WRITE" /\ Owed # NoJob
    BY <1>1, <1>2, <1>4, <2>1 DEF Owed, UnderWay
  <2> QED BY <1>1, <1>2, <2>1, <2>2, SameNames
          DEF Drive!LateRead, Drive!Asked, Drive!Next, Step
<1> QED BY <1>1, <1>3, <1>4

LEMMA WriteImplements ==
  ASSUME PioInv, WriteWords
  PROVE  Step
<1>1. /\ select = Ours /\ request \in Request /\ answer = Pending
      /\ request.op = "WRITE" /\ Ours \in Units
      /\ accepted => Owed = NoJob /\ job[Ours] = Sent
      /\ ~accepted => Owed = job[Ours] /\ Owed # NoJob
      /\ phase[Ours] \in {"give", "take"}
      /\ phase[Ours] = "take" <=> job[Ours].op = "WRITE"
  BY AtTheWords, PioAssumption DEF WriteWords
<1>2. /\ at' = "done" /\ accepted' = accepted /\ UNCHANGED <<select, request>>
      /\ answer' = Done(NOISE)
  BY DEF WriteWords
<1>3. CASE phase[Ours] = "take"
  <2>1. phase'[Ours] = "store"
    BY <1>1, <1>3 DEF WriteWords, Ends, PioInv, PioType
  <2>2. Owed' = NoJob
    BY <2>1 DEF Owed
  <2>3. \/ medium'[Ours] = [medium[Ours] EXCEPT ![job[Ours].lba] = request.data]
        \/ medium'[Ours] = medium[Ours]
    BY <1>1, <1>3 DEF WriteWords, PioInv, PioType
  <2>4. CASE accepted
    <3>1. job[Ours].lba = request.lba
      BY <1>1, <2>4 DEF Sent
    <3> QED BY <1>1, <1>2, <2>2, <2>3, <2>4, <3>1, SameNames
            DEF Drive!Write, Drive!Asked, Drive!Next, Step
  <2>5. CASE ~accepted
    <3>1. Owed = job[Ours] /\ Owed.op = "WRITE"
      BY <1>1, <1>3, <2>5
    <3> QED BY <1>1, <1>2, <2>2, <2>3, <2>5, <3>1, SameNames
            DEF Drive!LateWrite, Drive!Asked, Drive!Next, Step
  <2> QED BY <2>4, <2>5
<1>4. CASE phase[Ours] = "give"
  <2>1. UNCHANGED <<phase, job, medium>> /\ ~accepted
    <3>1. ~accepted
      BY <1>1, <1>4 DEF Sent
    <3> QED BY <1>1, <1>4, <3>1 DEF WriteWords
  <2>2. Owed' = Owed /\ Owed.op # "WRITE" /\ Owed # NoJob
    BY <1>1, <1>2, <1>4, <2>1 DEF Owed, UnderWay
  <2> QED BY <1>1, <1>2, <2>1, <2>2, SameNames
          DEF Drive!LateWrite, Drive!Asked, Drive!Next, Step
<1> QED BY <1>1, <1>3, <1>4

LEMMA DoneImplements ==
  ASSUME PioInv, WaitDone
  PROVE  Step
<1>1. CASE LooksOn(~Bsy(select))
  BY <1>1, LookIsUnseen
<1>2. CASE Returns /\ UNCHANGED <<phase, job, medium, select, request, answer>>
  <2>1. Owed' = Owed
    BY <1>2 DEF WaitDone, Returns, PioInv, CallInv, Owed, UnderWay, Active
  <2> QED BY <1>2, <2>1, Unseen
<1> QED BY <1>1, <1>2 DEF WaitDone

(* A probe that comes back without the drive's words leaves its command    *)
(* owed; one that has taken them has settled whatever was.                 *)
LEMMA IdentifyImplements ==
  ASSUME PioInv, WaitIdentify
  PROVE  Step
<1>1. CASE LooksOn(Err(select) \/ Drq(select))
  BY <1>1, LookIsUnseen
<1>2. CASE Returns /\ UNCHANGED <<phase, job, medium, select, request, answer>>
  <2>1. Owed' = IF phase[Ours] \in Active THEN job[Ours] ELSE NoJob
    BY <1>2 DEF Returns, Owed, UnderWay, Active
  <2>2. request = NoRequest
    BY DEF WaitIdentify, PioInv, CallInv
  <2>3. Owed' = Owed \/ (Owed = NoJob /\ Owed' = IDENTIFY)
    <3>1. CASE UnderWay
      <4>1. Owed = NoJob
        BY <3>1 DEF Owed
      <4> QED BY <2>1, <3>1, <4>1 DEF WaitIdentify, UnderWay, PioInv, CallInv
    <3>2. CASE ~UnderWay
      BY <2>1, <3>2 DEF Owed, Active
    <3> QED BY <3>1, <3>2
  <2>4. CASE Owed' = Owed
    BY <1>2, <2>4, Unseen
  <2>5. CASE Owed = NoJob /\ Owed' = IDENTIFY
    BY <1>2, <2>2, <2>5, SameNames DEF Drive!ProbeGivenUp, Drive!Next, Step
  <2> QED BY <2>3, <2>4, <2>5
<1>3. CASE Returns /\ Ends(select, "ready") /\ UNCHANGED <<medium, select, request, answer>>
  <2>1. select \in Units /\ Ours \in Units
    BY PioAssumption DEF PioInv, PioType
  <2>2. /\ phase'[select] = "ready"
        /\ select # Ours => phase'[Ours] = phase[Ours] /\ job'[Ours] = job[Ours]
    BY <1>3, <2>1, EndsKeeps
  <2>3. Owed' \in {Owed, NoJob}
    BY <1>3, <2>2 DEF Returns, Owed, UnderWay
  <2> QED BY <1>3, <2>3, Settles
<1> QED BY <1>1, <1>2, <1>3 DEF WaitIdentify

LEMMA TransferImplements ==
  ASSUME PioInv, NEW r \in Request, Transfer(r)
  PROVE  Step
<1>1. Owed' = Owed
  BY DEF Transfer, PioInv, CallInv, Owed, UnderWay
<1> QED BY <1>1, SameNames DEF Transfer, Request, Drive!Ask, Drive!Next, Step

LEMMA ProbeImplements ==
  ASSUME PioInv, NEW u \in Units, Identify(u)
  PROVE  Step
<1>1. Ours \in Units /\ Owed = IF phase[Ours] \in Active THEN job[Ours] ELSE NoJob
  BY PioAssumption DEF Identify, Owed, UnderWay, Active
<1>2. IDENTIFY \in Command /\ IDENTIFY.op # "none" /\ Commanded(u, IDENTIFY)
  BY Commands DEF Identify
<1>3. Owed' \in {Owed, NoJob}
  <2>1. CASE u = Ours /\ accepted'
    <3>1. UnderWay'
      BY <1>2, <2>1, CommandedKeeps DEF Identify, UnderWay
    <3> QED BY <3>1 DEF Owed
  <2>2. CASE u # Ours \/ ~accepted'
    <3>1. phase'[Ours] = phase[Ours] /\ job'[Ours] = job[Ours]
      BY <1>1, <1>2, <2>2, CommandedKeeps
    <3>2. ~UnderWay'
      BY <2>2 DEF Identify, UnderWay
    <3> QED BY <1>1, <3>1, <3>2 DEF Owed, Active
  <2> QED BY <2>1, <2>2
<1> QED BY <1>3, SameNames DEF Identify, Drive!StartProbe, Drive!Next, Step

LEMMA WorksImplements ==
  ASSUME PioInv, NEW u \in Units, DriveWorks(u)
  PROVE  Step
<1>1. Ours \in Units /\ UNCHANGED <<medium, select, at, request, answer, accepted>>
  BY PioAssumption DEF DriveWorks
<1>2. Owed' \in {Owed, NoJob}
  <2>1. CASE u # Ours
    BY <1>1, <2>1 DEF DriveWorks, Ends, PioInv, PioType, Owed, UnderWay
  <2>2. CASE /\ u = Ours /\ phase[u] = "working" /\ job' = job
             /\ phase' = [phase EXCEPT ![u] = IF job[u].op = "WRITE" THEN "take" ELSE "give"]
    <3>1. phase[Ours] \in Active /\ phase'[Ours] \in Active
      BY <1>1, <2>2 DEF PioInv, PioType, Active
    <3> QED BY <1>1, <2>2, <3>1 DEF Owed, UnderWay, Active
  <2>3. CASE u = Ours /\ phase'[Ours] \in {"error", "ready"}
    BY <2>3 DEF Owed
  <2> QED BY <1>1, <2>1, <2>2, <2>3 DEF DriveWorks, Ends, PioInv, PioType
<1> QED BY <1>1, <1>2, Settles

LEMMA OffImplements ==
  ASSUME PioInv, Off
  PROVE  Step
<1>1. Ours \in Units
  BY PioAssumption
<1>2. Owed' = NoJob
  BY <1>1 DEF Off, PioReset, Owed
<1> QED BY <1>2, SameNames DEF Off, PioReset, Drive!PowerUp, Drive!Next, Step

LEMMA TurnImplements ==
  ASSUME Turns
  PROVE  Step
<1>1. Owed' = Owed
  BY DEF Turns, Owed, UnderWay
<1> QED BY <1>1, Unseen DEF Turns

LEMMA AloneImplements ==
  ASSUME UNCHANGED pioVars
  PROVE  Step
<1>1. Owed' = Owed
  BY DEF pioVars, Owed, UnderWay
<1> QED BY <1>1, Unseen DEF pioVars

(* Every sector call, whatever a slow drive does and whichever command it  *)
(* still has to finish, is one atomic step of a drive that may owe that    *)
(* command: a call that returns 0 moved its own sector, or lost a write    *)
(* silently, unless something was owed.                                    *)
THEOREM SectorsCorrect == Spec => ImplementsSectorDrive
<1>1. Init => Drive!Init
  <2> SUFFICES ASSUME Init PROVE Drive!Init
    OBVIOUS
  <2>1. Ours \in Units
    BY PioAssumption
  <2>2. Owed = NoJob
    BY <2>1 DEF Init, Owed
  <2> QED BY <2>1, <2>2, SameNames DEF Init, Drive!Init
<1>2. PioInv /\ ThreadInv /\ [Next]_vars => [Drive!Next]_Drive!vars
  <2> SUFFICES ASSUME PioInv, ThreadInv, [Next]_vars PROVE Step
    BY DEF Step
  <2>1. CASE PioProgram
    BY <2>1, ReadyImplements, DrqImplements, ReadImplements, WriteImplements,
       DoneImplements, IdentifyImplements DEF PioProgram
  <2> QED BY <2>1, Steps, AloneImplements, TurnImplements, OffImplements, ProbeImplements,
             WorksImplements, TransferImplements
<1> QED BY <1>1, <1>2, Typed, PTL DEF Spec, ImplementsSectorDrive, Drive!Spec

-----------------------------------------------------------------------------
(* Numbers are read and shown digit by digit.                              *)

Digits == 0 .. 9
INT_MAX == -INT_MIN - 1

LEMMA IntFacts ==
  /\ INT_MIN \in Int /\ INT_MIN < 0 /\ INT_MAX \in Nat
  /\ Ints = INT_MIN .. INT_MAX
  /\ \A x \in Int : Wrap(x) \in Ints
  /\ \A x \in Ints : Wrap(x) = x
<1> DEFINE M == 2 ^ (INT_BITS - 1)
<1>1. /\ M \in Nat \ {0} /\ 2 ^ INT_BITS = 2 * M
      /\ INT_MIN = -M /\ INT_MAX = M - 1 /\ Ints = -M .. M - 1
      /\ \A x : Wrap(x) = ((x - (-M)) % (2 * M)) + (-M)
  BY PowersAssumption DEF INT_MIN, INT_MAX, Ints, Wrap
<1> HIDE DEF M
<1>2. \A x \in Int : ((x - (-M)) % (2 * M)) + (-M) \in -M .. M - 1
  BY <1>1
<1>3. \A x \in -M .. M - 1 : ((x - (-M)) % (2 * M)) + (-M) = x
  BY <1>1
<1>4. \A x \in Int : Wrap(x) \in Ints
  BY <1>1, <1>2
<1>5. \A x \in Ints : Wrap(x) = x
  BY <1>1, <1>3
<1>6. INT_MIN \in Int /\ INT_MIN < 0 /\ INT_MAX \in Nat /\ Ints = INT_MIN .. INT_MAX
  BY <1>1
<1> QED BY <1>4, <1>5, <1>6

(* One more digit, in int arithmetic or in all numbers.                    *)
Push(wraps, n, d) == IF wraps THEN Wrap(n * 10 + d) ELSE n * 10 + d
Read(wraps, s)    == IF wraps THEN Number(s) ELSE Value(s)

Turn(wraps, g, s, S) ==
  IF S = {} THEN 0 ELSE Push(wraps, g[S \ {Max(S)}], s[Max(S)])
Fold(wraps, s) ==
  CHOOSE g : g = [S \in SUBSET DOMAIN s |-> Turn(wraps, g, s, S)]

LEMMA Folds ==
  ASSUME NEW wraps \in BOOLEAN, NEW s \in Seq(Digits)
  PROVE  Fold(wraps, s) = [S \in SUBSET DOMAIN s |-> Turn(wraps, Fold(wraps, s), s, S)]
<1> DEFINE n == Len(s)
           f == [p \in Int \X Digits |-> Push(wraps, p[1], p[2])]
<1>1. n \in Nat /\ DOMAIN s = 1 .. n /\ \A k \in 1 .. n : s[k] \in Digits
  OBVIOUS
<1>2. PICK g : IsFold(g, f, 0, s, n)
  <2> HIDE DEF f
  <2> QED BY <1>1, FoldExists
<1>3. f \in [Int \X Digits -> Int]
  <2>1. ASSUME NEW p \in Int \X Digits PROVE Push(wraps, p[1], p[2]) \in Int
    <3>1. p[1] * 10 + p[2] \in Int
      BY DEF Digits
    <3> QED BY <3>1, IntFacts DEF Push
  <2> QED BY <2>1
<1>4. \A S \in SUBSET (1 .. n) : g[S] \in Int
  <2> HIDE DEF f, n
  <2>1. 0 \in Int
    OBVIOUS
  <2> QED BY <1>1, <1>2, <1>3, <2>1, FoldTyped
<1>5. ASSUME NEW S \in SUBSET (1 .. n)
      PROVE  Along(g, f, 0, s, S) = Turn(wraps, g, s, S)
  <2>1. CASE S = {}
    BY <2>1 DEF Along, Turn
  <2>2. CASE S # {}
    <3>1. Max(S) \in S /\ S \ {Max(S)} \in SUBSET (1 .. n)
      <4>1. S \subseteq 0 .. n
        BY <1>1
      <4> QED BY <1>1, <2>2, <4>1, MaxFacts
    <3>2. g[S \ {Max(S)}] \in Int /\ s[Max(S)] \in Digits
      BY <1>1, <1>4, <3>1
    <3> QED BY <2>2, <3>2 DEF Along, Turn
  <2> QED BY <2>1, <2>2
<1> HIDE DEF f
<1>6. g = [S \in SUBSET DOMAIN s |-> Turn(wraps, g, s, S)]
  BY <1>1, <1>2, <1>5 DEF IsFold
<1> QED BY <1>6, Zenon DEF Fold

(* The numbers after each digit.                                           *)
Reads(h, wraps, s) ==
  /\ h[0] = 0 /\ Read(wraps, s) = h[Len(s)]
  /\ \A k \in 1 .. Len(s) : h[k] = Push(wraps, h[k - 1], s[k])

LEMMA ReadIs ==
  ASSUME NEW wraps \in BOOLEAN, NEW s \in Seq(Digits)
  PROVE  \E h : Reads(h, wraps, s)
<1> DEFINE g == Fold(wraps, s)
           n == Len(s)
           h == [k \in 0 .. n |-> g[1 .. k]]
<1>1. n \in Nat /\ DOMAIN s = 1 .. n
  OBVIOUS
<1>2. g = [S \in SUBSET (1 .. n) |-> Turn(wraps, g, s, S)]
  BY <1>1, Folds
<1>3. Read(wraps, s) = g[DOMAIN s]
  <2>1. CASE wraps
    BY <2>1, Zenon DEF Read, Number, FoldLeft, MapThenFoldSet, Fold, Turn, Push
  <2>2. CASE ~wraps
    BY <2>2, Zenon DEF Read, Value, FoldLeft, MapThenFoldSet, Fold, Turn, Push
  <2> QED BY <2>1, <2>2
<1> HIDE DEF g
<1>4. h[0] = 0
  <2>1. 1 .. 0 = {} /\ 0 \in 0 .. n
    OBVIOUS
  <2>2. g[{}] = 0
    BY <1>2 DEF Turn
  <2> QED BY <2>1, <2>2
<1>5. Read(wraps, s) = h[n]
  BY <1>1, <1>3
<1>6. ASSUME NEW k \in 1 .. n
      PROVE  h[k] = Push(wraps, h[k - 1], s[k])
  <2>1. /\ 1 .. k \in SUBSET (1 .. n) /\ 1 .. k # {}
        /\ Max(1 .. k) = k /\ (1 .. k) \ {k} = 1 .. k - 1
    BY <1>1, UpTo
  <2>2. g[1 .. k] = Turn(wraps, g, s, 1 .. k)
    BY <1>2, <2>1
  <2>3. g[1 .. k] = Push(wraps, g[1 .. k - 1], s[k])
    BY <2>1, <2>2 DEF Turn
  <2>4. k \in 0 .. n /\ k - 1 \in 0 .. n
    OBVIOUS
  <2> QED BY <2>3, <2>4
<1> HIDE DEF h
<1> QED BY <1>4, <1>5, <1>6 DEF Reads

LEMMA ReadMeans ==
  ASSUME NEW s \in Seq(Digits), NEW h
  PROVE  /\ Read(FALSE, s) = Value(s) /\ Read(TRUE, s) = Number(s)
         /\ Len(s) \in Nat /\ \A k \in 1 .. Len(s) : s[k] \in Digits
<1>1. Len(s) \in Nat /\ \A k \in 1 .. Len(s) : s[k] \in Digits
  OBVIOUS
<1>2. Read(FALSE, s) = Value(s) /\ Read(TRUE, s) = Number(s)
  BY Zenon DEF Read
<1> QED BY <1>1, <1>2

LEMMA PushIs ==
  ASSUME NEW n \in Int, NEW d \in Digits
  PROVE  /\ Push(FALSE, n, d) = n * 10 + d /\ Push(TRUE, n, d) = Wrap(n * 10 + d)
         /\ n * 10 + d \in Int
         /\ n >= 0 => n * 10 + d >= n
BY DEF Push, Digits

(* What is read so far is never more than the whole.                       *)
LEMMA ReadGrows ==
  ASSUME NEW s \in Seq(Digits), NEW h, Reads(h, FALSE, s)
  PROVE  /\ Value(s) \in Nat /\ \A k \in 0 .. Len(s) : h[k] \in Nat /\ h[k] <= Value(s)
<1> DEFINE n == Len(s)
<1>1. /\ n \in Nat /\ \A k \in 1 .. n : s[k] \in Digits
      /\ h[0] = 0 /\ Value(s) = h[n]
      /\ \A k \in 1 .. n : h[k] = Push(FALSE, h[k - 1], s[k])
  BY ReadMeans DEF Reads
<1> HIDE DEF n
<1> DEFINE T == {k \in 0 .. n : h[k] \in Nat}
<1>2. \A k \in 0 .. n : k \in T
  <2>1. 0 \in T
    BY <1>1
  <2>2. ASSUME NEW k \in 0 .. n - 1, k \in T PROVE k + 1 \in T
    <3> PICK j \in 1 .. n : j = k + 1 /\ j - 1 = k
      BY <1>1
    <3>1. h[j] = Push(FALSE, h[j - 1], s[j]) /\ s[j] \in Digits
      BY <1>1
    <3>2. h[k] \in Nat
      BY <2>2
    <3> PICK x \in Int, d \in Digits : x = h[k] /\ x >= 0 /\ d = s[j]
      BY <3>1, <3>2
    <3>3. h[j] = Push(FALSE, x, d)
      BY <3>1
    <3>4. h[j] = x * 10 + d
      BY <3>3, PushIs
    <3>5. x * 10 + d \in Nat
      <4>1. x * 10 + d \in Int /\ x * 10 + d >= x
        BY PushIs
      <4> QED BY <4>1
    <3>6. j \in 0 .. n
      BY <1>1
    <3> QED BY <3>4, <3>5, <3>6
  <2> HIDE DEF T
  <2> QED BY <1>1, <2>1, <2>2, Counting
<1> DEFINE U == {k \in 0 .. n : h[n - k] <= h[n]}
<1>3. \A k \in 0 .. n : k \in U
  <2>1. 0 \in U
    BY <1>1, <1>2
  <2>2. ASSUME NEW k \in 0 .. n - 1, k \in U PROVE k + 1 \in U
    <3>1. n - k \in 1 .. n /\ n - k - 1 = n - (k + 1) /\ n - (k + 1) \in 0 .. n
          /\ n \in 0 .. n
      BY <1>1
    <3>2. /\ h[n - (k + 1)] \in Nat /\ s[n - k] \in Digits /\ h[n] \in Nat
          /\ h[n - k] = Push(FALSE, h[n - (k + 1)], s[n - k]) /\ h[n - k] <= h[n]
      BY <1>1, <1>2, <2>2, <3>1
    <3>3. h[n - (k + 1)] <= h[n]
      <4> DEFINE x == h[n - (k + 1)]
                 d == s[n - k]
      <4>1. x * 10 + d <= h[n] /\ x \in Nat /\ d \in 0 .. 9 /\ h[n] \in Nat
        BY <3>2 DEF Push, Digits
      <4> HIDE DEF x, d
      <4>2. x <= h[n]
        BY <4>1
      <4> QED BY <4>2 DEF x
    <3> QED BY <3>1, <3>3
  <2> HIDE DEF U
  <2> QED BY <1>1, <2>1, <2>2, Counting
<1>4. ASSUME NEW k \in 0 .. n PROVE h[k] \in Nat /\ h[k] <= h[n]
  <2>1. n - k \in 0 .. n /\ n - (n - k) = k
    BY <1>1
  <2>2. n - k \in U
    BY <1>3, <2>1
  <2> QED BY <1>2, <2>1, <2>2
<1> QED BY <1>1, <1>4 DEF n

(* A number that fits is read as it is: no int on the way overflows.       *)
LEMMA ReadExact ==
  ASSUME NEW s \in Seq(Digits), Value(s) \in Ints
  PROVE  Number(s) = Value(s)
<1> DEFINE n == Len(s)
<1>1. PICK h : Reads(h, FALSE, s)
  BY ReadIs
<1>2. PICK w : Reads(w, TRUE, s)
  BY ReadIs
<1>3. /\ n \in Nat /\ \A k \in 1 .. n : s[k] \in Digits
      /\ h[0] = 0 /\ Value(s) = h[n] /\ w[0] = 0 /\ Number(s) = w[n]
      /\ \A k \in 1 .. n : h[k] = Push(FALSE, h[k - 1], s[k])
      /\ \A k \in 1 .. n : w[k] = Push(TRUE, w[k - 1], s[k])
  BY <1>1, <1>2, ReadMeans DEF Reads
<1>4. \A k \in 0 .. n : h[k] \in Nat /\ h[k] <= Value(s)
  BY <1>1, ReadGrows
<1> HIDE DEF n
<1> DEFINE T == {k \in 0 .. n : w[k] = h[k]}
<1>5. ASSUME NEW k \in 0 .. n - 1, k \in T PROVE k + 1 \in T
  <2> PICK j \in 1 .. n : j = k + 1 /\ j - 1 = k /\ j \in 0 .. n
    BY <1>3
  <2>1. /\ h[j] = Push(FALSE, h[j - 1], s[j]) /\ w[j] = Push(TRUE, w[j - 1], s[j])
        /\ s[j] \in Digits
    BY <1>3
  <2>2. w[k] = h[k] /\ h[k] \in Nat
    BY <1>4, <1>5
  <2> PICK x \in Int, d \in Digits : x = h[k] /\ x = w[k] /\ d = s[j]
    BY <2>1, <2>2
  <2>3. h[j] = Push(FALSE, x, d) /\ w[j] = Push(TRUE, x, d)
    BY <2>1
  <2>4. h[j] = x * 10 + d /\ w[j] = Wrap(x * 10 + d)
    BY <2>3, PushIs
  <2>5. h[j] \in Ints
    <3>1. PICK y \in Nat : y = h[j] /\ y <= Value(s)
      BY <1>4
    <3>2. PICK v \in Ints : v = Value(s)
      OBVIOUS
    <3>3. \A z \in Nat : z <= v => z \in Ints
      BY IntFacts
    <3> QED BY <3>1, <3>2, <3>3
  <2>6. w[j] = h[j]
    BY <2>4, <2>5, IntFacts
  <2> QED BY <2>6
<1>6. 0 \in T
  BY <1>3
<1> HIDE DEF T
<1>7. n \in T
  <2>1. \A k \in 0 .. n : k \in T
    BY <1>3, <1>5, <1>6, Counting
  <2> QED BY <1>3, <2>1
<1> QED BY <1>3, <1>7 DEF T

LEMMA ValueEmpty == Value(<<>>) = 0
<1>1. <<>> \in Seq(Digits) /\ Len(<<>>) = 0
  OBVIOUS
<1>2. PICK h : Reads(h, FALSE, <<>>)
  BY <1>1, ReadIs
<1> QED BY <1>1, <1>2 DEF Reads, Read

LEMMA ValueOne ==
  ASSUME NEW d \in Digits
  PROVE  Value(<<d>>) = d
<1>1. <<d>> \in Seq(Digits) /\ Len(<<d>>) = 1 /\ <<d>>[1] = d
  OBVIOUS
<1>2. PICK h : Reads(h, FALSE, <<d>>)
  BY <1>1, ReadIs
<1> PICK k \in 1 .. 1 : k = 1 /\ k - 1 = 0
  OBVIOUS
<1>3. Value(<<d>>) = h[1] /\ h[0] = 0 /\ h[k] = Push(FALSE, h[k - 1], <<d>>[k])
  BY <1>1, <1>2, ReadMeans DEF Reads
<1>4. h[1] = Push(FALSE, 0, d)
  BY <1>1, <1>3
<1>5. Push(FALSE, 0, d) = 0 * 10 + d
  <2>1. 0 \in Int
    OBVIOUS
  <2> QED BY <2>1, PushIs
<1>6. 0 * 10 + d = d
  BY DEF Digits
<1> QED BY <1>3, <1>4, <1>5, <1>6

LEMMA ValueAppend ==
  ASSUME NEW s \in Seq(Digits), NEW d \in Digits
  PROVE  Value(Append(s, d)) = Value(s) * 10 + d
<1> DEFINE n == Len(s)
           u == Append(s, d)
<1>1. /\ n \in Nat /\ u \in Seq(Digits) /\ Len(u) = n + 1 /\ u[n + 1] = d
      /\ \A k \in 1 .. n : u[k] = s[k]
  OBVIOUS
<1> HIDE DEF u
<1>2. PICK h : Reads(h, FALSE, s)
  BY ReadIs
<1>3. PICK g : Reads(g, FALSE, u)
  BY <1>1, ReadIs
<1>4. /\ h[0] = 0 /\ Value(s) = h[n] /\ g[0] = 0 /\ Value(u) = g[n + 1]
      /\ \A k \in 1 .. n : h[k] = Push(FALSE, h[k - 1], s[k])
      /\ \A k \in 1 .. n + 1 : g[k] = Push(FALSE, g[k - 1], u[k])
  BY <1>1, <1>2, <1>3, ReadMeans DEF Reads
<1> HIDE DEF n
<1> DEFINE T == {k \in 0 .. n : g[k] = h[k]}
<1>5. ASSUME NEW k \in 0 .. n - 1, k \in T PROVE k + 1 \in T
  <2> PICK j \in 1 .. n : j = k + 1 /\ j - 1 = k /\ j \in 0 .. n /\ j \in 1 .. n + 1
    BY <1>1
  <2>1. /\ h[j] = Push(FALSE, h[j - 1], s[j]) /\ g[j] = Push(FALSE, g[j - 1], u[j])
        /\ u[j] = s[j]
    BY <1>1, <1>4
  <2>2. g[j - 1] = h[j - 1]
    BY <1>5
  <2>3. g[j] = h[j]
    BY <2>1, <2>2
  <2> QED BY <2>3
<1>6. 0 \in T
  BY <1>1, <1>4
<1> HIDE DEF T
<1>7. n \in T
  <2>1. \A k \in 0 .. n : k \in T
    BY <1>1, <1>5, <1>6, Counting
  <2> QED BY <1>1, <2>1
<1>8. g[n + 1] = Push(FALSE, h[n], d)
  <2> PICK j \in 1 .. n + 1 : j = n + 1 /\ j - 1 = n
    BY <1>1
  <2>1. g[j] = Push(FALSE, g[j - 1], u[j])
    BY <1>4
  <2>2. g[n] = h[n] /\ u[j] = d
    BY <1>1, <1>7 DEF T
  <2>3. g[j] = Push(FALSE, h[n], d)
    BY <2>1, <2>2
  <2> QED BY <2>3
<1>9. h[n] \in Nat
  BY <1>2, <1>4, ReadGrows
<1>10. h[n] \in Int
  BY <1>9
<1>11. Push(FALSE, h[n], d) = h[n] * 10 + d
  BY <1>10, PushIs
<1> QED BY <1>4, <1>8, <1>11 DEF u

-----------------------------------------------------------------------------
(* Digits taken off a number.                                              *)

Takes(g, n)   == IF n = 0 THEN <<>> ELSE <<n % 10>> \o g[n \div 10]
IsTaken(g, m) == g = [n \in 0 .. m |-> Takes(g, n)]

LEMMA Tenth ==
  ASSUME NEW n \in Nat, n # 0
  PROVE  /\ n \div 10 \in 0 .. n - 1 /\ n = (n \div 10) * 10 + (n % 10)
         /\ n % 10 \in Digits
BY DEF Digits

LEMMA TakenTo ==
  ASSUME NEW n \in Nat
  PROVE  \E g : IsTaken(g, n)
<1> DEFINE T == {m \in 0 .. n : \E g : IsTaken(g, m)}
<1>1. 0 \in T
  <2> DEFINE g == [k \in 0 .. 0 |-> <<>>]
  <2>1. IsTaken(g, 0)
    BY DEF IsTaken, Takes
  <2> QED BY <2>1
<1>2. ASSUME NEW m \in 0 .. n - 1, m \in T PROVE m + 1 \in T
  <2>1. PICK g : IsTaken(g, m)
    BY <1>2
  <2> DEFINE h == [k \in 0 .. m + 1 |-> Takes(g, k)]
  <2>2. \A k \in 0 .. m : k \in 0 .. m + 1
    OBVIOUS
  <2>3. \A k \in 0 .. m : h[k] = g[k]
    BY <2>1, <2>2 DEF IsTaken
  <2>4. ASSUME NEW k \in 0 .. m + 1 PROVE Takes(h, k) = Takes(g, k)
    <3>1. CASE k = 0
      BY <3>1 DEF Takes
    <3>2. CASE k # 0
      <4>1. k \div 10 \in 0 .. m
        BY <3>2, Tenth
      <4>2. h[k \div 10] = g[k \div 10]
        BY <2>3, <4>1
      <4> HIDE DEF h
      <4> QED BY <3>2, <4>2, Zenon DEF Takes
    <3> QED BY <3>1, <3>2
  <2>5. h = [k \in 0 .. m + 1 |-> Takes(h, k)]
    BY <2>4
  <2>6. IsTaken(h, m + 1)
    BY <2>5 DEF IsTaken
  <2> HIDE DEF h
  <2> QED BY <2>6
<1> HIDE DEF T
<1>3. n \in T
  <2>1. \A k \in 0 .. n : k \in T
    BY <1>1, <1>2, Counting
  <2> QED BY <2>1
<1> QED BY <1>3 DEF T

LEMMA TakenSame ==
  ASSUME NEW m \in Nat, NEW n \in 0 .. m, NEW g, NEW h, IsTaken(g, m), IsTaken(h, n)
  PROVE  g[n] = h[n]
<1> DEFINE T == {k \in 0 .. n : \A j \in 0 .. k : g[j] = h[j]}
<1>1. /\ \A k \in 0 .. n : g[k] = Takes(g, k) /\ h[k] = Takes(h, k)
      /\ n \in Nat
  <2>1. \A k \in 0 .. n : k \in 0 .. m
    OBVIOUS
  <2>2. /\ g = [k \in 0 .. m |-> Takes(g, k)] /\ h = [k \in 0 .. n |-> Takes(h, k)]
    BY DEF IsTaken
  <2>3. ASSUME NEW k \in 0 .. n PROVE g[k] = Takes(g, k) /\ h[k] = Takes(h, k)
    BY <2>1, <2>2, Zenon
  <2> QED BY <2>3
<1>2. 0 \in T
  <2>1. g[0] = <<>> /\ h[0] = <<>> /\ 0 \in 0 .. n
    <3>1. 0 \in 0 .. n
      OBVIOUS
    <3> QED BY <1>1, <3>1, Zenon DEF Takes
  <2>2. \A j \in 0 .. 0 : j = 0
    OBVIOUS
  <2> QED BY <2>1, <2>2
<1>3. ASSUME NEW k \in 0 .. n - 1, k \in T PROVE k + 1 \in T
  <2>1. k + 1 \in 0 .. n /\ k + 1 # 0 /\ k + 1 \in Nat
    OBVIOUS
  <2>2. (k + 1) \div 10 \in 0 .. k
    BY <2>1, Tenth
  <2>3. g[(k + 1) \div 10] = h[(k + 1) \div 10]
    BY <1>3, <2>2
  <2>4. Takes(g, k + 1) = Takes(h, k + 1)
    BY <2>1, <2>3 DEF Takes
  <2>5. g[k + 1] = h[k + 1]
    BY <1>1, <2>1, <2>4
  <2>6. \A j \in 0 .. k + 1 : j \in 0 .. k \/ j = k + 1
    OBVIOUS
  <2> QED BY <1>3, <2>1, <2>5, <2>6
<1> HIDE DEF T
<1>4. n \in T
  <2>1. \A k \in 0 .. n : k \in T
    BY <1>1, <1>2, <1>3, Counting
  <2> QED BY <1>1, <2>1
<1> QED BY <1>1, <1>4 DEF T

LEMMA TakenIs == \A n \in Nat : Taken[n] = Takes(Taken, n)
<1> DEFINE To(n) == CHOOSE g : IsTaken(g, n)
           F == [n \in Nat |-> To(n)[n]]
<1>1. \A n \in Nat : IsTaken(To(n), n)
  BY TakenTo, Zenon
<1> HIDE DEF To
<1>2. ASSUME NEW n \in Nat PROVE F[n] = Takes(F, n)
  <2>1. n \in 0 .. n /\ F[n] = To(n)[n]
    OBVIOUS
  <2>2. F[n] = Takes(To(n), n)
    BY <1>1, <2>1 DEF IsTaken
  <2>3. CASE n = 0
    BY <2>2, <2>3 DEF Takes
  <2>4. CASE n # 0
    <3>1. n \div 10 \in 0 .. n /\ n \div 10 \in Nat
      BY <2>4, Tenth
    <3>2. To(n)[n \div 10] = To(n \div 10)[n \div 10]
      BY <1>1, <3>1, TakenSame
    <3>3. F[n \div 10] = To(n \div 10)[n \div 10]
      BY <3>1
    <3> HIDE DEF F
    <3> QED BY <2>2, <2>4, <3>2, <3>3 DEF Takes
  <2> QED BY <2>3, <2>4
<1>3. F = [n \in Nat |-> Takes(F, n)]
  BY <1>2
<1> HIDE DEF F
<1>4. \E G : G = [n \in Nat |-> IF n = 0 THEN <<>> ELSE <<n % 10>> \o G[n \div 10]]
  BY <1>3 DEF Takes
<1>5. Taken = [n \in Nat |-> IF n = 0 THEN <<>> ELSE <<n % 10>> \o Taken[n \div 10]]
  BY <1>4, Zenon DEF Taken
<1> QED BY <1>5, Zenon DEF Takes

-----------------------------------------------------------------------------
(* What is shown is the number.                                            *)

InDecimal(s, n) ==
  /\ s \in Seq(Digits) /\ s # <<>> /\ Value(s) = n
  /\ Len(s) > 1 => s[1] # 0

LEMMA ReverseAdds ==
  ASSUME NEW s \in Seq(Digits), NEW d \in Digits
  PROVE  /\ <<d>> \o s \in Seq(Digits)
         /\ Reverse(<<d>> \o s) = Append(Reverse(s), d)
         /\ Reverse(s) \in Seq(Digits) /\ Len(Reverse(s)) = Len(s)
<1> DEFINE n == Len(s)
           u == <<d>> \o s
           a == Reverse(s)
           b == Append(a, d)
           c == Reverse(u)
<1>1. /\ n \in Nat /\ \A k \in 1 .. n : s[k] \in Digits
      /\ u \in Seq(Digits) /\ Len(u) = n + 1 /\ u[1] = d
      /\ \A k \in 1 .. n : u[k + 1] = s[k]
  OBVIOUS
<1>2. a = [k \in 1 .. n |-> s[n - k + 1]] /\ c = [k \in 1 .. n + 1 |-> u[n + 1 - k + 1]]
  BY <1>1 DEF Reverse
<1>3. \A k \in 1 .. n : n - k + 1 \in 1 .. n
  BY <1>1
<1>4. a \in Seq(Digits) /\ Len(a) = n /\ \A k \in 1 .. n : a[k] = s[n - k + 1]
  BY <1>1, <1>2, <1>3
<1> HIDE DEF a
<1>5. /\ b \in Seq(Digits) /\ Len(b) = n + 1 /\ b[n + 1] = d
      /\ \A k \in 1 .. n : b[k] = a[k]
  BY <1>1, <1>4
<1> HIDE DEF b, u, c
<1>6. ASSUME NEW k \in 1 .. n + 1
      PROVE  u[n + 1 - k + 1] \in Digits /\ u[n + 1 - k + 1] = b[k]
  <2>1. CASE k = n + 1
    BY <1>1, <1>5, <2>1
  <2>2. CASE k # n + 1
    <3>1. k \in 1 .. n /\ n - k + 1 \in 1 .. n /\ n + 1 - k + 1 = (n - k + 1) + 1
      BY <1>1, <2>2
    <3>2. u[(n - k + 1) + 1] = s[n - k + 1]
      BY <1>1, <3>1
    <3> QED BY <1>1, <1>4, <1>5, <3>1, <3>2
  <2> QED BY <2>1, <2>2
<1>7. c \in Seq(Digits) /\ Len(c) = n + 1 /\ \A k \in 1 .. n + 1 : c[k] = b[k]
  BY <1>1, <1>2, <1>6
<1>8. c = b
  BY <1>1, <1>5, <1>7, SeqEqual
<1> QED BY <1>1, <1>4, <1>8 DEF a, b, c, u

(* One digit more.                                                         *)
LEMMA OneMore ==
  ASSUME NEW n \in Nat, n # 0, Taken[n \div 10] \in Seq(Digits),
         n \div 10 # 0 => InDecimal(Reverse(Taken[n \div 10]), n \div 10)
  PROVE  Taken[n] \in Seq(Digits) /\ InDecimal(Reverse(Taken[n]), n)
<1> PICK q \in Nat, d \in Digits : q = n \div 10 /\ d = n % 10 /\ n = q * 10 + d
  BY Tenth
<1>1. Taken[n] = <<d>> \o Taken[q]
  BY TakenIs, Zenon DEF Takes
<1> DEFINE s == Reverse(Taken[q])
<1>2. /\ Taken[n] \in Seq(Digits) /\ s \in Seq(Digits)
      /\ Reverse(Taken[n]) = Append(s, d) /\ Len(s) = Len(Taken[q])
  BY <1>1, ReverseAdds
<1> HIDE DEF s
<1>3. /\ Append(s, d) \in Seq(Digits) /\ Append(s, d) # <<>>
      /\ Len(Append(s, d)) = Len(s) + 1 /\ Len(s) \in Nat
      /\ Append(s, d)[Len(s) + 1] = d
      /\ s # <<>> => Append(s, d)[1] = s[1]
  BY <1>2
<1>4. Value(Append(s, d)) = Value(s) * 10 + d
  BY <1>2, ValueAppend
<1>5. CASE q = 0
  <2>1. Taken[q] = <<>>
    BY <1>5, TakenIs, Zenon DEF Takes
  <2>2. Len(s) = 0 /\ s = <<>>
    BY <1>2, <2>1, EmptySeq
  <2>3. Value(s) = 0
    BY <2>2, ValueEmpty
  <2>4. Value(Append(s, d)) = n
    BY <1>4, <1>5, <2>3 DEF Digits
  <2> QED BY <1>2, <1>3, <2>2, <2>4 DEF InDecimal
<1>6. CASE q # 0
  <2>1. s \in Seq(Digits) /\ s # <<>> /\ Value(s) = q /\ (Len(s) > 1 => s[1] # 0)
    BY <1>6 DEF InDecimal, s
  <2>2. Value(Append(s, d)) = n
    BY <1>4, <2>1
  <2>3. s[1] # 0
    <3>1. CASE Len(s) > 1
      BY <2>1, <3>1
    <3>2. CASE Len(s) = 1
      <4>1. s = <<s[1]>> /\ s[1] \in Digits
        BY <2>1, <3>2
      <4>2. Value(s) = s[1]
        BY <4>1, ValueOne, Zenon
      <4> QED BY <1>6, <2>1, <4>2
    <3>3. Len(s) > 1 \/ Len(s) = 1
      <4>1. PICK l \in Nat : l = Len(s)
        BY <1>3
      <4>2. l # 0
        BY <2>1, <4>1, EmptySeq
      <4>3. l > 1 \/ l = 1
        BY <4>2
      <4> QED BY <4>1, <4>3
    <3> QED BY <3>1, <3>2, <3>3
  <2> QED BY <1>2, <1>3, <2>1, <2>2, <2>3 DEF InDecimal
<1> QED BY <1>5, <1>6

LEMMA Shown ==
  ASSUME NEW n \in Nat
  PROVE  InDecimal(Magnitude(n), n)
<1> DEFINE T == {m \in 0 .. n : \A k \in 0 .. m :
                   /\ Taken[k] \in Seq(Digits)
                   /\ k # 0 => InDecimal(Reverse(Taken[k]), k)}
<1>1. 0 \in T
  <2>1. Taken[0] = <<>>
    BY TakenIs, Zenon DEF Takes
  <2>2. <<>> \in Seq(Digits) /\ \A k \in 0 .. 0 : k = 0
    OBVIOUS
  <2>3. 0 \in 0 .. n
    OBVIOUS
  <2>4. \A k \in 0 .. 0 : Taken[k] \in Seq(Digits) /\ k = 0
    BY <2>1, <2>2
  <2> QED BY <2>3, <2>4
<1>2. ASSUME NEW m \in 0 .. n - 1, m \in T PROVE m + 1 \in T
  <2>1. m + 1 \in Nat /\ m + 1 # 0 /\ (m + 1) \div 10 \in 0 .. m
    <3>1. m + 1 \in Nat /\ m + 1 # 0 /\ (m + 1) - 1 = m
      OBVIOUS
    <3> QED BY <3>1, Tenth
  <2>2. /\ Taken[(m + 1) \div 10] \in Seq(Digits)
        /\ (m + 1) \div 10 # 0
             => InDecimal(Reverse(Taken[(m + 1) \div 10]), (m + 1) \div 10)
    BY <1>2, <2>1, Zenon
  <2>3. Taken[m + 1] \in Seq(Digits) /\ InDecimal(Reverse(Taken[m + 1]), m + 1)
    BY <2>1, <2>2, OneMore
  <2>4. \A k \in 0 .. m + 1 : k \in 0 .. m \/ k = m + 1
    OBVIOUS
  <2>5. m + 1 \in 0 .. n
    OBVIOUS
  <2> QED BY <1>2, <2>3, <2>4, <2>5
<1> HIDE DEF T
<1>3. n \in T
  <2>1. \A k \in 0 .. n : k \in T
    BY <1>1, <1>2, Counting
  <2> QED BY <2>1
<1>4. CASE n = 0
  <2>1. /\ 0 \in Digits
        /\ <<0>> \in Seq(Digits) /\ <<0>> # <<>> /\ Len(<<0>>) = 1
    BY DEF Digits
  <2>2. Value(<<0>>) = 0
    BY <2>1, ValueOne, Zenon
  <2> QED BY <1>4, <2>1, <2>2 DEF InDecimal, Magnitude
<1>5. CASE n # 0
  <2>1. InDecimal(Reverse(Taken[n]), n)
    BY <1>3, <1>5 DEF T
  <2> QED BY <1>5, <2>1 DEF Magnitude
<1> QED BY <1>4, <1>5

-----------------------------------------------------------------------------
(* The line calc prints.                                                   *)

LEMMA PrintedShows ==
  ASSUME NEW n \in Ints \ {INT_MIN}, NEW p \in Printed(n)
  PROVE  Shows(p, n)
<1> DEFINE m == IF n < 0 THEN -n ELSE n
<1>1. m \in Nat /\ n \in Int /\ n = IF n < 0 THEN -m ELSE m
  BY IntFacts
<1>2. p.digits = Magnitude(m) /\ p.negative \in {n < 0}
  BY Zenon DEF Printed
<1> HIDE DEF m
<1>3. InDecimal(p.digits, m)
  BY <1>1, <1>2, Shown
<1>4. /\ p.digits # <<>> /\ \A k \in DOMAIN p.digits : p.digits[k] \in 0 .. 9
      /\ Len(p.digits) > 1 => p.digits[1] # 0
  BY <1>3 DEF InDecimal, Digits
<1>5. n = IF p.negative THEN -Value(p.digits) ELSE Value(p.digits)
  <2>1. Value(p.digits) = m
    BY <1>3 DEF InDecimal
  <2>2. p.negative <=> n < 0
    BY <1>2, Zenon
  <2>3. CASE n < 0
    BY <1>1, <2>1, <2>2, <2>3
  <2>4. CASE ~(n < 0)
    BY <1>1, <2>1, <2>2, <2>4
  <2> QED BY <2>3, <2>4
<1> QED BY <1>4, <1>5, Zenon DEF Shows

(* The quotient of numbers without sign.                                   *)
LEMMA QuotientIs ==
  ASSUME NEW a \in Nat, NEW b \in Nat, b # 0, NEW r \in Int,
         r * b <= a, a < (r + 1) * b
  PROVE  Quotient(a, b) = r
<1>1. /\ (a \div b) \in Int /\ (a \div b) * b <= a /\ a < ((a \div b) + 1) * b
  OBVIOUS
<1>2. Quotient(a, b) = a \div b
  <2>1. ~(a < 0) /\ ~(b < 0)
    OBVIOUS
  <2> QED BY <2>1 DEF Quotient
<1>3. \A q \in Int : q * b <= a /\ a < (q + 1) * b => q = r
  OBVIOUS
<1> QED BY <1>1, <1>2, <1>3

LEMMA OperationIs ==
  ASSUME NEW a \in Nat, NEW b \in Nat, NEW op \in {"+", "-", "*", "/"},
         NEW r \in Ints, IsResult(op, a, b, r)
  PROVE  (op = "/" => b # 0) /\ Operation(op, a, b) = r
<1>1. r \in Int
  BY IntFacts
<1>2. CASE op = "+"
  BY <1>1, <1>2 DEF IsResult, Operation
<1>3. CASE op = "-"
  BY <1>1, <1>3 DEF IsResult, Operation
<1>4. CASE op = "*"
  BY <1>1, <1>4 DEF IsResult, Operation
<1>5. CASE op = "/"
  <2>1. r * b <= a /\ a < (r + 1) * b
    BY <1>5 DEF IsResult
  <2>2. b # 0
    BY <1>1, <2>1
  <2>3. Quotient(a, b) = r
    BY <1>1, <2>1, <2>2, QuotientIs
  <2> QED BY <1>5, <2>2, <2>3 DEF Operation
<1> QED BY <1>2, <1>3, <1>4, <1>5

LEMMA LineExact ==
  ASSUME NEW e \in Expressions, NEW p \in cmd_calc(e), p.kind = "line",
         Value(e[1]) \in Ints, Value(e[3]) \in Ints,
         NEW r \in Ints \ {INT_MIN}, IsResult(e[2], Value(e[1]), Value(e[3]), r)
  PROVE  Shows(p.left, Value(e[1])) /\ Shows(p.right, Value(e[3])) /\ Shows(p.result, r)
<1> DEFINE a == Value(e[1])
           b == Value(e[3])
           op == e[2]
<1>1. e[1] \in Seq(Digits) /\ e[3] \in Seq(Digits)
  BY KernelAssumption DEF Digits
<1>2. Number(e[1]) = a /\ Number(e[3]) = b
  BY <1>1, ReadExact
<1>3. a \in Nat /\ b \in Nat
  <2>1. (\E h : Reads(h, FALSE, e[1])) /\ (\E h : Reads(h, FALSE, e[3]))
    BY <1>1, ReadIs
  <2> QED BY <1>1, <2>1, ReadGrows
<1> HIDE DEF a, b, op
<1>4. op \in {"+", "-", "*", "/"} /\ p \in Line(a, op, b, Wrap(Operation(op, a, b)))
  <2> DEFINE result == Wrap(Operation(op, a, b))
  <2>1. p \in CASE op \notin {"+", "-", "*", "/"} -> Message("usage")
                [] op = "/" /\ b = 0              -> Message("division by zero")
                [] op = "/" /\ a = INT_MIN /\ b = -1 -> Message("fault")
                [] OTHER -> Line(a, op, b, result)
    BY <1>2, Zenon DEF cmd_calc, op
  <2>2. p \notin Message("usage") /\ p \notin Message("division by zero")
        /\ p \notin Message("fault")
    <3>1. \A kind : p \in Message(kind) => p.kind = kind
      BY DEF Message
    <3>2. "usage" # "line" /\ "division by zero" # "line" /\ "fault" # "line"
      OBVIOUS
    <3> QED BY <3>1, <3>2
  <2> HIDE DEF result
  <2> QED BY <2>1, <2>2 DEF result
<1>5. Operation(op, a, b) = r
  BY <1>3, <1>4, OperationIs DEF a, b, op
<1>6. Wrap(Operation(op, a, b)) = r
  BY <1>5, IntFacts
<1>7. p.left \in Printed(a) /\ p.right \in Printed(b) /\ p.result \in Printed(r)
  BY <1>4, <1>6 DEF Line
<1>8. a \in Ints \ {INT_MIN} /\ b \in Ints \ {INT_MIN}
  BY <1>3, IntFacts DEF a, b
<1> QED BY <1>7, <1>8, PrintedShows DEF a, b

(* What is on the screen is what calc made of what was typed.              *)
CalcInv ==
  shown.kind = "line" => typed \in Expressions /\ shown \in cmd_calc(typed)

LEMMA CalcStep == CalcInv /\ [Next]_vars => CalcInv'
<1> SUFFICES ASSUME CalcInv, [Next]_vars PROVE CalcInv'
  OBVIOUS
<1>1. CASE UNCHANGED <<typed, shown>>
  BY <1>1 DEF CalcInv
<1>2. CASE Off
  BY <1>2 DEF Off, NoLine, CalcInv
<1>3. CASE \E e \in Expressions : CalcCommand(e)
  BY <1>2, <1>3 DEF CalcCommand, CalcInv
<1>4. UNCHANGED <<typed, shown>> \/ Off \/ \E e \in Expressions : CalcCommand(e)
  BY DEF Next, Program, User, Devices, vars, kernelVars, PowerOn, Detect, Detected,
         Sector, Disks, SerialPrint, SerialRead, Panic, RebootCommand, Pulse,
         Prompt, PowerSwitch, ControllerReads
<1> QED BY <1>1, <1>2, <1>3, <1>4

(* A line calc prints shows both numbers as they were typed and a result  *)
(* that is right, in decimal, whenever all three fit in an int, whatever   *)
(* its width and however many digits were typed.                           *)
THEOREM CalcCorrect == Spec => []CalcExact
<1>1. Init => CalcInv
  BY DEF Init, CalcInv, NoLine
<1>2. CalcInv => CalcExact
  <2> SUFFICES ASSUME CalcInv, shown.kind = "line",
                      Value(typed[1]) \in Ints, Value(typed[3]) \in Ints,
                      NEW r \in Ints \ {INT_MIN},
                      IsResult(typed[2], Value(typed[1]), Value(typed[3]), r)
               PROVE  /\ Shows(shown.left, Value(typed[1]))
                      /\ Shows(shown.right, Value(typed[3]))
                      /\ Shows(shown.result, r)
    BY Zenon DEF CalcExact
  <2> QED BY LineExact DEF CalcInv
<1> QED BY <1>1, <1>2, CalcStep, PTL DEF Spec
=============================================================================
