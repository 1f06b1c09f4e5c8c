------------------------------- MODULE Kernel -------------------------------
(***************************************************************************)
(* kernel_main and the shell as the one thread that drives everything:     *)
(* power-on, the multiboot check, detection, then one command at a time,   *)
(* each of which must be over before the next prompt.  The devices work    *)
(* behind it in their own time.  Which sectors SzymFS moves is SzymFS's    *)
(* business; here any one of them is moved.                                *)
(***************************************************************************)
EXTENDS AtaPio, Serial, Calc

CONSTANTS
  Sessions,    \* machines: their drives, whether they have a serial port,
               \* and the commands their user types
  Expressions  \* what is given to calc

ASSUME KernelAssumption ==
  /\ \A s \in Sessions : s.drives \subseteq Units /\ s.port \in BOOLEAN
  /\ \A e \in Expressions : e[1] \in Seq(0 .. 9) /\ e[3] \in Seq(0 .. 9)

VARIABLES
  session,
  pc,      \* what the thread is in
  detect,  \* drives ata_detect_drives has still to try
  bound,   \* fs_drive_selected
  typed, shown, \* the last expression given to calc, and what it printed
  full     \* the keyboard controller's input buffer

vars == <<pioVars, serialVars, session, pc, detect, bound, typed, shown, full>>

kernelVars == <<session, bound, typed, shown, full>>

Resting == {"off", "prompt", "halted"}
NoLine  == [kind |-> "none"]

AnyMedium == CHOOSE m \in [LBA -> Data] : TRUE

Off ==
  /\ pc' = "off" /\ bound' = FALSE /\ detect' = {} /\ full' = FALSE
  /\ typed' = <<>> /\ shown' = NoLine
  /\ PioReset(session.drives) /\ SerialReset(session.port)
  /\ UNCHANGED session

Init ==
  /\ session \in Sessions
  /\ pc = "off" /\ bound = FALSE /\ detect = {} /\ full = FALSE
  /\ typed = <<>> /\ shown = NoLine
  /\ medium \in [Units -> [LBA -> Data]]
  /\ \A u \in Units \ session.drives : medium[u] = AnyMedium
  /\ phase = [u \in Units |-> IF u \in session.drives THEN "ready" ELSE "none"]
  /\ job = [u \in Units |-> NoJob] /\ select = Ours
  /\ at = "idle" /\ timeout = 0 /\ request = NoRequest
  /\ answer = Pending /\ accepted = FALSE
  /\ port = session.port /\ doing = "nothing"
  /\ unsent = <<>> /\ thr = <<>> /\ tsr = <<>> /\ fifo = <<>> /\ buffer = <<>>
  /\ message = <<>> /\ ahead = <<>> /\ line = <<>> /\ arrived = <<>>

-----------------------------------------------------------------------------
(* The magic number is right, or kernel_panic stops the machine.           *)
PowerOn ==
  /\ pc = "off"
  /\ \/ pc' = "halted" /\ UNCHANGED detect
     \/ pc' = "boot" /\ detect' = Units
  /\ UNCHANGED <<kernelVars, pioVars, serialVars>>

(* ata_detect_drives: each place in turn, the lower number first.          *)
Detect ==
  /\ pc \in {"boot", "disks"} /\ at = "idle" /\ detect # {}
  /\ \E u \in detect :
       /\ \A v \in detect : u <= v
       /\ Identify(u) /\ detect' = detect \ {u}
  /\ UNCHANGED <<kernelVars, serialVars, pc>>

(* The selector binds the filesystem to our drive, which it has selected   *)
(* and found ready, or to none: another drive may have been selected that  *)
(* was not.                                                                *)
Binds ==
  \/ /\ Ours \in session.drives /\ ~Bsy(Ours)
     /\ bound' = TRUE /\ select' = Ours
  \/ bound' = FALSE /\ select' \in {select} \cup session.drives

Detected ==
  /\ at = "idle" /\ detect = {} /\ pc' = "prompt"
  /\ \/ pc = "boot" /\ Binds
     \/ pc = "disks" /\ UNCHANGED <<bound, select>>
  /\ UNCHANGED <<session, typed, shown, full, serialVars, detect,
                 phase, job, medium, at, timeout, request, answer, accepted>>

Types(command) == pc = "prompt" /\ command \in session.commands

(* Every fs_* call gives up at once when no drive is bound.                *)
Sector(r) ==
  /\ Types("sector") /\ bound /\ pc' = "sector" /\ Transfer(r)
  /\ UNCHANGED <<kernelVars, serialVars, detect>>

Disks ==
  /\ Types("disks") /\ pc' = "disks" /\ detect' = Units
  /\ UNCHANGED <<kernelVars, pioVars, serialVars>>

SerialPrint(msg) ==
  /\ Types("serial_print") /\ pc' = "serial" /\ cmd_serial_print(msg)
  /\ UNCHANGED <<kernelVars, pioVars, detect>>

SerialRead ==
  /\ Types("serial_read") /\ pc' = "serial" /\ cmd_serial_read
  /\ UNCHANGED <<kernelVars, pioVars, detect>>

(* A divide fault finds no handler: the processor resets.                  *)
CalcCommand(e) ==
  /\ Types("calc")
  /\ \E outcome \in cmd_calc(e) :
       \/ outcome.kind = "fault" /\ Off
       \/ /\ outcome.kind # "fault" /\ shown' = outcome /\ typed' = e
          /\ UNCHANGED <<session, pc, bound, full, detect, pioVars, serialVars>>

Panic ==
  /\ Types("panic") /\ pc' = "halted"
  /\ UNCHANGED <<kernelVars, pioVars, serialVars, detect>>

(* The controller may still hold a byte sent to it.                        *)
RebootCommand ==
  /\ Types("reboot") /\ pc' = "reboot" /\ full' \in BOOLEAN
  /\ UNCHANGED <<session, bound, typed, shown, pioVars, serialVars, detect>>

(* Once it is empty the machine is reset, or the processor halts.          *)
Pulse ==
  /\ pc = "reboot" /\ ~full
  /\ \/ Off
     \/ /\ pc' = "halted"
        /\ UNCHANGED <<kernelVars, pioVars, serialVars, detect>>

(* A command is over when what it runs is.                                 *)
Prompt ==
  /\ \/ pc = "sector" /\ at = "idle"
     \/ pc = "serial" /\ doing = "nothing"
  /\ pc' = "prompt"
  /\ UNCHANGED <<kernelVars, pioVars, serialVars, detect>>

Program ==
  \/ PioProgram /\ UNCHANGED <<kernelVars, serialVars, pc, detect>>
  \/ pc = "serial" /\ SerialProgram /\ UNCHANGED <<kernelVars, pioVars, pc, detect>>
  \/ Detect \/ Detected \/ Prompt \/ Pulse

User ==
  \/ PowerOn \/ Disks \/ SerialRead \/ Panic \/ RebootCommand
  \/ \E r \in Request : Sector(r)
  \/ \E msg \in Messages : SerialPrint(msg)
  \/ \E e \in Expressions : CalcCommand(e)

PowerSwitch == pc # "off" /\ Off

ControllerReads ==
  /\ pc = "reboot" /\ full /\ full' = FALSE
  /\ UNCHANGED <<session, pc, detect, bound, typed, shown, pioVars, serialVars>>

Devices ==
  \/ /\ pc # "off" /\ \E u \in Units : DriveWorks(u)
     /\ UNCHANGED <<kernelVars, serialVars, pc, detect>>
  \/ /\ pc # "off" /\ (Shift \/ Transmit \/ \E b \in Bytes : Receive(b))
     /\ UNCHANGED <<kernelVars, pioVars, pc, detect>>
  \/ ControllerReads \/ PowerSwitch

Next == Program \/ User \/ Devices
Spec == Init /\ [][Next]_vars

(* The thread never stops while it has something to do; devices and the    *)
(* user may.                                                               *)
FairSpec == Spec /\ WF_vars(Program)

-----------------------------------------------------------------------------
TypeOK ==
  /\ PioType
  /\ session \in Sessions /\ bound \in BOOLEAN /\ full \in BOOLEAN
  /\ pc \in Resting \cup {"boot", "disks", "sector", "serial", "reboot"}
  /\ detect \subseteq Units
  /\ at # "idle" => pc \in {"boot", "disks", "sector"}
  /\ doing \in {"nothing", "print", "read"} /\ Len(buffer) < BUFFER

(* The command of the call under way is not yet owed.                      *)
UnderWay == at # "idle" /\ accepted /\ select = Ours
Owed ==
  IF phase[Ours] \in {"working", "give", "take"} /\ ~UnderWay
  THEN job[Ours] ELSE NoJob

Drive == INSTANCE SectorDrive WITH sectors <- medium[Ours], owed <- Owed

(* While nothing is owed, a sector call that returns 0 moved the sector it *)
(* was asked for, or a write was lost; what a call given up on, or a probe *)
(* of a busy drive, leaves owed is the only way another sector is moved.   *)
ImplementsSectorDrive == Drive!Spec

(* The drive on the same channel that the filesystem is not bound to is    *)
(* never written, though the disks command leaves it selected and the next *)
(* sector's first loop looks at it.                                        *)
OnlyOursWritten ==
  [][\A u \in Units \ {Ours} : medium'[u] = medium[u]]_vars

(* serial_print gives the transmitter every byte once and in order, behind *)
(* at most the byte being shifted out when it began and the byte of        *)
(* serial_init's own test.  Its last two bytes may still be in the port    *)
(* when the command is over (and the next serial_init would drop one).     *)
PrintedInOrder ==
  /\ port => line \o tsr \o thr \o unsent = ahead \o message
  /\ \E old \in {<<>>} \cup {<<b>> : b \in Bytes \cup {LOOP}} :
       ahead \in {old, Append(old, LOOP)}
  /\ pc = "prompt" => unsent = <<>> /\ Len(tsr) <= 1 /\ Len(thr) <= 1

(* serial_read returns what the port received since serial_init, the late  *)
(* byte of its own test included, and nothing from before it: up to the    *)
(* first NUL or as much as the buffer takes.                               *)
ReadInOrder ==
  /\ \A k \in DOMAIN buffer : buffer[k] # NUL
  /\ port => IsPrefix(buffer, arrived)
  /\ doing = "read" /\ port => buffer \o fifo = arrived
  /\ pc = "prompt" /\ arrived # <<>> =>
       \/ Len(buffer) = BUFFER - 1
       \/ arrived[Len(buffer) + 1] = NUL

(* A line calc prints is a true equation about the numbers as typed, each  *)
(* shown in decimal without leading zeros, as long as all three fit.       *)
Value(digits)  == FoldLeft(LAMBDA n, d : n * 10 + d, 0, digits)
Shows(p, n) ==
  /\ p.digits # <<>> /\ \A k \in DOMAIN p.digits : p.digits[k] \in 0 .. 9
  /\ Len(p.digits) > 1 => p.digits[1] # 0
  /\ n = IF p.negative THEN -Value(p.digits) ELSE Value(p.digits)
IsResult(op, a, b, r) ==
  CASE op = "+" -> r = a + b [] op = "-" -> r + b = a [] op = "*" -> r = a * b
    [] op = "/" -> r * b <= a /\ a < (r + 1) * b
CalcExact ==
  shown.kind = "line" =>
    LET a == Value(typed[1])  b == Value(typed[3])
        fitting == {r \in Ints \ {INT_MIN} : IsResult(typed[2], a, b, r)}
    IN  a \in Ints /\ b \in Ints /\ fitting # {} =>
          /\ Shows(shown.left, a) /\ Shows(shown.right, b)
          /\ \E r \in fitting : Shows(shown.result, r)

(* The thread always comes back to the user, however long a drive takes or *)
(* whatever it answers; only a serial port that never takes or never gets  *)
(* the byte waited for, or a keyboard controller that never empties, keeps *)
(* it.                                                                     *)
LeftWaiting ==
  \/ doing = "print" /\ unsent # <<>> /\ thr # <<>>
  \/ doing = "read" /\ port /\ fifo = <<>>
  \/ pc = "reboot" /\ full
ComesBack == []<>(pc \in Resting) \/ <>[]LeftWaiting
=============================================================================
