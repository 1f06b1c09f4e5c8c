----------------------------- MODULE SectorDrive -----------------------------
(***************************************************************************)
(* What the sector calls promise about one drive: each reads or writes one *)
(* sector at once, fails, or loses what it wrote without saying so.  A     *)
(* command given up on may be owed: the drive goes on with it.  Only then  *)
(* may a call that returns 0 have moved another sector than it was asked.  *)
(***************************************************************************)
EXTENDS Integers

CONSTANTS LBA, Data, NOISE

VARIABLES
  sectors, \* what the drive holds
  owed,    \* the command given up on, or the one with op "none"
  request, \* the last call
  answer   \* its answer; code 1 before it is there

vars == <<sectors, owed, request, answer>>

Failed   == [code |-> -1, data |-> NOISE]
Done(d)  == [code |-> 0, data |-> d]
Pending  == [code |-> 1, data |-> NOISE]
Order(o) == [op |-> o, lba |-> request.lba]
NoOrder  == [op |-> "none", lba |-> CHOOSE l \in LBA : TRUE]
Probe    == [op |-> "IDENTIFY", lba |-> NoOrder.lba]
NoRequest == [op |-> "none", lba |-> NoOrder.lba, data |-> NOISE]

Init ==
  /\ sectors \in [LBA -> Data] /\ owed = NoOrder
  /\ request = NoRequest /\ answer = Pending

Ask ==
  /\ request' \in [op : {"READ"}, lba : LBA, data : {NOISE}]
                    \cup [op : {"WRITE"}, lba : LBA, data : Data]
  /\ answer' = Pending
  /\ UNCHANGED <<sectors, owed>>

Asked(op) == request.op = op /\ answer = Pending

(* The command may be owed from now on, unless another one still is.       *)
Fail ==
  /\ request.op # "none" /\ answer = Pending /\ answer' = Failed
  /\ \/ UNCHANGED owed
     \/ owed = NoOrder /\ owed' = Order(request.op)
  /\ UNCHANGED <<sectors, request>>

Read ==
  /\ Asked("READ") /\ owed = NoOrder
  /\ answer' = Done(sectors[request.lba])
  /\ UNCHANGED <<sectors, owed, request>>

Write ==
  /\ Asked("WRITE") /\ owed = NoOrder
  /\ \/ sectors' = [sectors EXCEPT ![request.lba] = request.data]
     \/ UNCHANGED sectors
  /\ answer' = Done(NOISE)
  /\ UNCHANGED <<owed, request>>

(* A read that takes what is owed for its own sector.                      *)
LateRead ==
  /\ Asked("READ") /\ owed # NoOrder
  /\ IF owed.op = "READ" THEN answer' = Done(sectors[owed.lba])
                         ELSE answer' = Done(NOISE)
  /\ owed' = IF owed.op = "WRITE" THEN owed ELSE NoOrder
  /\ UNCHANGED <<sectors, request>>

(* A write whose words go to the sector of the write that is owed, or      *)
(* nowhere.                                                                *)
LateWrite ==
  /\ Asked("WRITE") /\ owed # NoOrder
  /\ answer' = Done(NOISE)
  /\ IF owed.op = "WRITE"
     THEN /\ owed' = NoOrder
          /\ \/ sectors' = [sectors EXCEPT ![owed.lba] = request.data]
             \/ UNCHANGED sectors
     ELSE UNCHANGED <<sectors, owed>>
  /\ UNCHANGED request

(* The drive drops what it owes, or a probe takes it.                      *)
Settle == owed' = NoOrder /\ UNCHANGED <<sectors, request, answer>>

(* Looking for drives, which may leave its own command owed.               *)
StartProbe ==
  /\ request' = NoRequest /\ answer' = Pending
  /\ owed' \in {owed, NoOrder}
  /\ UNCHANGED sectors
ProbeGivenUp ==
  /\ request = NoRequest /\ owed = NoOrder /\ owed' = Probe
  /\ UNCHANGED <<sectors, request, answer>>

PowerUp ==
  /\ request' = NoRequest /\ answer' = Pending /\ owed' = NoOrder
  /\ UNCHANGED sectors

Next ==
  \/ Ask \/ Fail \/ Read \/ Write \/ LateRead \/ LateWrite
  \/ Settle \/ StartProbe \/ ProbeGivenUp \/ PowerUp
Spec == Init /\ [][Next]_vars
=============================================================================
