------------------------------- MODULE AtaPio -------------------------------
(***************************************************************************)
(* The register protocol under fs_read_sector_direct, fs_write_sector_     *)
(* direct and ata_identify: two drives on one channel, each with its own   *)
(* BSY, DRQ and ERR, one register that says which of them answers, and     *)
(* loops that look at the status a limited number of times.                *)
(*                                                                         *)
(* A drive may be slower than any loop.  It then goes on with the command  *)
(* it was given up on, ignores what it is sent while BSY, and may ignore   *)
(* or take a new command while it waits to move the old one's sector.      *)
(***************************************************************************)
EXTENDS Integers, Sequences

CONSTANTS
  Units,   \* the drives' numbers
  Ours,    \* fs_drive_num
  LBA, Data,
  NOISE,   \* what the data port gives when no sector waits there
  LIMIT,   \* looks a sector's loops may spend (100000)
  ID_LIMIT \* those of ata_identify (10000)

ASSUME PioAssumption ==
  /\ Ours \in Units /\ NOISE \notin Data /\ LBA # {}
  /\ LIMIT \in Nat \ {0} /\ ID_LIMIT \in Nat \ {0}

VARIABLES
  phase,    \* of each drive; "give": a sector waits, "take": one is wanted
  job,      \* the command each drive is at
  medium,   \* the sectors of each drive
  select,   \* the drive register
  at,       \* the loop the kernel is in, or "idle"
  timeout,
  request,  \* what the call under way, or the last one, was asked
  answer,   \* what it returned
  accepted  \* history: the drive took the last command it was sent

pioVars ==
  <<phase, job, medium, select, at, timeout, request, answer, accepted>>

Phases  == {"none", "ready", "error", "working", "give", "take", "store"}
At      == {"idle", "ready", "drq", "data", "done", "identify"}
Request == [op : {"READ"}, lba : LBA, data : {NOISE}]
             \cup [op : {"WRITE"}, lba : LBA, data : Data]
NoRequest == [op |-> "none", lba |-> CHOOSE l \in LBA : TRUE, data |-> NOISE]
Command   == [op : {"READ", "WRITE", "IDENTIFY", "none"}, lba : LBA]
NoJob     == [op |-> "none", lba |-> NoRequest.lba]
IDENTIFY  == [op |-> "IDENTIFY", lba |-> NoRequest.lba]
Pending   == [code |-> 1, data |-> NOISE]
Failed    == [code |-> -1, data |-> NOISE]
Done(d)   == [code |-> 0, data |-> d]

PioType ==
  /\ phase \in [Units -> Phases] /\ job \in [Units -> Command]
  /\ medium \in [Units -> [LBA -> Data]] /\ select \in Units
  /\ at \in At /\ timeout \in 0 .. (IF LIMIT > ID_LIMIT THEN LIMIT ELSE ID_LIMIT)
  /\ request \in Request \cup {NoRequest}
  /\ answer \in {Pending, Failed} \cup {Done(d) : d \in Data \cup {NOISE}}
  /\ accepted \in BOOLEAN

(* Power-on, with the drives that are there.                               *)
PioReset(there) ==
  /\ phase' = [u \in Units |-> IF u \in there THEN "ready" ELSE "none"]
  /\ job' = [u \in Units |-> NoJob] /\ select' = Ours
  /\ at' = "idle" /\ timeout' = 0 /\ request' = NoRequest
  /\ answer' = Pending /\ accepted' = FALSE
  /\ UNCHANGED medium

Bsy(u) == phase[u] \in {"working", "store"}
Drq(u) == phase[u] \in {"give", "take"}
Err(u) == phase[u] = "error"

-----------------------------------------------------------------------------
(* The drives.                                                             *)

Ends(u, p) ==
  /\ phase' = [phase EXCEPT ![u] = p] /\ job' = [job EXCEPT ![u] = NoJob]

(* A drive gets on with its command, in its own time.                      *)
DriveWorks(u) ==
  /\ \/ /\ phase[u] = "working"
        /\ phase' = [phase EXCEPT ![u] =
                       IF job[u].op = "WRITE" THEN "take" ELSE "give"]
        /\ UNCHANGED job
     \/ Bsy(u) /\ Ends(u, "error")
     \/ phase[u] = "store" /\ Ends(u, "ready")
  /\ UNCHANGED <<medium, select, at, timeout, request, answer, accepted>>

(* What a drive does with a command register written.                      *)
Commanded(u, c) ==
  \/ /\ phase[u] \in {"ready", "error", "give", "take"}
     /\ phase' = [phase EXCEPT ![u] = "working"] /\ job' = [job EXCEPT ![u] = c]
     /\ accepted' = TRUE
  \/ /\ phase[u] \notin {"ready", "error"}
     /\ accepted' = FALSE /\ UNCHANGED <<phase, job>>

-----------------------------------------------------------------------------
(* A sector.                                                               *)

Transfer(r) ==
  /\ at = "idle" /\ at' = "ready" /\ timeout' = LIMIT
  /\ request' = r /\ answer' = Pending /\ accepted' = FALSE
  /\ UNCHANGED <<phase, job, medium, select>>

(* The call returns; its locals are gone.                                  *)
Returns == at' = "idle" /\ timeout' = 0 /\ accepted' = FALSE

(* while (!goal && timeout--); if (timeout <= 0) return -1;                *)
(* What is met at the last look, when timeout is already 0, is not met.    *)
Met_OrTimedOut(goal) == goal \/ timeout = 0
Met(goal)            == goal /\ timeout > 0

Left_Same == timeout
Left      == timeout - 1
LooksOn(goal) ==
  /\ ~goal /\ timeout > 0 /\ timeout' = Left
  /\ UNCHANGED <<phase, job, medium, select, at, request, answer, accepted>>

GivesUp ==
  /\ timeout = 0 /\ Returns /\ answer' = Failed
  /\ UNCHANGED <<phase, job, medium, select, request>>

(* The drive looked at is the one selected last, which need not be ours;   *)
(* ours is selected after it.                                              *)
Addressed_AsLeft == select
Addressed        == Ours

WaitReady ==
  /\ at = "ready"
  /\ \/ LooksOn(~Bsy(select)) \/ GivesUp
     \/ /\ Met(~Bsy(select))
        /\ select' = Addressed
        /\ Commanded(select', [op |-> request.op, lba |-> request.lba])
        /\ at' = "drq" /\ timeout' = LIMIT
        /\ UNCHANGED <<medium, request, answer>>

WaitDrq ==
  /\ at = "drq"
  /\ \/ LooksOn(Drq(select)) \/ GivesUp
     \/ /\ Met(Drq(select)) /\ at' = "data"
        /\ UNCHANGED <<phase, job, medium, select, timeout, request, answer, accepted>>

(* 256 words: the sector of the command the drive is at, whichever that is.*)
Given(u) == IF job[u].op = "READ" THEN medium[u][job[u].lba] ELSE NOISE

ReadWords ==
  /\ at = "data" /\ request.op = "READ" /\ Returns
  /\ IF phase[select] = "give"
     THEN answer' = Done(Given(select)) /\ Ends(select, "ready")
     ELSE answer' = Done(NOISE) /\ UNCHANGED <<phase, job>>
  /\ UNCHANGED <<medium, select, request>>

(* The code is 0 whatever becomes of the words.                            *)
WriteWords ==
  /\ at = "data" /\ request.op = "WRITE" /\ at' = "done" /\ timeout' = LIMIT
  /\ IF phase[select] = "take"
     THEN /\ \/ medium' = [medium EXCEPT ![select][job[select].lba] = request.data]
             \/ UNCHANGED medium
          /\ Ends(select, "store")
     ELSE UNCHANGED <<phase, job, medium>>
  /\ answer' = Done(NOISE)
  /\ UNCHANGED <<select, request, accepted>>

(* The first look may come before the drive has raised BSY; running out of *)
(* looks is not an error here.                                             *)
WaitDone ==
  /\ at = "done"
  /\ \/ LooksOn(~Bsy(select))
     \/ /\ ~Bsy(select) \/ timeout \in {0, LIMIT}
        /\ Returns
        /\ UNCHANGED <<phase, job, medium, select, request, answer>>

-----------------------------------------------------------------------------
(* ata_identify: the command is sent without a look at BSY.                *)
Identify(u) ==
  /\ at = "idle" /\ select' = u /\ Commanded(u, IDENTIFY)
  /\ request' = NoRequest /\ answer' = Pending
  /\ IF phase[u] = "none" THEN at' = "idle" /\ timeout' = 0
     ELSE at' = "identify" /\ timeout' = ID_LIMIT - 1
  /\ UNCHANGED medium

(* It comes back without the drive's words at an error and after the last  *)
(* look, whatever that shows.                                              *)
WaitIdentify ==
  /\ at = "identify"
  /\ \/ LooksOn(Err(select) \/ Drq(select))
     \/ /\ Returns
        /\ \/ Err(select) \/ timeout = 0
           \/ Drq(select) /\ phase[select] # "give"
        /\ UNCHANGED <<phase, job, medium, select, request, answer>>
     \/ /\ Returns /\ Met(phase[select] = "give") /\ Ends(select, "ready")
        /\ UNCHANGED <<medium, select, request, answer>>

PioProgram ==
  WaitReady \/ WaitDrq \/ ReadWords \/ WriteWords \/ WaitDone \/ WaitIdentify
=============================================================================
